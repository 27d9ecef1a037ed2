-------------------------- MODULE MCTemplateDrift ---------------------------
(***************************************************************************)
(* Two shared files, as in SHAPE_SHARED, with two versions each, and three *)
(* pushes: a symmetric change needs two, the third one interferes.         *)
(***************************************************************************)
EXTENDS TemplateDrift

CONSTANTS validator, harness

Files == {validator, harness}
AllOne == [f \in Files |-> 1]
TwoFiles == <<validator, harness>>
=============================================================================
