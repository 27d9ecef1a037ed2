------------------------- MODULE MCIntegrationRun --------------------------
(***************************************************************************)
(* Four names, one of them ignored, and sources with and without each      *)
(* overlap: the second overlay has a file where the framework is mounted,  *)
(* sample data of its own and files of an ignored name.                    *)
(***************************************************************************)
EXTENDS IntegrationRun, FiniteSets, TLC

CONSTANTS main, versions, tfvars, state

Names == {main, versions, tfvars, state}

Overlays == {(<<"root", main>> :> 1) @@ (<<"root", state>> :> 1),
             (<<"root", main>> :> 2) @@ (<<"root", tfvars>> :> 2)
               @@ (<<"module", main>> :> 2) @@ (<<"module", state>> :> 2)}

Framework == (<<"root", versions>> :> 1) @@ (<<"root", main>> :> 1)
               @@ (<<"root", state>> :> 1)

GoodSources ==
  [case : {TRUE}, inside : {TRUE}, role : {"runner", "framework"},
   base : Overlays, module : {Framework}, tfvars : {1, NoFile},
   testVars : BOOLEAN]

\* One thing wrong at a time.
BadSources ==
  {s \in [case : BOOLEAN, inside : BOOLEAN, role : {"runner", "other"},
          base : Overlays, module : {Framework, <<>>}, tfvars : {1},
          testVars : {FALSE}] :
     Cardinality({i \in 1..4 : \/ i = 1 /\ ~s.case
                               \/ i = 2 /\ ~s.inside
                               \/ i = 3 /\ s.role = "other"
                               \/ i = 4 /\ s.module = <<>>}) = 1}

AllSources == GoodSources \cup BadSources

\* Nothing, or what an older version of the fixture has left.
OldFiles == {<<>>, (<<"root", tfvars>> :> 2) @@ (<<"module", versions>> :> 2)
                     @@ (<<"root", state>> :> Made)}
=============================================================================
