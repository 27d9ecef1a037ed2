------------------------------ MODULE UsesRefs ------------------------------
(***************************************************************************)
(* The references of "uses:" lines, and the three places that say which of *)
(* them are pinned: the contract validator, the caller check and the       *)
(* hygiene policy.                                                         *)
(***************************************************************************)
EXTENDS Integers

Ref == [form   : {"local", "docker", "action"},
        at     : 0..2,      \* how many "@" it has
        sha    : BOOLEAN,   \* the last of them is followed by a full SHA only
        digest : BOOLEAN,   \* it has "@sha256:"
        quoted : BOOLEAN]   \* it stands in quotes

\* A quote is part of what USES_LINE_RE and USES_RE capture.
Captured(ref) ==
  IF ref.quoted THEN [ref EXCEPT !.form = "action", !.sha = FALSE] ELSE ref

\* build_opa_input.py takes the quotes away.
NormalizeUses(ref) == [ref EXCEPT !.quoted = FALSE]

\* Mutant: the part before the first "@" counts.
ClassifyAny(ref, local) ==
  \/ ref.form = "local" /\ local
  \/ ref.form = "docker"
  \/ ref.form = "action" /\ ref.at > 0 /\ ref.sha

\* allow_docker_digest only chooses between two messages.
ClassifyUses(ref, local) ==
  \/ ref.form = "local" /\ local
  \/ ref.form = "docker" /\ ref.digest
  \/ ref.form = "action" /\ ref.at > 0 /\ ref.sha

IsPinnedUses(ref) ==
  CASE ref.form = "local" -> TRUE
    [] ref.form = "docker" -> ref.digest
    [] OTHER -> ref.at > 0 /\ ref.sha

\* Of repo_hygiene.rego, which wants exactly one "@".
IsAcceptable(ref) ==
  \/ ref.form = "local"
  \/ ref.form = "docker" /\ ref.digest
  \/ ref.form = "action" /\ ref.at = 1 /\ ref.sha
=============================================================================
