--------------------------- MODULE TemplateDrift ----------------------------
(***************************************************************************)
(* The cross-template drift check: two sibling templates share the shape   *)
(* of a few files, and the CI of each compares its own copies with the     *)
(* sibling's main (tools/check_cross_template_drift.py, run by the job     *)
(* cross-template-drift of .github/workflows/ci.yaml on every pull request *)
(* and on every push to main).  The sibling is symmetric: the script's     *)
(* header (lines 35-38) has the matching job in each template.             *)
(*                                                                         *)
(* A file's content is what strip_regions leaves of it, a version.  The    *)
(* script reads the sibling's files one after the other, each at the main  *)
(* of that moment, so main may move between two of them.                   *)
(***************************************************************************)
EXTENDS Integers, Sequences

CONSTANTS
  Here, There,  \* the two templates
  File,         \* the files whose shape they share
  Version,      \* contents of such a file, stripped
  SharedFiles,  \* the files in the order of SHAPE_SHARED
  Seed,         \* the shape both templates start with
  MaxPushes     \* bound: pushes to pull requests, over both templates

ASSUME TemplatesAssumption == Here # There
ASSUME FilesAssumption ==
  /\ SharedFiles \in Seq(File)
  /\ \A f \in File : \E i \in 1..Len(SharedFiles) : SharedFiles[i] = f
ASSUME PushesAssumption == MaxPushes \in Nat

Template == {Here, There}
Other(t) == IF t = Here THEN There ELSE Here

Tree == [File -> Version]

ASSUME SeedAssumption == Seed \in Tree

\* What a pull request changes: a version for some of the files.
Edits == UNION {[S -> Version] : S \in (SUBSET File) \ {{}}}

\* The concurrency groups of ci.yaml: one for the pull request, one for main.
Group == Template \X {"pr", "main"}

Conclusion == {"absent", "running", "clean", "drift", "error", "crash"}

\* The conclusions with an exit code other than 0.
Red == {"drift", "error", "crash"}

\* A run of the job: the tree it checked out, the next file to compare, and the
\* files that differed.
Run == [tree : Tree, next : Nat \ {0}, failures : SUBSET File,
        conclusion : Conclusion]

VARIABLES
  required,  \* is the check required for a merge (a repository setting)
  main,      \* the head of main of each template
  pr,        \* the pull request of each template, no edits when there is none
  run,       \* the latest run of each group
  pushes     \* how often a pull request was pushed to

vars == <<required, main, pr, run, pushes>>

NoEdits == [f \in {} |-> f]

TypeOK ==
  /\ required \in BOOLEAN
  /\ main \in [Template -> Tree]
  /\ pr \in [Template -> Edits \cup {NoEdits}]
  /\ run \in [Group -> Run]
  /\ pushes \in 0..MaxPushes

----------------------------------------------------------------------------

\* tree with the edits applied: the merge commit that a run checks out.
Patched(tree, edits) ==
  [f \in File |-> IF f \in DOMAIN edits THEN edits[f] ELSE tree[f]]

NewRun(tree) ==
  [tree |-> tree, next |-> 1, failures |-> {}, conclusion |-> "running"]

NoRun(tree) == [NewRun(tree) EXCEPT !.conclusion = "absent"]

\* The templates start out with the same shape.
Init ==
  /\ required \in BOOLEAN
  /\ main = [t \in Template |-> Seed]
  /\ pr = [t \in Template |-> NoEdits]
  /\ run = [g \in Group |-> NoRun(main[g[1]])]
  /\ pushes = 0

\* A pull request is opened or pushed to; a run of it in progress is cancelled.
PushToPR(t, edits) ==
  /\ pushes < MaxPushes
  /\ pushes' = pushes + 1
  /\ pr' = [pr EXCEPT ![t] = edits]
  /\ run' = [run EXCEPT ![<<t, "pr">>] = NewRun(Patched(main[t], edits))]
  /\ UNCHANGED <<required, main>>

\* Someone re-runs the job of a pull request, on the same commit.
Rerun(t) ==
  /\ run[<<t, "pr">>].conclusion \in Red
  /\ run' = [run EXCEPT ![<<t, "pr">>] = NewRun(@.tree)]
  /\ UNCHANGED <<required, main, pr, pushes>>

\* Mutants of Merge: the job is not triggered by pushes; a push while a run is
\* in progress starts no other.
MergeUnchecked(t) ==
  /\ pr[t] # NoEdits
  /\ required => run[<<t, "pr">>].conclusion = "clean"
  /\ main' = [main EXCEPT ![t] = Patched(@, pr[t])]
  /\ pr' = [pr EXCEPT ![t] = NoEdits]
  /\ run' = [run EXCEPT ![<<t, "pr">>] = NoRun(@.tree)]
  /\ UNCHANGED <<required, pushes>>

MergeQueued(t) ==
  /\ pr[t] # NoEdits
  /\ required => run[<<t, "pr">>].conclusion = "clean"
  /\ main' = [main EXCEPT ![t] = Patched(@, pr[t])]
  /\ pr' = [pr EXCEPT ![t] = NoEdits]
  /\ run' = [run EXCEPT ![<<t, "main">>] =
                          IF @.conclusion = "running" THEN @
                            ELSE NewRun(Patched(main[t], pr[t])),
                        ![<<t, "pr">>] = NoRun(@.tree)]
  /\ UNCHANGED <<required, pushes>>

\* The merge, and the run that its push to main starts: one of an earlier push
\* still in progress is cancelled.
Merge(t) ==
  /\ pr[t] # NoEdits
  /\ required => run[<<t, "pr">>].conclusion = "clean"
  /\ main' = [main EXCEPT ![t] = Patched(@, pr[t])]
  /\ pr' = [pr EXCEPT ![t] = NoEdits]
  /\ run' = [run EXCEPT ![<<t, "main">>] = NewRun(Patched(main[t], pr[t])),
                        ![<<t, "pr">>] = NoRun(@.tree)]
  /\ UNCHANGED <<required, pushes>>

----------------------------------------------------------------------------
\* The script

InLoop(g) ==
  /\ run[g].conclusion = "running"
  /\ run[g].next <= Len(SharedFiles)

Differs(tree, t, f) == tree[f] # main[Other(t)][f]

\* Mutant: only the last file decides.
DiffFilesLast(g) ==
  LET f == SharedFiles[run[g].next]
  IN  /\ InLoop(g)
      /\ run' = [run EXCEPT
           ![g].next = @ + 1,
           ![g].failures = IF Differs(run[g].tree, g[1], f) THEN {f} ELSE {}]
      /\ UNCHANGED <<required, main, pr, pushes>>

\* One iteration of main's loop: the sibling's file is fetched and compared.
DiffFiles(g) ==
  LET f == SharedFiles[run[g].next]
  IN  /\ InLoop(g)
      /\ run' = [run EXCEPT
           ![g].next = @ + 1,
           ![g].failures = IF Differs(run[g].tree, g[1], f)
                             THEN @ \cup {f} ELSE @]
      /\ UNCHANGED <<required, main, pr, pushes>>

\* gh exits with an error: exit code 2, whatever was found before.
FetchError(g) ==
  /\ InLoop(g)
  /\ run' = [run EXCEPT ![g].conclusion = "error"]
  /\ UNCHANGED <<required, main, pr, pushes>>

\* gh answers something else than a file: the RuntimeError is not caught.
BadPayload(g) ==
  /\ InLoop(g)
  /\ run' = [run EXCEPT ![g].conclusion = "crash"]
  /\ UNCHANGED <<required, main, pr, pushes>>

Conclude(g) ==
  /\ run[g].conclusion = "running"
  /\ run[g].next > Len(SharedFiles)
  /\ run' = [run EXCEPT ![g].conclusion =
               IF run[g].failures = {} THEN "clean" ELSE "drift"]
  /\ UNCHANGED <<required, main, pr, pushes>>

Step(g) == DiffFiles(g) \/ FetchError(g) \/ BadPayload(g) \/ Conclude(g)

Next ==
  \/ \E t \in Template, edits \in Edits : PushToPR(t, edits)
  \/ \E t \in Template : Rerun(t) \/ Merge(t)
  \/ \E g \in Group : Step(g)

Spec == Init /\ [][Next]_vars

\* A run that was started goes on until it concludes or fails.  Nobody has to push,
\* re-run or merge, and ci.yaml has no schedule.
Fairness == \A g \in Group : WF_vars(DiffFiles(g) \/ Conclude(g))

FairSpec == Spec /\ Fairness

----------------------------------------------------------------------------
(***************************************************************************)
(* Properties                                                              *)
(***************************************************************************)

Drift == main[Here] # main[There]

Reported(t) == run[<<t, "main">>].conclusion \in Red

\* Drift between the two mains does not go unnoticed, although each run reads
\* the sibling file by file while it moves and a run may be cancelled: when no
\* run on main is in progress, one of the two templates shows a red one.
DriftIsReported ==
  Drift /\ (\A t \in Template : run[<<t, "main">>].conclusion # "running") =>
    \E t \in Template : Reported(t)

\* It comes to that: the runs on main end, or the drift goes.
DriftGetsReported == Drift ~> (\E t \in Template : Reported(t)) \/ ~Drift

\* If the check were required, no shared content could ever change again: the
\* first of the two pull requests of a symmetric change is red.  (The paired
\* drift of docs/reference/alignment-program-lessons.md:29, where "one side
\* lands" red.)
RequiredFreezes == [][required => UNCHANGED main]_vars

\* The script's docstring (line 20): "CI invokes this on every PR and on a
\* weekly schedule": each template sees for itself that it has drifted.
EachSideReports ==
  \A t \in Template : Drift ~> Reported(t) \/ ~Drift

----------------------------------------------------------------------------
(***************************************************************************)
(* The inductive invariant behind DriftIsReported and RequiredFreezes      *)
(***************************************************************************)

\* The run g has found file f to differ, or has yet to compare it.
Catches(g, f) ==
  /\ run[g].conclusion # "absent"
  /\ run[g].conclusion # "clean"
  /\ run[g].conclusion = "running" =>
       \/ run[g].failures # {}
       \/ \E i \in 1..Len(SharedFiles) : i >= run[g].next /\ SharedFiles[i] = f

\* The template whose main moved last catches a file that differs.
Caught ==
  Drift => \E t \in Template : \E f \in File :
    main[Here][f] # main[There][f] /\ Catches(<<t, "main">>, f)

\* A run on main checks the head of main; one of a pull request checks main
\* with the edits, unless main has moved since.
RunOnHead ==
  \A t \in Template :
    run[<<t, "main">>].conclusion # "absent" => run[<<t, "main">>].tree = main[t]

\* While the check is required: the mains are equal, and a run of a pull
\* request that has found no difference has compared equal files so far.
Frozen ==
  required =>
    /\ ~Drift
    /\ \A t \in Template :
         LET r == run[<<t, "pr">>]
         IN  pr[t] # NoEdits =>
               /\ r.tree = Patched(main[t], pr[t])
               /\ r.conclusion # "absent"
               /\ r.conclusion \in {"running", "clean"} /\ r.failures = {} =>
                    \A i \in 1..Len(SharedFiles) :
                      i < r.next =>
                        r.tree[SharedFiles[i]] = main[t][SharedFiles[i]]
               /\ r.conclusion = "clean" =>
                    r.failures = {} /\ r.next > Len(SharedFiles)

IInv == TypeOK /\ RunOnHead /\ Caught /\ Frozen
=============================================================================
