--------------------------- MODULE WorkflowGraph ---------------------------
(***************************************************************************)
(* The data tools/check_privileged_workflows.py works on: a checkout with  *)
(* its workflow files, which of them are triggered by pull_request_target, *)
(* the local reusable workflows their jobs call, and the steps that touch  *)
(* content controlled by a pull request.  The scanner (PrivilegedScan) and *)
(* its contract (PrivilegedReach) share these definitions.                 *)
(***************************************************************************)
EXTENDS Integers, Sequences

CONSTANTS
  Workflow,   \* the files of the checkout that can be a workflow
  Listing,    \* the files of .github/workflows, sorted: *.yml, then *.yaml
  Repos,      \* the checkouts the tool may be run on
  None        \* Python's None

Detail == {"checkout", "ref", "run", "parse"}

\* What matters of a step: does it use actions/checkout, does its with.ref
\* name the head of the pull request, does its run block.
Step == [checkout : BOOLEAN, refHead : BOOLEAN, runHead : BOOLEAN]

\* A job's "uses", once resolved, is an existing file of the checkout or None
\* (absent, not local, or no such file).
Job == [uses : Workflow \cup {None}, steps : SUBSET Step]

\* How loading a file and walking its jobs ends: "malformed" is YAML that
\* loads but is not made of the mappings the code calls .get and .items on, and
\* "scalar" the worst of these, a document that cannot even be asked for "on".
Kind == {"workflow", "unparseable", "malformed", "scalar"}

Repo == [dir      : BOOLEAN,                  \* .github/workflows exists
         yaml     : BOOLEAN,                  \* "import yaml" succeeds
         triggers : SUBSET Workflow,          \* "on" has pull_request_target
         kind     : [Workflow -> Kind],
         jobs     : [Workflow -> Seq(Job)]]

Finding == [path : Workflow, detail : Detail, via : Workflow \cup {None}]

\* A finding without the route it was found by.
Site == [path : Workflow, detail : Detail]

ASSUME NoneAssumption    == None \notin Workflow \cup 0..2
ASSUME ListingAssumption == Listing \in Seq(Workflow)
ASSUME ReposAssumption   == Repos \subseteq Repo

----------------------------------------------------------------------------

\* The details the body of the step loop appends for one step.
StepDetails(s) ==
  {d \in {"checkout", "ref", "run"} :
     \/ d = "checkout" /\ s.checkout
     \/ d = "ref"      /\ s.checkout /\ s.refHead
     \/ d = "run"      /\ s.runHead}

JobDetails(j) == UNION {StepDetails(s) : s \in j.steps}

FindingsAt(w, details, via) ==
  {[path |-> w, detail |-> d, via |-> via] : d \in details}

\* resolve_local_reusable
Resolves(j) == j.uses # None

IsTriggered(r, w) ==
  r.kind[w] \in {"workflow", "malformed"} /\ w \in r.triggers

\* The files main takes as privileged: loading does not raise (a missing yaml
\* module raises too, inside the same try block) and the trigger is there.
IsPrivileged(r, w) == r.yaml /\ IsTriggered(r, w)

\* Asking for the trigger is outside of that try block.
TriggerRaises(r, w) == r.yaml /\ r.kind[w] = "scalar"

\* So is walking the jobs.
WalkRaises(r, w) == r.kind[w] \in {"malformed", "scalar"}

PrivilegedFiles(r) ==
  {Listing[i] : i \in {k \in 1..Len(Listing) : IsPrivileged(r, Listing[k])}}

----------------------------------------------------------------------------

\* w calls v: w is a workflow and v the resolved "uses" of one of its jobs.
Calls(r, w, v) ==
  /\ r.kind[w] = "workflow"
  /\ \E k \in 1..Len(r.jobs[w]) : r.jobs[w][k].uses = v

ClosedUnderCalls(r, S) ==
  \A w \in S : \A v \in Workflow : Calls(r, w, v) => v \in S

\* The files reachable from those of roots by calls, roots included: the
\* least set with roots that is closed under Calls.
Reach(r, roots) ==
  {w \in Workflow : \A S \in SUBSET Workflow :
                      roots \subseteq S /\ ClosedUnderCalls(r, S) => w \in S}

\* Everything wrong in file w itself.
OwnDetails(r, w) ==
  CASE r.kind[w] = "unparseable" -> {"parse"}
    [] WalkRaises(r, w)          -> {}
    [] OTHER -> UNION {JobDetails(r.jobs[w][k]) : k \in 1..Len(r.jobs[w])}

OwnSites(r, w) == {[path |-> w, detail |-> d] : d \in OwnDetails(r, w)}
============================================================================
