-------------------------- MODULE PrivilegedReach --------------------------
(***************************************************************************)
(* What tools/check_privileged_workflows.py promises ("flags privileged    *)
(* workflows ... that checkout or execute PR-controlled code, including    *)
(* via local reusable workflows"), without saying how: in one step it      *)
(* reports every site of every file that a privileged workflow reaches,    *)
(* and nothing else, and exits 1 exactly when there is one.                *)
(***************************************************************************)
EXTENDS WorkflowGraph

VARIABLES repo, reported, exit

vars == <<repo, reported, exit>>

Reachable == Reach(repo, PrivilegedFiles(repo))

Init == /\ repo \in Repos
        /\ reported = {}
        /\ exit = None

SetupError == /\ ~repo.dir
              /\ reported' = {}
              /\ exit' = 2

Raises == \/ \E i \in 1..Len(Listing) : TriggerRaises(repo, Listing[i])
          \/ \E w \in Reachable : WalkRaises(repo, w)

\* A file that is listed or in reach makes the tool raise: a traceback.
Crash == /\ repo.dir /\ Raises
         /\ reported' = {}
         /\ exit' = 1

Report == /\ repo.dir /\ ~Raises
          /\ reported' = UNION {OwnSites(repo, w) : w \in Reachable}
          /\ exit' = IF reported' = {} THEN 0 ELSE 1

Next == /\ exit = None
        /\ SetupError \/ Crash \/ Report
        /\ UNCHANGED repo

Spec == Init /\ [][Next]_vars
============================================================================
