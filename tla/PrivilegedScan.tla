--------------------------- MODULE PrivilegedScan ---------------------------
(***************************************************************************)
(* tools/check_privileged_workflows.py: main, and the recursive            *)
(* scan_workflow with its chain of callers and its cache of finished       *)
(* results.  The Python call stack is the variable stack; the chain        *)
(* argument of the activation on top is the paths of those below it.       *)
(*                                                                         *)
(* Findings are kept as sets: the order and the repetition of [FAIL] lines *)
(* and the job names in them are left out.                                 *)
(***************************************************************************)
EXTENDS WorkflowGraph

VARIABLES
  repo,        \* the checkout, never changed by the tool
  mode,        \* which part of the program runs next
  next,        \* 1 + the number of files main's current loop is done with
  privileged,  \* main: the files to scan, in listing order
  stack,       \* the activations of scan_workflow, the innermost last
  arg,         \* the path of the call being made
  result,      \* the findings of the call that returns
  cache,       \* the cache dictionary
  found,       \* main: all_findings
  printed,     \* the findings written to stdout
  exit         \* the exit code, None while the tool runs

vars == <<repo, mode, next, privileged, stack, arg, result, cache, found,
          printed, exit>>

Mode == {"list", "main", "enter", "body", "return", "done"}

\* An activation of scan_workflow: the job its loop is at, whether that job's
\* "uses" has been dealt with, and the findings so far.
Frame == [path : Workflow, job : Nat, phase : {"uses", "steps"},
          found : SUBSET Finding]

TypeOK ==
  /\ repo \in Repo
  /\ mode \in Mode
  /\ next \in Nat \ {0}
  /\ privileged \in Seq(Workflow)
  /\ stack \in Seq(Frame)
  /\ arg \in Workflow \cup {None}
  /\ result \in SUBSET Finding
  /\ DOMAIN cache \subseteq Workflow
  /\ \A w \in DOMAIN cache : cache[w] \in SUBSET Finding
  /\ found \in SUBSET Finding
  /\ printed \in SUBSET Finding
  /\ exit \in {None, 0, 1, 2}

----------------------------------------------------------------------------

Init ==
  /\ repo \in Repos
  /\ mode = "list"
  /\ next = 1
  /\ privileged = <<>>
  /\ stack = <<>>
  /\ arg = None
  /\ result = {}
  /\ cache = <<>>
  /\ found = {}
  /\ printed = {}
  /\ exit = None

Top == stack[Len(stack)]
Popped == SubSeq(stack, 1, Len(stack) - 1)

\* The stack with the innermost activation replaced.
WithTop(f) == [stack EXCEPT ![Len(stack)] = f]

TopJobs == repo.jobs[Top.path]
CurrentJob == TopJobs[Top.job]

\* The paths a callee of the innermost activation must not be among: chain
\* holds the callers of that activation, not the activation itself.
Chain == {stack[i].path : i \in 1..(Len(stack) - 1)}

\* Mutants of Rewrapped: the first route kept; only the callee's own findings
\* passed on.
RewrappedOnce(fs, caller) ==
  {[f EXCEPT !.via = IF @ = None THEN caller ELSE @] : f \in fs}
RewrappedOneLevel(fs, caller) ==
  {[f EXCEPT !.via = caller] : f \in {g \in fs : g.via = None}}

\* Findings of a callee as its caller re-wraps them: via is overwritten.
Rewrapped(fs, caller) == {[f EXCEPT !.via = caller] : f \in fs}

\* Mutant: only the last result is remembered.
CacheOfOne(w, fs) == [v \in {w} |-> fs]

\* cache[w] = fs
CacheWith(w, fs) ==
  [v \in DOMAIN cache \cup {w} |-> IF v = w THEN fs ELSE cache[v]]

----------------------------------------------------------------------------
\* main

\* No workflows directory.
SetupError ==
  /\ mode = "list" /\ ~repo.dir
  /\ mode' = "done" /\ exit' = 2
  /\ UNCHANGED <<repo, next, privileged, stack, arg, result, cache, found,
                 printed>>

\* Asking a document for its trigger raises: nothing is printed.
ListCrash ==
  /\ mode = "list" /\ repo.dir
  /\ next <= Len(Listing)
  /\ TriggerRaises(repo, Listing[next])
  /\ mode' = "done" /\ exit' = 1
  /\ UNCHANGED <<repo, next, privileged, stack, arg, result, cache, found,
                 printed>>

\* One listed file: kept when it loads and has the trigger.
ListFile ==
  /\ mode = "list" /\ repo.dir
  /\ next <= Len(Listing)
  /\ ~TriggerRaises(repo, Listing[next])
  /\ next' = next + 1
  /\ privileged' = IF IsPrivileged(repo, Listing[next])
                     THEN Append(privileged, Listing[next])
                     ELSE privileged
  /\ UNCHANGED <<repo, mode, stack, arg, result, cache, found, printed, exit>>

\* Mutant: the scanning loop starts where the listing loop ended.
EndListingNoReset ==
  /\ mode = "list" /\ repo.dir
  /\ next > Len(Listing)
  /\ mode' = "main" /\ next' = next
  /\ UNCHANGED <<repo, privileged, stack, arg, result, cache, found, printed,
                 exit>>

EndListing ==
  /\ mode = "list" /\ repo.dir
  /\ next > Len(Listing)
  /\ mode' = "main" /\ next' = 1
  /\ UNCHANGED <<repo, privileged, stack, arg, result, cache, found, printed,
                 exit>>

\* The call of scan_workflow on the next privileged file, with chain = ().
ScanRoot ==
  /\ mode = "main"
  /\ next <= Len(privileged)
  /\ mode' = "enter" /\ arg' = privileged[next]
  /\ UNCHANGED <<repo, next, privileged, stack, result, cache, found, printed,
                 exit>>

\* The printing loop and the exit code.
Report ==
  /\ mode = "main"
  /\ next > Len(privileged)
  /\ mode' = "done"
  /\ printed' = found
  /\ exit' = IF found = {} THEN 0 ELSE 1
  /\ UNCHANGED <<repo, next, privileged, stack, arg, result, cache, found>>

----------------------------------------------------------------------------
\* scan_workflow

CacheHit ==
  /\ mode = "enter"
  /\ arg \in DOMAIN cache
  /\ mode' = "return" /\ result' = cache[arg]
  /\ UNCHANGED <<repo, next, privileged, stack, arg, cache, found, printed,
                 exit>>

\* Mutant: a file that does not load is passed over, as main does.
ParseErrorPassedOver ==
  /\ mode = "enter"
  /\ arg \notin DOMAIN cache
  /\ repo.kind[arg] = "unparseable"
  /\ result' = {}
  /\ cache' = CacheWith(arg, result')
  /\ mode' = "return"
  /\ UNCHANGED <<repo, next, privileged, stack, arg, found, printed, exit>>

ParseError ==
  /\ mode = "enter"
  /\ arg \notin DOMAIN cache
  /\ repo.kind[arg] = "unparseable"
  /\ result' = FindingsAt(arg, {"parse"}, None)
  /\ cache' = CacheWith(arg, result')
  /\ mode' = "return"
  /\ UNCHANGED <<repo, next, privileged, stack, arg, found, printed, exit>>

\* The walk raises outside the try block: nothing is printed.
Crash ==
  /\ mode = "enter"
  /\ arg \notin DOMAIN cache
  /\ WalkRaises(repo, arg)
  /\ mode' = "done" /\ exit' = 1
  /\ UNCHANGED <<repo, next, privileged, stack, arg, result, cache, found,
                 printed>>

Enter ==
  /\ mode = "enter"
  /\ arg \notin DOMAIN cache
  /\ repo.kind[arg] = "workflow"
  /\ mode' = "body"
  /\ stack' = Append(stack, [path |-> arg, job |-> 1, phase |-> "uses",
                             found |-> {}])
  /\ UNCHANGED <<repo, next, privileged, arg, result, cache, found, printed,
                 exit>>

AtJob(phase) ==
  /\ mode = "body"
  /\ Top.job <= Len(TopJobs)
  /\ Top.phase = phase

\* Mutants of MayCall: no chain check; calls followed from main's files only.
MayAlwaysCall == Resolves(CurrentJob)
MayCallFromRoot == Resolves(CurrentJob) /\ Len(stack) = 1

MayCall == Resolves(CurrentJob) /\ CurrentJob.uses \notin Chain

\* The job calls a local reusable workflow that is not a caller of this one.
CallReusable ==
  /\ AtJob("uses")
  /\ MayCall
  /\ mode' = "enter" /\ arg' = CurrentJob.uses
  /\ stack' = WithTop([Top EXCEPT !.phase = "steps"])
  /\ UNCHANGED <<repo, next, privileged, result, cache, found, printed, exit>>

SkipUses ==
  /\ AtJob("uses")
  /\ ~MayCall
  /\ stack' = WithTop([Top EXCEPT !.phase = "steps"])
  /\ UNCHANGED <<repo, mode, next, privileged, arg, result, cache, found,
                 printed, exit>>

\* Mutant: the loop stays at its job.
ScanStepsAgain ==
  /\ AtJob("steps")
  /\ stack' = WithTop([path |-> Top.path, job |-> Top.job,
                       phase |-> "uses",
                       found |-> Top.found \cup
                         FindingsAt(Top.path, JobDetails(CurrentJob), None)])
  /\ UNCHANGED <<repo, mode, next, privileged, arg, result, cache, found,
                 printed, exit>>

\* The steps loop of the job.
ScanSteps ==
  /\ AtJob("steps")
  /\ stack' = WithTop([path |-> Top.path, job |-> Top.job + 1,
                       phase |-> "uses",
                       found |-> Top.found \cup
                         FindingsAt(Top.path, JobDetails(CurrentJob), None)])
  /\ UNCHANGED <<repo, mode, next, privileged, arg, result, cache, found,
                 printed, exit>>

\* All jobs done: the result is cached and returned.
Finish ==
  /\ mode = "body"
  /\ Top.job > Len(TopJobs)
  /\ mode' = "return"
  /\ result' = Top.found
  /\ cache' = CacheWith(Top.path, Top.found)
  /\ stack' = Popped
  /\ UNCHANGED <<repo, next, privileged, arg, found, printed, exit>>

\* Back in the calling activation: its findings grow by the re-wrapped result.
ReturnToCaller ==
  /\ mode = "return"
  /\ stack # <<>>
  /\ mode' = "body"
  /\ stack' = WithTop([Top EXCEPT !.found = @ \cup Rewrapped(result, Top.path)])
  /\ result' = {}
  /\ UNCHANGED <<repo, next, privileged, arg, cache, found, printed, exit>>

\* Back in main's loop.
ReturnToMain ==
  /\ mode = "return"
  /\ stack = <<>>
  /\ mode' = "main" /\ next' = next + 1
  /\ found' = found \cup result
  /\ result' = {}
  /\ UNCHANGED <<repo, privileged, stack, arg, cache, printed, exit>>

----------------------------------------------------------------------------

Next ==
  \/ SetupError \/ ListCrash \/ ListFile \/ EndListing
  \/ ScanRoot \/ Report \/ CacheHit \/ ParseError \/ Crash \/ Enter
  \/ CallReusable \/ SkipUses \/ ScanSteps \/ Finish
  \/ ReturnToCaller \/ ReturnToMain

Spec == Init /\ [][Next]_vars

\* The tool is one process that nothing else waits on: it keeps running.
Fairness == WF_vars(Next)

FairSpec == Spec /\ Fairness
----------------------------------------------------------------------------
(***************************************************************************)
(* Properties                                                              *)
(***************************************************************************)

Roots == PrivilegedFiles(repo)

Sites(fs) == {[path |-> f.path, detail |-> f.detail] : f \in fs}

\* The recursion is bounded by the chain check of line 116 although chain
\* leaves out the activation that makes the call: a file is active at most
\* twice, and twice only when it calls itself, with nothing in between.
StackShape ==
  \A i, j \in DOMAIN stack :
    i < j /\ stack[i].path = stack[j].path =>
      j = i + 1 /\ Calls(repo, stack[i].path, stack[j].path)

\* A printed line is about a site its file really has, and the route is real:
\* "(reachable from v)" names a privileged file that reaches it, however many
\* calls, cache hits and re-wrappings the finding went through, and a line
\* without a route is about a privileged file.
RouteIsReal ==
  \A f \in printed :
    /\ [path |-> f.path, detail |-> f.detail] \in OwnSites(repo, f.path)
    /\ f.via = None => f.path \in Roots
    /\ f.via # None => f.via \in Roots /\ f.path \in Reach(repo, {f.via})

\* Between two privileged files, nothing a scanned file calls is left
\* unscanned: a callee skipped by the chain check or answered from the cache
\* was scanned by someone (the three ways out of line 116 and line 97).
ScannedIsClosed ==
  mode = "main" => ClosedUnderCalls(repo, DOMAIN cache)

\* A cached answer may be used for any later caller: without a cycle of calls
\* the entry of a file holds all the sites the file reaches and no other.
Acyclic ==
  \A w, v \in Workflow : Calls(repo, w, v) => w \notin Reach(repo, {v})

CacheIsExact ==
  mode = "main" /\ Acyclic =>
    \A w \in DOMAIN cache :
      Sites(cache[w]) = UNION {OwnSites(repo, v) : v \in Reach(repo, {w})}

\* A file that calls itself is scanned twice and the later result overwrites
\* the earlier one (lines 156-157): it never has fewer findings.
CacheOnlyGrows ==
  [][\A w \in DOMAIN cache :
       w \in DOMAIN cache' /\ cache[w] \subseteq cache'[w]]_vars

\* The module docstring (lines 4-6): "Flags privileged workflows ... that
\* checkout or execute PR-controlled code, including via local reusable
\* workflows": each privileged file with a site in reach is named by a line.
EveryPrivilegedFileIsFlagged ==
  mode = "done" /\ printed # {} =>
    \A r \in Roots :
      (\E w \in Reach(repo, {r}) : OwnSites(repo, w) # {}) =>
        \E f \in printed : r \in {f.path, f.via}

\* The module docstring (lines 14-17): exit code 0 is "clean", and 2, not 0, is
\* "setup error": after a 0 no listed file with the trigger reaches a site.
CleanExitIsClean ==
  exit = 0 =>
    \A i \in 1..Len(Listing) :
      IsTriggered(repo, Listing[i]) =>
        \A w \in Reach(repo, {Listing[i]}) : OwnSites(repo, w) = {}

\* The tool ends on every checkout, cycles of calls included.
Terminates == <>(mode = "done")

\* The recursive scan with its cache and chain implements the one-step report
\* of PrivilegedReach.
Contract == INSTANCE PrivilegedReach WITH reported <- Sites(printed)

ImplementsReach == Contract!Spec

----------------------------------------------------------------------------
(***************************************************************************)
(* The inductive invariant behind RouteIsReal, StackShape and              *)
(* ImplementsReach.  It is the one of a depth-first search: cached files   *)
(* are finished, files on the stack are in progress, and whatever a        *)
(* finished file calls is finished or in progress.                         *)
(***************************************************************************)

Listed(n) == {Listing[i] : i \in {k \in 1..n : IsPrivileged(repo, Listing[k])}}

\* No file among the first n makes the listing raise.
ReadWell(n) == \A i \in 1..n : ~TriggerRaises(repo, Listing[i])

PrivilegedSet == {privileged[i] : i \in DOMAIN privileged}

\* The file whose scan is under way: what the innermost activation waits for.
Callee == IF stack = <<>> THEN privileged[next] ELSE CurrentJob.uses

ControlInv ==
  /\ mode \in {"list", "main"} => stack = <<>>
  /\ mode = "body" => stack # <<>>
  /\ mode # "return" => result = {}
  /\ mode = "done" <=> exit # None
  /\ mode # "done" => printed = {}
  /\ mode = "list" => DOMAIN cache = {} /\ found = {} /\ next <= Len(Listing) + 1
  /\ mode = "list" => PrivilegedSet = Listed(next - 1) /\ ReadWell(next - 1)
  /\ mode \in {"main", "enter", "body", "return"} =>
       repo.dir /\ PrivilegedSet = Roots /\ ReadWell(Len(Listing))
  /\ mode \in {"enter", "body", "return"} => next \in 1..Len(privileged)
  /\ mode = "enter" => arg \in Workflow /\ arg = Callee /\ arg \notin Chain
  /\ mode = "return" => Callee \in DOMAIN cache

\* Every activation but a running innermost one waits for the file its
\* current job calls.
InPlace(i) ==
  LET f == stack[i]
      jobs == repo.jobs[f.path]
  IN  /\ repo.kind[f.path] = "workflow"
      /\ f.path \in Reach(repo, Roots)
      /\ f.job \in 1..(Len(jobs) + 1)
      /\ i = 1 => f.path = privileged[next]
      /\ i < Len(stack) \/ mode # "body" =>
           f.phase = "steps" /\ f.job <= Len(jobs)
      /\ i < Len(stack) => jobs[f.job].uses = stack[i + 1].path

StackInv == \A i \in DOMAIN stack : InPlace(i)

\* What a scan of w may return.
WellFound(w, fs) ==
  \A f \in fs :
    /\ [path |-> f.path, detail |-> f.detail] \in OwnSites(repo, f.path)
    /\ f.path \in Reach(repo, {w})
    /\ f.via = w \/ (f.via = None /\ f.path = w)

RealRoute(f) ==
  /\ [path |-> f.path, detail |-> f.detail] \in OwnSites(repo, f.path)
  /\ f.via = None => f.path \in Roots
  /\ f.via # None => f.via \in Roots /\ f.path \in Reach(repo, {f.via})

SoundInv ==
  /\ \A w \in DOMAIN cache : WellFound(w, cache[w])
  /\ \A i \in DOMAIN stack : WellFound(stack[i].path, stack[i].found)
  /\ mode = "return" => WellFound(Callee, result)
  /\ \A f \in found : RealRoute(f)
  /\ printed \subseteq found

\* Everything found so far that will reach main.
Collected == found \cup result \cup UNION {stack[i].found : i \in DOMAIN stack}

\* The files whose scan is finished, in progress or about to start.
Seen == DOMAIN cache \cup {stack[i].path : i \in DOMAIN stack}
                     \cup (IF mode = "enter" THEN {arg} ELSE {})

Finished(w) ==
  /\ ~WalkRaises(repo, w)
  /\ OwnSites(repo, w) \subseteq Sites(Collected)
  /\ \A v \in Workflow : Calls(repo, w, v) => v \in Seen

\* The jobs whose "uses" an activation is done with.
DealtWith(f) == 1..(IF f.phase = "steps" THEN f.job ELSE f.job - 1)

\* An activation has the sites of the jobs behind it, and what they call has
\* been seen.
HalfDone(i) ==
  LET f == stack[i]
      jobs == repo.jobs[f.path]
  IN  /\ \A k \in 1..(f.job - 1) : \A d \in JobDetails(jobs[k]) :
           [path |-> f.path, detail |-> d] \in Sites(f.found)
      /\ \A k \in DealtWith(f) :
           jobs[k].uses \in Workflow => jobs[k].uses \in Seen

CompleteInv ==
  mode # "done" =>
    /\ \A w \in DOMAIN cache : Finished(w)
    /\ \A i \in DOMAIN stack : HalfDone(i)
    /\ mode # "list" => \A i \in 1..(next - 1) : privileged[i] \in DOMAIN cache

IInv == TypeOK /\ ControlInv /\ StackInv /\ StackShape /\ SoundInv /\ CompleteInv
============================================================================
