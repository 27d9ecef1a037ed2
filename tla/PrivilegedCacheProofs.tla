----------------------- MODULE PrivilegedCacheProofs ------------------------
(***************************************************************************)
(* The cache of tools/check_privileged_workflows.py: it gives every caller *)
(* the whole answer as long as workflows do not call each other in a       *)
(* cycle, and with cycles it never takes back what it has answered.        *)
(*                                                                         *)
(* The argument follows the recursion: a finished call has all the sites   *)
(* its file reaches (Full), an activation has those of the calls that have *)
(* returned to it (Delivered), and without a cycle the chain check turns   *)
(* nothing away, since the files on the stack reach the innermost one      *)
(* (Chained).                                                              *)
(***************************************************************************)
EXTENDS PrivilegedScanProofs

\* fs has every site that file w reaches in checkout r.
Full(r, w, fs) ==
  \A v \in Reach(r, {w}) : OwnSites(r, v) \subseteq Sites(fs)

\* The jobs of an activation whose call has returned or was not to be made.
Returned(f, waiting) ==
  1..(IF f.phase = "steps" /\ ~waiting THEN f.job ELSE f.job - 1)

Delivered(r, f, waiting) ==
  \A k \in Returned(f, waiting) :
    r.jobs[f.path][k].uses \in Workflow =>
      Full(r, r.jobs[f.path][k].uses, f.found)

\* An activation but a running innermost one waits for the call it has made.
Waiting(i) == i < Len(stack) \/ mode # "body"

\* A file on the stack reaches those above it.
Chained ==
  \A i, j \in DOMAIN stack :
    i <= j => stack[j].path \in Reach(repo, {stack[i].path})

FullInv ==
  mode # "done" =>
    /\ \A w \in DOMAIN cache : Full(repo, w, cache[w])
    /\ mode = "return" => Full(repo, Callee, result)
    /\ \A i \in DOMAIN stack : Delivered(repo, stack[i], Waiting(i))

----------------------------------------------------------------------------
\* Lemmas about Full.
\* More findings are as full.
LEMMA FullMono ==
  ASSUME NEW w, NEW A, NEW B, A \subseteq B, Full(repo, w, A)
  PROVE  Full(repo, w, B)
BY SitesMono DEF Full
\* Re-wrapping loses no site.
LEMMA FullRewrapped ==
  ASSUME NEW v, NEW w \in Workflow, NEW fs \in SUBSET Finding, Full(repo, v, fs)
  PROVE  Full(repo, v, Rewrapped(fs, w))
BY SitesRewrapped DEF Full

\* A file whose own sites are there, and all that its callees reach.
LEMMA FullFile ==
  ASSUME NEW w \in Workflow, NEW fs, OwnSites(repo, w) \subseteq Sites(fs),
         \A v \in Workflow : Calls(repo, w, v) => Full(repo, v, fs)
  PROVE  Full(repo, w, fs)
<1> DEFINE callees == {v \in Workflow : Calls(repo, w, v)}
           S == {w} \cup UNION {Reach(repo, {v}) : v \in callees}
<1>1. S \in SUBSET Workflow
  BY DEF Reach
<1>2. ClosedUnderCalls(repo, S)
  <2> SUFFICES ASSUME NEW u \in S, NEW v \in Workflow, Calls(repo, u, v)
               PROVE  v \in S
    BY DEF ClosedUnderCalls
  <2>1. CASE u = w
    <3>1. v \in callees /\ v \in Reach(repo, {v})
      BY <2>1, ReachRoots
    <3> QED
      BY <3>1
  <2>2. CASE u # w
    <3>1. PICK c \in callees : u \in Reach(repo, {c})
      BY <2>2
    <3>2. v \in Reach(repo, {c})
      BY <3>1, ReachStep
    <3> QED
      BY <3>2
  <2> QED
    BY <2>1, <2>2
<1>3. Reach(repo, {w}) \subseteq S
  BY <1>1, <1>2, ReachInClosed
<1>4. \A u \in S : OwnSites(repo, u) \subseteq Sites(fs)
  BY DEF Full
<1> QED
  BY <1>3, <1>4 DEF Full

\* A file that does not load reaches itself only.
LEMMA FullUnparseable ==
  ASSUME NEW w \in Workflow, repo.kind[w] = "unparseable"
  PROVE  Full(repo, w, FindingsAt(w, {"parse"}, None))
<1>1. \A v \in Workflow : ~Calls(repo, w, v)
  BY DEF Calls
<1>2. OwnSites(repo, w) = {[path |-> w, detail |-> "parse"]}
  <2>1. OwnDetails(repo, w) = {"parse"}
    BY DEF OwnDetails, WalkRaises
  <2> QED
    BY <2>1 DEF OwnSites
<1>3. [path |-> w, detail |-> "parse"] \in Sites(FindingsAt(w, {"parse"}, None))
  BY SitesFindingsAt
<1> QED
  BY <1>1, <1>2, <1>3, FullFile

----------------------------------------------------------------------------
\* Files on the stack reach those above them.
\* Each step keeps Chained.
LEMMA ChainedNext ==
  ASSUME TypeOK, ControlInv, StackInv, Chained, [Next]_vars
  PROVE  Chained'
<1>a. ASSUME repo' = repo, DOMAIN stack' \subseteq DOMAIN stack,
             \A i \in DOMAIN stack' : stack'[i].path = stack[i].path
      PROVE  Chained'
  BY <1>a DEF Chained
<1>b. ASSUME stack # <<>>, repo' = repo, NEW f \in Frame, f.path = Top.path,
             stack' = WithTop(f)
      PROVE  Chained'
  <2>1. \A i \in DOMAIN stack : stack'[i].path = stack[i].path
    BY <1>b, WithTopStack DEF TypeOK, Top
  <2> QED
    BY <1>a, <1>b, <2>1, WithTopStack DEF TypeOK
<1>1. CASE SetupError \/ ListCrash \/ ListFile \/ EndListing \/ ScanRoot \/ Report
             \/ CacheHit \/ ParseError \/ Crash \/ ReturnToMain
             \/ UNCHANGED vars
  BY <1>1, <1>a
  DEF SetupError, ListCrash, ListFile, EndListing, ScanRoot, Report, CacheHit,
      ParseError, Crash, ReturnToMain, vars
<1>2. CASE Enter
  <2> DEFINE f == [path |-> arg, job |-> 1, phase |-> "uses", found |-> {}]
             n == Len(stack)
  <2>1. /\ arg \in Workflow /\ arg = Callee
        /\ mode = "enter" /\ repo' = repo /\ stack' = Append(stack, f)
    BY <1>2 DEF Enter, ControlInv
  <2>2. f \in Frame /\ f.path = arg
    BY <2>1 DEF Frame
  <2> HIDE DEF f
  <2>3. /\ n \in Nat /\ DOMAIN stack' = 1..(n + 1) /\ stack'[n + 1].path = arg
        /\ DOMAIN stack = 1..n /\ \A i \in 1..n : stack'[i] = stack[i]
    BY <2>1, <2>2 DEF TypeOK
  <2>4. n # 0 => Calls(repo, stack[n].path, arg)
    <3>1. n # 0 => stack # <<>>
      BY <2>3
    <3> QED
      BY <2>1, <3>1, CalleeFacts DEF Top
  <2> HIDE DEF n
  <2> SUFFICES ASSUME NEW i \in 1..(n + 1), NEW j \in 1..(n + 1), i <= j
               PROVE  stack'[j].path \in Reach(repo, {stack'[i].path})
    BY <2>1, <2>3 DEF Chained
  <2>5. CASE j # n + 1
    <3>1. i \in 1..n /\ j \in 1..n
      BY <2>3, <2>5
    <3>2. stack[j].path \in Reach(repo, {stack[i].path})
      BY <2>3, <3>1 DEF Chained
    <3> QED
      BY <2>3, <3>1, <3>2
  <2>6. CASE j = n + 1 /\ i = n + 1
    BY <2>1, <2>3, <2>6, ReachRoots
  <2>7. CASE j = n + 1 /\ i # n + 1
    <3>1. i \in 1..n /\ n \in 1..n /\ i <= n
      BY <2>3, <2>7
    <3>2. stack[n].path \in Reach(repo, {stack[i].path})
      BY <2>3, <3>1 DEF Chained
    <3>3. arg \in Reach(repo, {stack[i].path})
      BY <2>1, <2>3, <2>4, <3>1, <3>2, ReachStep
    <3> QED
      BY <2>3, <2>7, <3>1, <3>3
  <2> QED
    BY <2>5, <2>6, <2>7
<1>3. CASE CallReusable \/ SkipUses
  BY <1>3, <1>b, JobFacts, TopFacts, FrameUpdates
  DEF CallReusable, SkipUses, AtJob
<1>4. CASE ScanSteps
  <2> DEFINE new == FindingsAt(Top.path, JobDetails(CurrentJob), None)
             f == [path |-> Top.path, job |-> Top.job + 1,
                   phase |-> "uses", found |-> Top.found \cup new]
  <2>1. stack # <<>> /\ JobDetails(CurrentJob) \subseteq Detail
    BY <1>4, JobFacts DEF ScanSteps, AtJob
  <2>2. f \in Frame /\ f.path = Top.path
    BY <2>1, TopFacts, FindingsAtType, FrameUpdates
  <2>3. stack' = WithTop(f) /\ repo' = repo
    BY <1>4 DEF ScanSteps
  <2> HIDE DEF f
  <2> QED
    BY <1>b, <2>1, <2>2, <2>3
<1>5. CASE Finish
  <2>1. /\ stack' = Popped /\ stack # <<>> /\ repo' = repo
    BY <1>5, FinishCallee DEF Finish
  <2>2. /\ DOMAIN stack' \subseteq DOMAIN stack
        /\ \A i \in DOMAIN stack' : stack'[i] = stack[i]
    BY <2>1, PoppedStack, TopFacts DEF TypeOK
  <2> QED
    BY <1>a, <2>1, <2>2
<1>6. CASE ReturnToCaller
  BY <1>6, <1>b, TopFacts, RewrappedType, FrameUpdates
  DEF ReturnToCaller, TypeOK
<1> QED
  BY <1>1, <1>2, <1>3, <1>4, <1>5, <1>6 DEF Next

\* Without a cycle the chain check only turns away what is no local call.
LEMMA NothingTurnedAway ==
  ASSUME TypeOK, ControlInv, StackInv, Chained, Acyclic, SkipUses
  PROVE  CurrentJob.uses \notin Workflow
<1>1. /\ stack # <<>> /\ Top.job \in 1..Len(TopJobs)
      /\ TopJobs = repo.jobs[Top.path]
      /\ CurrentJob = repo.jobs[Top.path][Top.job]
  BY JobFacts DEF SkipUses, AtJob
<1>2. repo.kind[Top.path] = "workflow" /\ Top.path \in Workflow
  BY <1>1, TopFacts DEF StackInv, InPlace, Top
<1> SUFFICES ASSUME CurrentJob.uses \in Workflow
             PROVE  FALSE
  OBVIOUS
<1>3. CurrentJob.uses \in Chain
  BY NoneAssumption DEF SkipUses, MayCall, Resolves
<1>4. Calls(repo, Top.path, CurrentJob.uses)
  BY <1>1, <1>2 DEF Calls
<1>5. PICK i \in 1..(Len(stack) - 1) : CurrentJob.uses = stack[i].path
  BY <1>3 DEF Chain
<1>6. Top.path \in Reach(repo, {CurrentJob.uses})
  <2>1. i \in DOMAIN stack /\ Len(stack) \in DOMAIN stack /\ i <= Len(stack)
    BY <1>1, TopFacts
  <2> QED
    BY <1>5, <2>1 DEF Chained, Top
<1> QED
  BY <1>2, <1>4, <1>6 DEF Acyclic

----------------------------------------------------------------------------
\* What is delivered.

\* An activation that is replaced by one that has got as much.
LEMMA TopDelivered ==
  ASSUME TypeOK, FullInv, mode # "done", mode' \in {"enter", "body"},
         repo' = repo, cache' = cache,
         stack # <<>>, NEW f \in Frame, stack' = WithTop(f),
         Delivered(repo, f, mode' # "body")
  PROVE  FullInv'
<1>1. /\ Len(stack') = Len(stack) /\ DOMAIN stack' = DOMAIN stack
      /\ DOMAIN stack = 1..Len(stack) /\ Len(stack) \in Nat
      /\ stack'[Len(stack)] = f
      /\ \A i \in DOMAIN stack : i # Len(stack) => stack'[i] = stack[i]
  BY WithTopStack, TopFacts DEF TypeOK
<1>2. ASSUME NEW i \in DOMAIN stack
      PROVE  Delivered(repo, stack'[i], i < Len(stack) \/ mode' # "body")
  <2>1. CASE i = Len(stack)
    <3>1. (i < Len(stack) \/ mode' # "body") <=> mode' # "body"
      BY <1>1, <2>1
    <3> QED
      BY <1>1, <2>1, <3>1 DEF Delivered, Returned
  <2>2. CASE i # Len(stack)
    <3>1. /\ i < Len(stack)
          /\ stack'[i] = stack[i]
      BY <1>1, <2>2
    <3>2. Delivered(repo, stack[i], Waiting(i))
      BY DEF FullInv
    <3> QED
      BY <3>1, <3>2 DEF Delivered, Returned, Waiting
  <2> QED
    BY <2>1, <2>2
<1>3. \A i \in DOMAIN stack' :
        Delivered(repo', stack'[i], i < Len(stack') \/ mode' # "body")
  BY <1>1, <1>2
<1>4. \A w \in DOMAIN cache' : Full(repo', w, cache'[w])
  BY DEF FullInv
<1> QED
  BY <1>3, <1>4 DEF FullInv, Waiting

\* What the innermost activation has got.
LEMMA TopHas ==
  ASSUME TypeOK, FullInv, mode # "done", stack # <<>>
  PROVE  Delivered(repo, Top, mode # "body")
<1>1. Len(stack) \in DOMAIN stack /\ Len(stack) \in Nat
  BY TopFacts
<1>2. Delivered(repo, stack[Len(stack)], Waiting(Len(stack)))
  BY <1>1 DEF FullInv
<1>3. Waiting(Len(stack)) <=> mode # "body"
  BY <1>1 DEF Waiting
<1> QED
  BY <1>2, <1>3 DEF Top, Delivered, Returned

\* A call that returns without an activation of its own.
LEMMA Answered ==
  ASSUME TypeOK, ControlInv, FullInv, mode = "enter", mode' = "return",
         repo' = repo, stack' = stack, privileged' = privileged, next' = next,
         Full(repo, arg, result'), \A w \in DOMAIN cache' : Full(repo, w, cache'[w])
  PROVE  FullInv'
<1>1. Callee' = Callee /\ Callee = arg
  BY DEF Callee, CurrentJob, TopJobs, Top, ControlInv
<1>2. \A i \in DOMAIN stack : Delivered(repo, stack[i], Waiting(i))
  BY DEF FullInv
<1>3. \A i \in DOMAIN stack : Delivered(repo, stack[i], TRUE)
  BY <1>2 DEF Delivered, Returned, Waiting
<1>4. \A i \in DOMAIN stack' :
        Delivered(repo', stack'[i], i < Len(stack') \/ mode' # "body")
  BY <1>3 DEF Delivered, Returned
<1>5. Full(repo', Callee', result')
  BY <1>1
<1> QED
  BY <1>4, <1>5 DEF FullInv, Waiting

\* A cache with one more entry that is full.
LEMMA FullCache ==
  ASSUME FullInv, mode # "done", NEW w, NEW fs, Full(repo, w, fs),
         cache' = CacheWith(w, fs)
  PROVE  \A v \in DOMAIN cache' : Full(repo, v, cache'[v])
<1>1. \A v \in DOMAIN cache : Full(repo, v, cache[v])
  BY DEF FullInv
<1> SUFFICES ASSUME NEW v \in DOMAIN cache'
             PROVE  Full(repo, v, cache'[v])
  OBVIOUS
<1>2. CASE v = w
  BY <1>2, CacheWritten
<1>3. CASE v # w
  <2>1. v \in DOMAIN cache
    <3>1. DOMAIN cache' = DOMAIN cache \cup {w}
      BY CacheWritten
    <3> QED
      BY <1>3, <3>1
  <2>2. cache'[v] = cache[v]
    BY <1>3, <2>1 DEF CacheWith
  <2> QED
    BY <1>1, <2>1, <2>2
<1> QED
  BY <1>2, <1>3

\* What an activation that is done with its last job has is all there is.
LEMMA FinishFull ==
  ASSUME TypeOK, ControlInv, StackInv, CompleteInv, FullInv, Finish
  PROVE  Full(repo, Top.path, Top.found)
<1>1. stack # <<>> /\ mode = "body" /\ Top.job > Len(repo.jobs[Top.path])
  BY FinishCallee DEF Finish, TopJobs
<1>2. /\ Top.path \in Workflow /\ Top.job \in Nat
      /\ repo.jobs[Top.path] \in Seq(Job)
  BY <1>1, TopFacts, RepoType DEF Repo
<1>3. Delivered(repo, Top, FALSE)
  BY <1>1, TopHas
<1>4. ASSUME NEW v \in Workflow, Calls(repo, Top.path, v)
      PROVE  Full(repo, v, Top.found)
  <2>1. PICK k \in 1..Len(repo.jobs[Top.path]) : repo.jobs[Top.path][k].uses = v
    BY <1>4 DEF Calls
  <2>2. k \in Returned(Top, FALSE)
    BY <1>1, <1>2, <2>1 DEF Returned
  <2> QED
    BY <1>3, <2>1, <2>2 DEF Delivered
<1> QED
  BY <1>2, <1>4, FinishDone, FullFile

\* Each step keeps FullInv, without a cycle of calls.
LEMMA FullNext ==
  ASSUME TypeOK, ControlInv, StackInv, CompleteInv, Chained, Acyclic, FullInv,
         [Next]_vars
  PROVE  FullInv'
<1> SUFFICES ASSUME mode' # "done"
             PROVE  FullInv'
  BY DEF FullInv
<1>m. mode # "done"
  BY DEF Next, SetupError, ListCrash, ListFile, EndListing, ScanRoot, Report, CacheHit,
         ParseError, Crash, Enter, CallReusable, SkipUses, ScanSteps, Finish,
         ReturnToCaller, ReturnToMain, AtJob, vars
<1>c. /\ \A w \in DOMAIN cache : Full(repo, w, cache[w])
      /\ mode = "return" => Full(repo, Callee, result)
      /\ \A i \in DOMAIN stack : Delivered(repo, stack[i], Waiting(i))
  BY <1>m DEF FullInv
<1>1. CASE SetupError \/ ListCrash \/ Report \/ Crash
  BY <1>1 DEF SetupError, ListCrash, Report, Crash
<1>2. CASE ListFile \/ EndListing \/ ScanRoot \/ ReturnToMain
  <2>1. /\ repo' = repo /\ cache' = cache /\ stack = <<>> /\ stack' = <<>>
        /\ mode' # "return"
    BY <1>2 DEF ListFile, EndListing, ScanRoot, ReturnToMain, ControlInv
  <2> QED
    BY <1>c, <2>1 DEF FullInv
<1>3. CASE CacheHit
  <2>1. /\ mode = "enter" /\ mode' = "return" /\ repo' = repo /\ stack' = stack
        /\ privileged' = privileged /\ next' = next /\ cache' = cache
        /\ arg \in DOMAIN cache /\ result' = cache[arg]
    BY <1>3 DEF CacheHit
  <2> QED
    BY <1>c, <2>1, Answered
<1>4. CASE ParseError
  <2>1. /\ mode = "enter" /\ mode' = "return" /\ repo' = repo /\ stack' = stack
        /\ privileged' = privileged /\ next' = next
        /\ repo.kind[arg] = "unparseable" /\ arg \in Workflow
        /\ result' = FindingsAt(arg, {"parse"}, None)
        /\ cache' = CacheWith(arg, result')
    BY <1>4 DEF ParseError, ControlInv
  <2>2. Full(repo, arg, FindingsAt(arg, {"parse"}, None))
    BY <2>1, FullUnparseable
  <2>3. \A w \in DOMAIN cache' : Full(repo, w, cache'[w])
    BY <1>m, <2>1, <2>2, FullCache
  <2> QED
    BY <2>1, <2>2, <2>3, Answered
<1>5. CASE Enter
  <2> DEFINE f == [path |-> arg, job |-> 1, phase |-> "uses", found |-> {}]
  <2>1. /\ arg \in Workflow /\ mode = "enter" /\ mode' = "body"
        /\ repo' = repo /\ cache' = cache /\ stack' = Append(stack, f)
    BY <1>5 DEF Enter, ControlInv
  <2>2. f \in Frame /\ f.job = 1 /\ f.phase = "uses"
    BY <2>1 DEF Frame
  <2>3. Returned(f, FALSE) = {}
    BY <2>2 DEF Returned
  <2> HIDE DEF f
  <2>4. /\ Len(stack) \in Nat /\ DOMAIN stack = 1..Len(stack)
        /\ Len(stack') = Len(stack) + 1 /\ DOMAIN stack' = 1..(Len(stack) + 1)
        /\ stack'[Len(stack) + 1] = f
        /\ \A i \in DOMAIN stack : stack'[i] = stack[i]
    BY <2>1, <2>2, PushedStack DEF TypeOK
  <2>5. ASSUME NEW i \in DOMAIN stack'
        PROVE  Delivered(repo, stack'[i], i < Len(stack') \/ mode' # "body")
    <3>1. CASE i \in DOMAIN stack
      <4>1. Waiting(i) /\ i < Len(stack') /\ stack'[i] = stack[i]
        BY <2>1, <2>4, <3>1 DEF Waiting
      <4> QED
        BY <1>c, <3>1, <4>1 DEF Delivered, Returned
    <3>2. CASE i = Len(stack) + 1
      <4>1. Delivered(repo, f, FALSE)
        BY <2>3 DEF Delivered
      <4>2. ~(i < Len(stack') \/ mode' # "body") /\ stack'[i] = f
        BY <2>1, <2>4, <3>2
      <4> QED
        BY <4>1, <4>2 DEF Delivered, Returned
    <3> QED
      BY <2>4, <3>1, <3>2
  <2> QED
    BY <1>c, <2>1, <2>5 DEF FullInv, Waiting
<1>6. CASE CallReusable
  <2>1. /\ stack # <<>> /\ Top \in Frame /\ mode = "body" /\ mode' = "enter"
        /\ repo' = repo /\ cache' = cache /\ Top.phase = "uses"
        /\ stack' = WithTop([Top EXCEPT !.phase = "steps"])
    BY <1>6, JobFacts, TopFacts DEF CallReusable, AtJob
  <2> DEFINE f == [Top EXCEPT !.phase = "steps"]
  <2>2. /\ f \in Frame /\ f.path = Top.path /\ f.job = Top.job
        /\ f.phase = "steps" /\ f.found = Top.found
    BY <2>1, FrameUpdates
  <2> HIDE DEF f
  <2>3. Delivered(repo, Top, FALSE)
    BY <1>m, <2>1, TopHas
  <2>4. Delivered(repo, f, mode' # "body")
    BY <2>1, <2>2, <2>3 DEF Delivered, Returned
  <2> QED
    BY <1>m, <2>1, <2>2, <2>4, TopDelivered DEF f
<1>7. CASE SkipUses
  <2>1. /\ stack # <<>> /\ Top \in Frame /\ mode = "body" /\ mode' = "body"
        /\ repo' = repo /\ cache' = cache /\ Top.phase = "uses"
        /\ CurrentJob = repo.jobs[Top.path][Top.job] /\ Top.job \in Nat
        /\ stack' = WithTop([Top EXCEPT !.phase = "steps"])
    BY <1>7, JobFacts, TopFacts DEF SkipUses, AtJob
  <2> DEFINE f == [Top EXCEPT !.phase = "steps"]
  <2>2. /\ f \in Frame /\ f.path = Top.path /\ f.job = Top.job
        /\ f.phase = "steps" /\ f.found = Top.found
    BY <2>1, FrameUpdates
  <2> HIDE DEF f
  <2>3. Delivered(repo, Top, FALSE)
    BY <1>m, <2>1, TopHas
  <2>4. repo.jobs[Top.path][Top.job].uses \notin Workflow
    BY <1>7, <2>1, NothingTurnedAway
  <2>5. \A k \in Returned(f, FALSE) : k = Top.job \/ k \in Returned(Top, FALSE)
    BY <2>1, <2>2 DEF Returned
  <2>6. Delivered(repo, f, FALSE)
    BY <2>2, <2>3, <2>4, <2>5 DEF Delivered
  <2>7. Delivered(repo, f, mode' # "body")
    BY <2>1, <2>6 DEF Delivered, Returned
  <2> QED
    BY <1>m, <2>1, <2>2, <2>7, TopDelivered DEF f
<1>8. CASE ScanSteps
  <2> DEFINE new == FindingsAt(Top.path, JobDetails(CurrentJob), None)
             f == [path |-> Top.path, job |-> Top.job + 1,
                   phase |-> "uses", found |-> Top.found \cup new]
  <2>1. /\ stack # <<>> /\ Top \in Frame /\ Top.path \in Workflow
        /\ JobDetails(CurrentJob) \subseteq Detail /\ Top.job \in Nat
        /\ mode = "body" /\ mode' = "body" /\ Top.phase = "steps"
        /\ repo' = repo /\ cache' = cache /\ stack' = WithTop(f)
    BY <1>8, JobFacts, TopFacts DEF ScanSteps, AtJob
  <2>2. /\ f \in Frame /\ f.path = Top.path /\ f.job = Top.job + 1
        /\ f.phase = "uses" /\ Top.found \subseteq f.found
    BY <2>1, FindingsAtType, FrameUpdates
  <2> HIDE DEF f, new
  <2>3. Delivered(repo, Top, FALSE)
    BY <1>m, <2>1, TopHas
  <2>4. Returned(f, FALSE) = Returned(Top, FALSE)
    BY <2>1, <2>2 DEF Returned
  <2>5. Delivered(repo, f, FALSE)
    BY <2>2, <2>3, <2>4, FullMono DEF Delivered
  <2>6. Delivered(repo, f, mode' # "body")
    BY <2>1, <2>5 DEF Delivered, Returned
  <2> QED
    BY <1>m, <2>1, <2>2, <2>6, TopDelivered
<1>9. CASE Finish
  <2>1. /\ stack # <<>> /\ mode = "body" /\ mode' = "return" /\ repo' = repo
        /\ Callee' = Top.path /\ result' = Top.found
        /\ cache' = CacheWith(Top.path, Top.found) /\ stack' = Popped
    BY <1>9, FinishCallee DEF Finish
  <2>2. Full(repo, Top.path, Top.found)
    BY <1>9, FinishFull
  <2>3. \A w \in DOMAIN cache' : Full(repo', w, cache'[w])
    BY <1>m, <2>1, <2>2, FullCache
  <2>4. Full(repo', Callee', result')
    BY <2>1, <2>2
  <2>5. ASSUME NEW i \in DOMAIN stack'
        PROVE  Delivered(repo', stack'[i], i < Len(stack') \/ mode' # "body")
    <3>1. i \in DOMAIN stack /\ i < Len(stack) /\ stack'[i] = stack[i]
      BY <2>1, PoppedStack, TopFacts DEF TypeOK
    <3>2. Waiting(i)
      BY <3>1 DEF Waiting
    <3> QED
      BY <1>c, <2>1, <3>1, <3>2 DEF Delivered, Returned
  <2> QED
    BY <2>3, <2>4, <2>5 DEF FullInv, Waiting
<1>10. CASE ReturnToCaller
  <2> DEFINE f == [Top EXCEPT !.found = @ \cup Rewrapped(result, Top.path)]
  <2>1. /\ stack # <<>> /\ mode = "return" /\ mode' = "body"
        /\ repo' = repo /\ cache' = cache /\ stack' = WithTop(f)
        /\ Top \in Frame /\ Top.path \in Workflow /\ Top.job \in Nat
        /\ result \in SUBSET Finding
    BY <1>10, TopFacts DEF ReturnToCaller, TypeOK
  <2>2. /\ Callee = repo.jobs[Top.path][Top.job].uses /\ Top.phase = "steps"
    BY <2>1, CalleeFacts
  <2>3. /\ f \in Frame /\ f.path = Top.path /\ f.job = Top.job
        /\ f.phase = "steps"
        /\ f.found = Top.found \cup Rewrapped(result, Top.path)
    BY <2>1, <2>2, RewrappedType, FrameUpdates
  <2> HIDE DEF f
  <2>4. Delivered(repo, Top, TRUE)
    <3>1. Delivered(repo, Top, mode # "body")
      BY <1>m, <2>1, TopHas
    <3> QED
      BY <2>1, <3>1 DEF Delivered, Returned
  <2>5. Full(repo, Callee, f.found)
    <3>1. Full(repo, Callee, Rewrapped(result, Top.path))
      BY <1>c, <2>1, FullRewrapped
    <3> QED
      BY <2>3, <3>1, FullMono
  <2>6. \A k \in Returned(f, FALSE) : k = Top.job \/ k \in Returned(Top, TRUE)
    BY <2>1, <2>3 DEF Returned
  <2>7. Delivered(repo, f, FALSE)
    <3> SUFFICES ASSUME NEW k \in Returned(f, FALSE),
                        repo.jobs[Top.path][k].uses \in Workflow
                 PROVE  Full(repo, repo.jobs[Top.path][k].uses, f.found)
      BY <2>3 DEF Delivered
    <3>1. CASE k = Top.job
      BY <2>2, <2>5, <3>1
    <3>2. CASE k \in Returned(Top, TRUE)
      <4>1. Full(repo, repo.jobs[Top.path][k].uses, Top.found)
        BY <2>4, <3>2 DEF Delivered
      <4> QED
        BY <2>3, <4>1, FullMono
    <3> QED
      BY <2>6, <3>1, <3>2
  <2>8. Delivered(repo, f, mode' # "body")
    BY <2>1, <2>7 DEF Delivered, Returned
  <2> QED
    BY <1>m, <2>1, <2>3, <2>8, TopDelivered
<1>11. CASE UNCHANGED vars
  <2>1. /\ repo' = repo /\ cache' = cache /\ stack' = stack /\ mode' = mode
        /\ result' = result /\ Callee' = Callee
    BY <1>11 DEF vars, Callee, CurrentJob, TopJobs, Top
  <2>2. \A i \in DOMAIN stack' :
          Delivered(repo', stack'[i], i < Len(stack') \/ mode' # "body")
    BY <1>c, <2>1 DEF Waiting
  <2>3. mode' = "return" => Full(repo', Callee', result')
    BY <1>c, <2>1
  <2> QED
    BY <1>c, <2>1, <2>2, <2>3 DEF FullInv, Waiting
<1> QED
  BY <1>1, <1>2, <1>3, <1>4, <1>5, <1>6, <1>7, <1>8, <1>9, <1>10, <1>11 DEF Next

----------------------------------------------------------------------------

\* The checkout is never written to.
LEMMA SameCheckout == ASSUME [Next]_vars PROVE repo' = repo
BY DEF Next, SetupError, ListCrash, ListFile, EndListing, ScanRoot, Report, CacheHit,
       ParseError, Crash, Enter, CallReusable, SkipUses, ScanSteps, Finish,
       ReturnToCaller, ReturnToMain, vars

\* Nothing is cached and nothing runs at the start.
LEMMA FullInit == Init => Chained /\ (Acyclic => FullInv)
<1> SUFFICES ASSUME Init
             PROVE  Chained /\ FullInv
  OBVIOUS
<1>1. /\ mode = "list" /\ DOMAIN cache = {} /\ DOMAIN stack = {}
  BY DEF Init
<1> QED
  BY <1>1 DEF Chained, FullInv

\* A full and well-found answer is exact.
LEMMA FullIsExact ==
  ASSUME NEW w, NEW fs, Full(repo, w, fs), WellFound(w, fs)
  PROVE  Sites(fs) = UNION {OwnSites(repo, v) : v \in Reach(repo, {w})}
<1>1. ASSUME NEW s \in Sites(fs)
      PROVE  \E v \in Reach(repo, {w}) : s \in OwnSites(repo, v)
  BY <1>1 DEF Sites, WellFound
<1>2. \A v \in Reach(repo, {w}) : OwnSites(repo, v) \subseteq Sites(fs)
  BY DEF Full
<1> QED
  BY <1>1, <1>2

\* On every call graph without cycles, however large, the cached answer of a
\* file holds all the sites the file reaches and no other (lines 97 and 156):
\* that it was first asked for by another caller makes no difference.
THEOREM CachedAnswersAreWhole == Spec => []CacheIsExact
<1>1. Init => Chained /\ (Acyclic => FullInv)
  BY FullInit
<1>2. /\ TypeOK /\ ControlInv /\ StackInv /\ CompleteInv
      /\ Chained /\ (Acyclic => FullInv) /\ [Next]_vars
      => (Chained /\ (Acyclic => FullInv))'
  <2> SUFFICES ASSUME TypeOK, ControlInv, StackInv, CompleteInv, Chained,
                      Acyclic => FullInv, [Next]_vars
               PROVE  Chained' /\ (Acyclic' => FullInv')
    OBVIOUS
  <2>1. Acyclic' => Acyclic
    BY SameCheckout DEF Acyclic
  <2> QED
    BY <2>1, ChainedNext, FullNext
<1>3. IInv /\ (Acyclic => FullInv) => CacheIsExact
  <2> SUFFICES ASSUME IInv, FullInv, mode = "main", NEW w \in DOMAIN cache
               PROVE  Sites(cache[w]) =
                        UNION {OwnSites(repo, v) : v \in Reach(repo, {w})}
    BY DEF CacheIsExact
  <2>1. Full(repo, w, cache[w]) /\ WellFound(w, cache[w])
    BY DEF FullInv, IInv, SoundInv
  <2> QED
    BY <2>1, FullIsExact
<1>4. IInv => TypeOK /\ ControlInv /\ StackInv /\ CompleteInv
  BY DEF IInv
<1> QED
  BY <1>1, <1>2, <1>3, <1>4, InductiveInvariant, PTL DEF Spec

----------------------------------------------------------------------------
(***************************************************************************)
(* With cycles: an entry that is overwritten loses no finding.  A file is *)
(* in the cache while it is on the stack only after it has called itself. *)
(* What the inner activation has found behind calls, the one that goes on *)
(* has got, or is about to get, with the same route (Covered); what is    *)
(* wrong in the file itself, it finds again (OwnFound).                   *)
(***************************************************************************)

Covered(w, fs, gs) == {f \in fs : f.via = w} \subseteq gs

\* An activation has the findings of the jobs behind it, without a route.
OwnFound(r, f) ==
  \A k \in 1..(f.job - 1) :
    FindingsAt(f.path, JobDetails(r.jobs[f.path][k]), None) \subseteq f.found

OverwriteInv ==
  mode # "done" =>
    /\ mode = "return" => result = cache[Callee]
    /\ \A i \in DOMAIN stack : OwnFound(repo, stack[i])
    /\ \A i \in DOMAIN stack : stack[i].path \in DOMAIN cache =>
         \/ Covered(stack[i].path, cache[stack[i].path], stack[i].found)
         \/ mode = "return" /\ i = Len(stack) /\ Callee = stack[i].path

\* More findings cover as much.
LEMMA CoveredMono ==
  ASSUME NEW w, NEW fs, NEW A, NEW B, A \subseteq B, Covered(w, fs, A)
  PROVE  Covered(w, fs, B)
BY DEF Covered

\* Re-wrapping for the file that has made the route changes nothing.
LEMMA CoveredRewrapped ==
  ASSUME NEW w, NEW fs \in SUBSET Finding
  PROVE  Covered(w, fs, Rewrapped(fs, w))
<1> SUFFICES ASSUME NEW f \in fs, f.via = w
             PROVE  f \in Rewrapped(fs, w)
  BY DEF Covered
<1>1. [f EXCEPT !.via = w] = f
  BY DEF Finding
<1> QED
  BY <1>1 DEF Rewrapped

\* The innermost activation has found again what is wrong in its file.
LEMMA TopOwn ==
  ASSUME TypeOK, OverwriteInv, mode # "done", stack # <<>>
  PROVE  OwnFound(repo, Top)
BY TopFacts DEF OverwriteInv, Top

\* The innermost activation while nothing returns to it.
LEMMA TopCovered ==
  ASSUME TypeOK, OverwriteInv, mode \in {"enter", "body"}, stack # <<>>,
         Top.path \in DOMAIN cache
  PROVE  Covered(Top.path, cache[Top.path], Top.found)
BY TopFacts DEF OverwriteInv, Top

\* It is replaced by one of the same file that has got as much.
LEMMA TopKeepsCovered ==
  ASSUME TypeOK, OverwriteInv, mode # "done", mode' \in {"enter", "body"},
         cache' = cache, repo' = repo, stack # <<>>,
         NEW f \in Frame, stack' = WithTop(f), f.path = Top.path,
         OwnFound(repo, f),
         Top.path \in DOMAIN cache => Covered(Top.path, cache[Top.path], f.found)
  PROVE  OverwriteInv'
<1>1. /\ DOMAIN stack' = DOMAIN stack /\ stack'[Len(stack)] = f
      /\ DOMAIN stack = 1..Len(stack) /\ Len(stack) \in Nat
      /\ \A i \in DOMAIN stack : i # Len(stack) => stack'[i] = stack[i]
  BY WithTopStack, TopFacts DEF TypeOK
<1>2. ASSUME NEW i \in DOMAIN stack', stack'[i].path \in DOMAIN cache
      PROVE  Covered(stack'[i].path, cache[stack'[i].path], stack'[i].found)
  <2>1. CASE i = Len(stack)
    BY <1>1, <1>2, <2>1
  <2>2. CASE i # Len(stack)
    <3>1. stack'[i] = stack[i] /\ i \in DOMAIN stack
      BY <1>1, <2>2
    <3> QED
      BY <1>2, <2>2, <3>1 DEF OverwriteInv
  <2> QED
    BY <2>1, <2>2
<1>3. \A i \in DOMAIN stack' : stack'[i].path \in DOMAIN cache' =>
        Covered(stack'[i].path, cache'[stack'[i].path], stack'[i].found)
  BY <1>2
<1>4. \A i \in DOMAIN stack' : OwnFound(repo', stack'[i])
  BY <1>1 DEF OverwriteInv
<1> QED
  BY <1>3, <1>4 DEF OverwriteInv

\* Each step keeps OverwriteInv.
LEMMA OverwriteNext ==
  ASSUME TypeOK, ControlInv, StackInv, StackShape, OverwriteInv, [Next]_vars
  PROVE  OverwriteInv'
<1> SUFFICES ASSUME mode' # "done"
             PROVE  OverwriteInv'
  BY DEF OverwriteInv
<1>m. mode # "done"
  BY DEF Next, SetupError, ListCrash, ListFile, EndListing, ScanRoot, Report, CacheHit,
         ParseError, Crash, Enter, CallReusable, SkipUses, ScanSteps, Finish,
         ReturnToCaller, ReturnToMain, AtJob, vars
<1>c. \A i \in DOMAIN stack : stack[i].path \in DOMAIN cache =>
         \/ Covered(stack[i].path, cache[stack[i].path], stack[i].found)
         \/ mode = "return" /\ i = Len(stack) /\ Callee = stack[i].path
  BY <1>m DEF OverwriteInv
<1>r. repo' = repo
  BY SameCheckout
<1>o. ASSUME DOMAIN stack' \subseteq DOMAIN stack,
             \A i \in DOMAIN stack' : stack'[i] = stack[i]
      PROVE  \A i \in DOMAIN stack' : OwnFound(repo', stack'[i])
  BY <1>m, <1>o, <1>r DEF OverwriteInv
<1>1. CASE SetupError \/ ListCrash \/ Report \/ Crash
  BY <1>1 DEF SetupError, ListCrash, Report, Crash
<1>2. CASE ListFile \/ EndListing \/ ScanRoot \/ ReturnToMain
  <2>1. stack' = <<>> /\ mode' # "return"
    BY <1>2 DEF ListFile, EndListing, ScanRoot, ReturnToMain, ControlInv
  <2> QED
    BY <2>1 DEF OverwriteInv
<1>3. CASE CacheHit
  <2>1. /\ mode = "enter" /\ stack' = stack /\ cache' = cache
        /\ Callee' = Callee /\ arg = Callee /\ result' = cache[arg]
    BY <1>3 DEF CacheHit, Callee, CurrentJob, TopJobs, Top, ControlInv
  <2>2. \A i \in DOMAIN stack' : stack'[i].path \in DOMAIN cache' =>
          Covered(stack'[i].path, cache'[stack'[i].path], stack'[i].found)
    BY <1>c, <2>1
  <2> QED
    BY <1>o, <2>1, <2>2 DEF OverwriteInv
<1>4. CASE ParseError
  <2>1. /\ mode = "enter" /\ stack' = stack /\ Callee' = Callee /\ arg = Callee
        /\ repo.kind[arg] = "unparseable" /\ cache' = CacheWith(arg, result')
    BY <1>4 DEF ParseError, Callee, CurrentJob, TopJobs, Top, ControlInv
  <2>2. cache'[arg] = result' /\ DOMAIN cache' = DOMAIN cache \cup {arg}
    BY <2>1, CacheWritten
  <2>3. ASSUME NEW i \in DOMAIN stack', stack'[i].path \in DOMAIN cache'
        PROVE  Covered(stack'[i].path, cache'[stack'[i].path], stack'[i].found)
    <3>1. stack[i].path # arg
      BY <2>1 DEF StackInv, InPlace
    <3>2. stack[i].path \in DOMAIN cache
      BY <2>1, <2>2, <2>3, <3>1
    <3>3. cache'[stack[i].path] = cache[stack[i].path]
      BY <2>1, <3>1, <3>2 DEF CacheWith
    <3> QED
      BY <1>c, <2>1, <3>2, <3>3
  <2> QED
    BY <1>o, <2>1, <2>2, <2>3 DEF OverwriteInv
<1>5. CASE Enter
  <2> DEFINE f == [path |-> arg, job |-> 1, phase |-> "uses", found |-> {}]
  <2>1. /\ arg \in Workflow /\ arg \notin DOMAIN cache
        /\ mode = "enter" /\ mode' = "body"
        /\ cache' = cache /\ stack' = Append(stack, f)
    BY <1>5 DEF Enter, ControlInv
  <2>2. f \in Frame /\ f.path = arg /\ f.job = 1
    BY <2>1 DEF Frame
  <2> HIDE DEF f
  <2>3. /\ Len(stack) \in Nat /\ DOMAIN stack = 1..Len(stack)
        /\ DOMAIN stack' = 1..(Len(stack) + 1)
        /\ stack'[Len(stack) + 1] = f
        /\ \A i \in DOMAIN stack : stack'[i] = stack[i]
    BY <2>1, <2>2, PushedStack DEF TypeOK
  <2>4. ASSUME NEW i \in DOMAIN stack', stack'[i].path \in DOMAIN cache'
        PROVE  Covered(stack'[i].path, cache'[stack'[i].path], stack'[i].found)
    <3>1. i \in DOMAIN stack
      BY <2>1, <2>2, <2>3, <2>4
    <3> QED
      BY <1>c, <2>1, <2>3, <2>4, <3>1
  <2> QED
    <3>1. ASSUME NEW i \in DOMAIN stack'
          PROVE  OwnFound(repo', stack'[i])
      <4>1. CASE i \in DOMAIN stack
        BY <1>m, <1>r, <2>3, <4>1 DEF OverwriteInv
      <4>2. CASE i = Len(stack) + 1
        BY <2>2, <2>3, <4>2 DEF OwnFound
      <4> QED
        BY <2>3, <4>1, <4>2
    <3> QED
      BY <2>1, <2>4, <3>1 DEF OverwriteInv
<1>6. CASE CallReusable \/ SkipUses
  <2>1. /\ stack # <<>> /\ Top \in Frame /\ mode = "body" /\ mode' \in {"enter", "body"}
        /\ cache' = cache /\ stack' = WithTop([Top EXCEPT !.phase = "steps"])
    BY <1>6, JobFacts, TopFacts DEF CallReusable, SkipUses, AtJob
  <2> DEFINE f == [Top EXCEPT !.phase = "steps"]
  <2>2. /\ f \in Frame /\ f.path = Top.path /\ f.found = Top.found
        /\ f.job = Top.job
    BY <2>1, FrameUpdates
  <2>3. stack' = WithTop(f)
    BY <2>1
  <2> HIDE DEF f
  <2>4. OwnFound(repo, f)
    BY <1>m, <2>1, <2>2, TopOwn DEF OwnFound
  <2> QED
    BY <1>m, <1>r, <2>1, <2>2, <2>3, <2>4, TopCovered, TopKeepsCovered
<1>7. CASE ScanSteps
  <2> DEFINE new == FindingsAt(Top.path, JobDetails(CurrentJob), None)
             f == [path |-> Top.path, job |-> Top.job + 1,
                   phase |-> "uses", found |-> Top.found \cup new]
  <2>1. /\ stack # <<>> /\ Top \in Frame /\ Top.path \in Workflow
        /\ JobDetails(CurrentJob) \subseteq Detail /\ Top.job \in Nat
        /\ CurrentJob = repo.jobs[Top.path][Top.job]
        /\ mode = "body" /\ mode' = "body"
        /\ cache' = cache /\ stack' = WithTop(f)
    BY <1>7, JobFacts, TopFacts DEF ScanSteps, AtJob
  <2>2. /\ f \in Frame /\ f.path = Top.path /\ f.job = Top.job + 1
        /\ Top.found \subseteq f.found /\ new \subseteq f.found
    BY <2>1, FindingsAtType, FrameUpdates
  <2>n. new = FindingsAt(Top.path, JobDetails(repo.jobs[Top.path][Top.job]), None)
    BY <2>1
  <2> HIDE DEF f, new
  <2>3. Top.path \in DOMAIN cache => Covered(Top.path, cache[Top.path], f.found)
    BY <2>1, <2>2, TopCovered, CoveredMono
  <2>4. OwnFound(repo, f)
    <3> SUFFICES ASSUME NEW k \in 1..(f.job - 1)
                 PROVE  FindingsAt(Top.path, JobDetails(repo.jobs[Top.path][k]), None)
                          \subseteq f.found
      BY <2>2 DEF OwnFound
    <3>1. k = Top.job \/ k \in 1..(Top.job - 1)
      BY <2>1, <2>2
    <3>2. OwnFound(repo, Top)
      BY <1>m, <2>1, TopOwn
    <3> QED
      BY <2>2, <2>n, <3>1, <3>2 DEF OwnFound
  <2> QED
    BY <1>m, <1>r, <2>1, <2>2, <2>3, <2>4, TopKeepsCovered
<1>8. CASE Finish
  <2>1. /\ stack # <<>> /\ mode = "body" /\ Callee' = Top.path
        /\ mode' = "return" /\ result' = Top.found
        /\ cache' = CacheWith(Top.path, Top.found) /\ stack' = Popped
    BY <1>8, FinishCallee DEF Finish
  <2>2. /\ cache'[Top.path] = Top.found
        /\ DOMAIN cache' = DOMAIN cache \cup {Top.path}
    BY <2>1, CacheWritten
  <2>3. /\ Len(stack) \in Nat /\ DOMAIN stack = 1..Len(stack)
        /\ Len(stack) \in DOMAIN stack
        /\ Len(stack') = Len(stack) - 1 /\ DOMAIN stack' = 1..(Len(stack) - 1)
        /\ \A i \in DOMAIN stack' : stack'[i] = stack[i]
    BY <2>1, PoppedStack, TopFacts DEF TypeOK
  <2>4. ASSUME NEW i \in DOMAIN stack', stack'[i].path \in DOMAIN cache'
        PROVE  \/ Covered(stack'[i].path, cache'[stack'[i].path], stack'[i].found)
               \/ i = Len(stack') /\ Callee' = stack'[i].path
    <3>1. i \in DOMAIN stack /\ i < Len(stack) /\ stack'[i] = stack[i]
      BY <2>3
    <3>2. CASE stack[i].path = Top.path
      <4>1. Len(stack) = i + 1
        BY <2>3, <3>1, <3>2 DEF StackShape, Top
      <4> QED
        BY <2>1, <2>3, <3>1, <3>2, <4>1
    <3>3. CASE stack[i].path # Top.path
      <4>1. stack[i].path \in DOMAIN cache
        BY <2>2, <2>4, <3>1, <3>3
      <4>2. cache'[stack[i].path] = cache[stack[i].path]
        BY <2>1, <3>3, <4>1 DEF CacheWith
      <4> QED
        BY <1>c, <2>1, <3>1, <4>1, <4>2
    <3> QED
      BY <3>2, <3>3
  <2>5. result' = cache'[Callee']
    BY <2>1, <2>2
  <2> QED
    BY <1>o, <2>1, <2>3, <2>4, <2>5 DEF OverwriteInv
<1>9. CASE ReturnToCaller
  <2> DEFINE f == [Top EXCEPT !.found = @ \cup Rewrapped(result, Top.path)]
  <2>1. /\ stack # <<>> /\ mode = "return" /\ mode' = "body"
        /\ cache' = cache /\ stack' = WithTop(f)
        /\ Top \in Frame /\ Top.path \in Workflow
        /\ result \in SUBSET Finding /\ result = cache[Callee]
    BY <1>9, <1>m, TopFacts DEF ReturnToCaller, TypeOK, OverwriteInv
  <2>2. /\ f \in Frame /\ f.path = Top.path /\ f.job = Top.job
        /\ f.found = Top.found \cup Rewrapped(result, Top.path)
    BY <2>1, RewrappedType, FrameUpdates
  <2> HIDE DEF f
  <2>3. ASSUME Top.path \in DOMAIN cache
        PROVE  Covered(Top.path, cache[Top.path], f.found)
    <3>1. \/ Covered(Top.path, cache[Top.path], Top.found)
          \/ Callee = Top.path
      BY <1>c, <2>1, <2>3, TopFacts DEF Top
    <3>2. CASE Covered(Top.path, cache[Top.path], Top.found)
      BY <2>2, <3>2, CoveredMono
    <3>3. CASE Callee = Top.path
      <4>1. Covered(Top.path, cache[Top.path], Rewrapped(result, Top.path))
        BY <2>1, <3>3, CoveredRewrapped
      <4> QED
        BY <2>2, <4>1, CoveredMono
    <3> QED
      BY <3>1, <3>2, <3>3
  <2>4. OwnFound(repo, f)
    BY <1>m, <2>1, <2>2, TopOwn DEF OwnFound
  <2> QED
    BY <1>m, <1>r, <2>1, <2>2, <2>3, <2>4, TopKeepsCovered
<1>10. CASE UNCHANGED vars
  <2>1. /\ cache' = cache /\ stack' = stack /\ mode' = mode
        /\ result' = result /\ Callee' = Callee
    BY <1>10 DEF vars, Callee, CurrentJob, TopJobs, Top
  <2>2. \A i \in DOMAIN stack' : stack'[i].path \in DOMAIN cache' =>
         \/ Covered(stack'[i].path, cache'[stack'[i].path], stack'[i].found)
         \/ mode' = "return" /\ i = Len(stack') /\ Callee' = stack'[i].path
    BY <1>c, <2>1
  <2>3. mode' = "return" => result' = cache'[Callee']
    BY <1>m, <2>1 DEF OverwriteInv
  <2> QED
    BY <1>o, <2>1, <2>2, <2>3 DEF OverwriteInv
<1> QED
  BY <1>1, <1>2, <1>3, <1>4, <1>5, <1>6, <1>7, <1>8, <1>9, <1>10 DEF Next

\* No activation at the start.
LEMMA OverwriteInit == Init => OverwriteInv
<1> SUFFICES ASSUME Init
             PROVE  OverwriteInv
  OBVIOUS
<1>1. mode = "list" /\ DOMAIN stack = {}
  BY DEF Init
<1> QED
  BY <1>1 DEF OverwriteInv

\* When an activation is done, it has all that is cached for its file.
LEMMA FinishGrows ==
  ASSUME TypeOK, ControlInv, StackInv, SoundInv, OverwriteInv, Finish,
         Top.path \in DOMAIN cache
  PROVE  cache[Top.path] \subseteq Top.found
<1> DEFINE w == Top.path
           jobs == repo.jobs[w]
<1>1. stack # <<>> /\ mode = "body" /\ Top.job > Len(jobs)
  BY FinishCallee DEF Finish, TopJobs
<1>2. /\ w \in Workflow /\ repo.kind[w] = "workflow"
      /\ Top.job \in 1..(Len(jobs) + 1) /\ jobs \in Seq(Job)
  BY <1>1, TopFacts, RepoType DEF StackInv, InPlace, Top, Repo
<1>3. 1..(Top.job - 1) = 1..Len(jobs)
  BY <1>1, <1>2
<1> SUFFICES ASSUME NEW f \in cache[w]
             PROVE  f \in Top.found
  OBVIOUS
<1>4. f \in Finding
  BY DEF TypeOK
<1>5. CASE f.via = w
  BY <1>1, <1>5, TopCovered DEF Covered
<1>6. CASE f.via # w
  <2>1. /\ f.via = None /\ f.path = w
        /\ [path |-> w, detail |-> f.detail] \in OwnSites(repo, w)
    BY <1>6 DEF SoundInv, WellFound
  <2>2. f.detail \in OwnDetails(repo, w)
    BY <2>1 DEF OwnSites
  <2>3. PICK k \in 1..Len(jobs) : f.detail \in JobDetails(jobs[k])
    BY <1>2, <2>2 DEF OwnDetails, WalkRaises
  <2>4. f = [path |-> w, detail |-> f.detail, via |-> None]
    BY <1>4, <2>1 DEF Finding
  <2>5. f \in FindingsAt(w, JobDetails(jobs[k]), None)
    BY <2>3, <2>4 DEF FindingsAt
  <2>6. OwnFound(repo, Top)
    BY <1>1, TopOwn
  <2> QED
    BY <1>3, <2>3, <2>5, <2>6 DEF OwnFound
<1> QED
  BY <1>5, <1>6

\* A step writes no entry with less than the entry it replaces.
LEMMA GrowsNext ==
  ASSUME TypeOK, ControlInv, StackInv, SoundInv, OverwriteInv, [Next]_vars,
         NEW w \in DOMAIN cache
  PROVE  w \in DOMAIN cache' /\ cache[w] \subseteq cache'[w]
<1>1. CASE ParseError
  <2>1. arg \notin DOMAIN cache /\ cache' = CacheWith(arg, result')
    BY <1>1 DEF ParseError
  <2>2. w # arg /\ w \in DOMAIN cache'
    BY <2>1, CacheWritten
  <2> QED
    BY <2>1, <2>2 DEF CacheWith
<1>2. CASE Finish
  <2>1. /\ stack # <<>> /\ mode = "body"
        /\ cache' = CacheWith(Top.path, Top.found)
    BY <1>2, FinishCallee DEF Finish
  <2>2. /\ cache'[Top.path] = Top.found
        /\ DOMAIN cache' = DOMAIN cache \cup {Top.path}
    BY <2>1, CacheWritten
  <2>3. CASE w = Top.path
    BY <1>2, <2>2, <2>3, FinishGrows
  <2>4. CASE w # Top.path
    BY <2>1, <2>2, <2>4 DEF CacheWith
  <2> QED
    BY <2>3, <2>4
<1>3. CASE ~ParseError /\ ~Finish
  <2>1. cache' = cache
    BY <1>3
    DEF Next, SetupError, ListCrash, ListFile, EndListing, ScanRoot, Report, CacheHit,
        Crash, Enter, CallReusable, SkipUses, ScanSteps, ReturnToCaller,
        ReturnToMain, vars
  <2> QED
    BY <2>1
<1> QED
  BY <1>1, <1>2, <1>3

\* On every call graph, cycles included, an entry that is overwritten (lines
\* 156-157) has all the findings it had: a file that calls itself does not take
\* back what its inner scan has reported to others.
THEOREM CachedAnswersGrow == Spec => CacheOnlyGrows
<1>1. TypeOK /\ ControlInv /\ StackInv /\ StackShape /\ OverwriteInv /\ [Next]_vars
        => OverwriteInv'
  BY OverwriteNext
<1>2. TypeOK /\ ControlInv /\ StackInv /\ SoundInv /\ OverwriteInv /\ [Next]_vars
        => [\A w \in DOMAIN cache :
              w \in DOMAIN cache' /\ cache[w] \subseteq cache'[w]]_vars
  BY GrowsNext
<1>3. IInv => TypeOK /\ ControlInv /\ StackInv /\ StackShape /\ SoundInv
  BY DEF IInv
<1> QED
  BY <1>1, <1>2, <1>3, OverwriteInit, InductiveInvariant, PTL
  DEF Spec, CacheOnlyGrows
=============================================================================
