------------------------ MODULE PrivilegedScanProofs ------------------------
(***************************************************************************)
(* Proofs about tools/check_privileged_workflows.py as PrivilegedScan      *)
(* models it, for every set of files, listing and set of checkouts.        *)
(***************************************************************************)
EXTENDS PrivilegedScan, SequenceTheorems, TLAPS

----------------------------------------------------------------------------
\* Lemmas about reachability: what the definition as a least closed set gives.

\* The roots are reached.
LEMMA ReachRoots ==
  ASSUME NEW r, NEW R, NEW w \in R, R \subseteq Workflow
  PROVE  w \in Reach(r, R)
BY DEF Reach

\* What a reached file calls is reached.
LEMMA ReachStep ==
  ASSUME NEW r, NEW R, NEW w \in Reach(r, R), NEW v \in Workflow,
         Calls(r, w, v)
  PROVE  v \in Reach(r, R)
BY DEF Reach, ClosedUnderCalls

\* A closed set with the roots holds everything reached.
LEMMA ReachInClosed ==
  ASSUME NEW r, NEW R, NEW S \in SUBSET Workflow, R \subseteq S,
         ClosedUnderCalls(r, S)
  PROVE  Reach(r, R) \subseteq S
BY DEF Reach

\* Reachability is transitive.
LEMMA ReachTrans ==
  ASSUME NEW r, NEW R, NEW w \in Reach(r, R)
  PROVE  Reach(r, {w}) \subseteq Reach(r, R)
BY DEF Reach

\* A callee's reach is part of its caller's.
LEMMA ReachCallee ==
  ASSUME NEW r, NEW w \in Workflow, NEW v \in Workflow, Calls(r, w, v)
  PROVE  Reach(r, {v}) \subseteq Reach(r, {w})
<1>1. w \in Reach(r, {w})
  BY ReachRoots
<1>2. v \in Reach(r, {w})
  BY <1>1, ReachStep
<1> QED
  BY <1>2, ReachTrans

----------------------------------------------------------------------------
\* Lemmas about the stack.

\* Replacing the innermost activation keeps the others.
LEMMA WithTopStack ==
  ASSUME stack \in Seq(Frame), stack # <<>>, NEW f \in Frame
  PROVE  /\ WithTop(f) \in Seq(Frame)
         /\ DOMAIN WithTop(f) = DOMAIN stack
         /\ Len(WithTop(f)) = Len(stack)
         /\ Len(stack) \in DOMAIN stack
         /\ WithTop(f)[Len(stack)] = f
         /\ \A i \in DOMAIN stack : i # Len(stack) => WithTop(f)[i] = stack[i]
         /\ Top \in Frame
BY DEF WithTop, Top

\* Removing it leaves the activations below.
LEMMA PoppedStack ==
  ASSUME stack \in Seq(Frame), stack # <<>>
  PROVE  /\ Popped \in Seq(Frame)
         /\ Len(Popped) = Len(stack) - 1
         /\ DOMAIN Popped = 1..(Len(stack) - 1)
         /\ \A i \in DOMAIN Popped : Popped[i] = stack[i]
         /\ Popped = <<>> <=> Len(stack) = 1
<1>1. Len(stack) \in Nat \ {0} /\ DOMAIN stack = 1..Len(stack)
  OBVIOUS
<1>2. \A i \in 1..(Len(stack) - 1) : stack[i] \in Frame
  BY <1>1
<1>3. /\ Popped \in Seq(Frame)
      /\ Len(Popped) = Len(stack) - 1
      /\ \A i \in 1..(Len(stack) - 1) : Popped[i] = stack[i]
  BY <1>1, <1>2, SubSeqProperties DEF Popped
<1>4. DOMAIN Popped = 1..(Len(stack) - 1)
  BY <1>1, <1>3
<1>5. Popped = <<>> <=> Len(stack) = 1
  BY <1>1, <1>3
<1> QED
  BY <1>3, <1>4, <1>5

\* A new activation goes on top.
LEMMA PushedStack ==
  ASSUME stack \in Seq(Frame), NEW f \in Frame
  PROVE  /\ Append(stack, f) \in Seq(Frame)
         /\ Len(Append(stack, f)) = Len(stack) + 1
         /\ DOMAIN Append(stack, f) = 1..(Len(stack) + 1)
         /\ Append(stack, f)[Len(stack) + 1] = f
         /\ \A i \in DOMAIN stack : Append(stack, f)[i] = stack[i]
OBVIOUS

\* Writing a cache entry.
LEMMA CacheWritten ==
  ASSUME NEW w, NEW fs
  PROVE  /\ DOMAIN CacheWith(w, fs) = DOMAIN cache \cup {w}
         /\ CacheWith(w, fs)[w] = fs
         /\ \A v \in DOMAIN cache : v # w => CacheWith(w, fs)[v] = cache[v]
BY DEF CacheWith

----------------------------------------------------------------------------
\* Type correctness.

\* The repository a behaviour is about is a well-formed one.
LEMMA RepoType ==
  ASSUME TypeOK
  PROVE  repo \in Repo
BY DEF TypeOK

\* Any job index in range is a job.
LEMMA JobType ==
  ASSUME TypeOK, NEW w \in Workflow, NEW k \in 1..Len(repo.jobs[w])
  PROVE  /\ repo.jobs[w] \in Seq(Job)
         /\ repo.jobs[w][k] \in Job
         /\ repo.jobs[w][k].uses \in Workflow \cup {None}
         /\ JobDetails(repo.jobs[w][k]) \subseteq Detail
<1>1. repo.jobs[w] \in Seq(Job)
  BY RepoType DEF Repo
<1>2. repo.jobs[w][k] \in Job
  BY <1>1
<1> QED
  BY <1>1, <1>2 DEF Job, JobDetails, StepDetails, Detail

\* What a step loop or a failed load appends are findings.
LEMMA FindingsAtType ==
  ASSUME NEW w \in Workflow, NEW D \in SUBSET Detail
  PROVE  FindingsAt(w, D, None) \in SUBSET Finding
BY DEF FindingsAt, Finding

\* Re-wrapping makes findings out of findings.
LEMMA RewrappedType ==
  ASSUME NEW w \in Workflow, NEW fs \in SUBSET Finding
  PROVE  Rewrapped(fs, w) \in SUBSET Finding
BY DEF Rewrapped, Finding

\* An action that replaces the innermost activation by one of the right type.
LEMMA WithTopType ==
  ASSUME TypeOK, stack # <<>>, NEW f \in Frame
  PROVE  WithTop(f) \in Seq(Frame)
BY WithTopStack DEF TypeOK

\* Writing an entry keeps the cache a dictionary of findings.
LEMMA CacheType ==
  ASSUME TypeOK, NEW w \in Workflow, NEW fs \in SUBSET Finding
  PROVE  /\ DOMAIN CacheWith(w, fs) \subseteq Workflow
         /\ \A v \in DOMAIN CacheWith(w, fs) :
              CacheWith(w, fs)[v] \in SUBSET Finding
<1>1. DOMAIN CacheWith(w, fs) = DOMAIN cache \cup {w}
  BY CacheWritten
<1>2. ASSUME NEW v \in DOMAIN CacheWith(w, fs)
      PROVE  CacheWith(w, fs)[v] \in SUBSET Finding
  <2>1. CASE v = w
    BY <2>1, CacheWritten
  <2>2. CASE v # w
    <3>1. v \in DOMAIN cache
      BY <1>1, <1>2, <2>2
    <3>2. CacheWith(w, fs)[v] = cache[v]
      BY <2>2, <3>1 DEF CacheWith
    <3> QED
      BY <3>1, <3>2 DEF TypeOK
  <2> QED
    BY <2>1, <2>2
<1> QED
  BY <1>1, <1>2 DEF TypeOK

\* The innermost activation.
LEMMA TopFacts ==
  ASSUME TypeOK, stack # <<>>
  PROVE  /\ Len(stack) \in Nat \ {0}
         /\ DOMAIN stack = 1..Len(stack)
         /\ Len(stack) \in DOMAIN stack
         /\ Top \in Frame
         /\ Top.path \in Workflow
         /\ Top.job \in Nat
         /\ Top.phase \in {"uses", "steps"}
         /\ Top.found \in SUBSET Finding
<1>1. Len(stack) \in Nat \ {0} /\ DOMAIN stack = 1..Len(stack)
  BY DEF TypeOK
<1>2. Top \in Frame
  BY <1>1 DEF TypeOK, Top
<1> QED
  BY <1>1, <1>2 DEF Frame

\* Its current job.
LEMMA JobFacts ==
  ASSUME TypeOK, ControlInv, StackInv, mode = "body", Top.job <= Len(TopJobs)
  PROVE  /\ stack # <<>>
         /\ TopJobs = repo.jobs[Top.path]
         /\ TopJobs \in Seq(Job)
         /\ Top.job \in 1..Len(TopJobs)
         /\ CurrentJob = repo.jobs[Top.path][Top.job]
         /\ CurrentJob.uses \in Workflow \cup {None}
         /\ JobDetails(CurrentJob) \subseteq Detail
<1>1. stack # <<>>
  BY DEF ControlInv
<1>2. Top.job \in 1..(Len(repo.jobs[Top.path]) + 1)
  BY <1>1, TopFacts DEF StackInv, InPlace, Top
<1>3. TopJobs \in Seq(Job)
  BY <1>1, TopFacts, RepoType DEF TopJobs, Repo
<1>4. Top.job \in 1..Len(TopJobs)
  BY <1>2, <1>3 DEF TopJobs
<1> QED
  BY <1>1, <1>3, <1>4, TopFacts, JobType DEF TopJobs, CurrentJob

\* The three ways an activation changes.
LEMMA FrameUpdates ==
  ASSUME NEW f \in Frame, NEW fs \in SUBSET Finding
  PROVE  /\ LET g == [f EXCEPT !.phase = "steps"]
            IN  /\ g \in Frame
                /\ g.path = f.path /\ g.job = f.job /\ g.phase = "steps"
                /\ g.found = f.found
         /\ LET g == [f EXCEPT !.found = @ \cup fs]
            IN  /\ g \in Frame
                /\ g.path = f.path /\ g.job = f.job /\ g.phase = f.phase
                /\ g.found = f.found \cup fs
         /\ [path |-> f.path, job |-> f.job + 1, phase |-> "uses",
             found |-> f.found \cup fs] \in Frame
<1>1. /\ f.path \in Workflow /\ f.job \in Nat /\ f.phase \in {"uses", "steps"}
      /\ f.found \in SUBSET Finding
      /\ f = [path |-> f.path, job |-> f.job, phase |-> f.phase,
              found |-> f.found]
  BY DEF Frame
<1>2. f.job + 1 \in Nat /\ f.found \cup fs \in SUBSET Finding
  BY <1>1
<1>3. [f EXCEPT !.phase = "steps"] =
        [path |-> f.path, job |-> f.job, phase |-> "steps", found |-> f.found]
  BY <1>1
<1>4. [f EXCEPT !.found = @ \cup fs] =
        [path |-> f.path, job |-> f.job, phase |-> f.phase,
         found |-> f.found \cup fs]
  BY <1>1
<1> QED
  BY <1>1, <1>2, <1>3, <1>4 DEF Frame

\* The initial state has the right types.
LEMMA TypeInit == Init => TypeOK
BY ReposAssumption DEF Init, TypeOK, Mode

\* Each step keeps the types; the control invariant says that the activation
\* and the path a step works on are there.
LEMMA TypeNext ==
  ASSUME TypeOK, ControlInv, StackInv, [Next]_vars
  PROVE  TypeOK'
<1> USE DEF Mode
<1>1. CASE SetupError \/ ListCrash
  BY <1>1 DEF SetupError, ListCrash, TypeOK
<1>2. CASE ListFile
  <2>1. Listing[next] \in Workflow
    BY <1>2, ListingAssumption DEF ListFile, TypeOK
  <2> QED
    BY <1>2, <2>1 DEF ListFile, TypeOK
<1>3. CASE EndListing
  BY <1>3 DEF EndListing, TypeOK
<1>4. CASE ScanRoot
  BY <1>4 DEF ScanRoot, TypeOK
<1>5. CASE Report
  BY <1>5 DEF Report, TypeOK
<1>6. CASE CacheHit
  BY <1>6 DEF CacheHit, TypeOK
<1>7. CASE ParseError
  <2>1. FindingsAt(arg, {"parse"}, None) \in SUBSET Finding
    BY <1>7, FindingsAtType DEF ParseError, ControlInv, Detail
  <2> QED
    BY <1>7, <2>1, CacheType DEF ParseError, ControlInv, TypeOK
<1>8. CASE Crash
  BY <1>8 DEF Crash, TypeOK
<1>9. CASE Enter
  <2> DEFINE f == [path |-> arg, job |-> 1, phase |-> "uses", found |-> {}]
  <2>1. f \in Frame
    BY <1>9 DEF Enter, ControlInv, Frame
  <2> QED
    BY <1>9, <2>1 DEF Enter, TypeOK
<1>10. CASE CallReusable
  <2>1. stack # <<>> /\ CurrentJob.uses \in Workflow \cup {None}
    BY <1>10, JobFacts DEF CallReusable, AtJob
  <2>2. [Top EXCEPT !.phase = "steps"] \in Frame
    BY <2>1, TopFacts, FrameUpdates
  <2> QED
    BY <1>10, <2>1, <2>2, WithTopType DEF CallReusable, TypeOK
<1>11. CASE SkipUses
  <2>1. stack # <<>>
    BY <1>11, JobFacts DEF SkipUses, AtJob
  <2>2. [Top EXCEPT !.phase = "steps"] \in Frame
    BY <2>1, TopFacts, FrameUpdates
  <2> QED
    BY <1>11, <2>1, <2>2, WithTopType DEF SkipUses, TypeOK
<1>12. CASE ScanSteps
  <2> DEFINE new == FindingsAt(Top.path, JobDetails(CurrentJob), None)
             f == [path |-> Top.path, job |-> Top.job + 1,
                   phase |-> "uses", found |-> Top.found \cup new]
  <2>1. stack # <<>> /\ JobDetails(CurrentJob) \subseteq Detail
    BY <1>12, JobFacts DEF ScanSteps, AtJob
  <2>2. new \in SUBSET Finding
    BY <2>1, TopFacts, FindingsAtType
  <2>3. f \in Frame
    BY <2>1, <2>2, TopFacts, FrameUpdates
  <2>4. stack' = WithTop(f)
    BY <1>12 DEF ScanSteps
  <2> QED
    BY <1>12, <2>1, <2>3, <2>4, WithTopType DEF ScanSteps, TypeOK
<1>13. CASE Finish
  <2>1. stack # <<>>
    BY <1>13 DEF Finish, ControlInv
  <2> QED
    BY <1>13, <2>1, TopFacts, PoppedStack, CacheType DEF Finish, TypeOK
<1>14. CASE ReturnToCaller
  <2> DEFINE new == Rewrapped(result, Top.path)
             f == [Top EXCEPT !.found = @ \cup new]
  <2>1. stack # <<>> /\ stack' = WithTop(f)
    BY <1>14 DEF ReturnToCaller
  <2>2. new \in SUBSET Finding
    BY <2>1, TopFacts, RewrappedType DEF TypeOK
  <2>3. f \in Frame
    BY <2>1, <2>2, TopFacts, FrameUpdates
  <2> QED
    BY <1>14, <2>1, <2>3, WithTopType DEF ReturnToCaller, TypeOK
<1>15. CASE ReturnToMain
  BY <1>15 DEF ReturnToMain, TypeOK
<1>16. CASE UNCHANGED vars
  BY <1>16 DEF vars, TypeOK
<1> QED
  BY <1>1, <1>2, <1>3, <1>4, <1>5, <1>6, <1>7, <1>8, <1>9, <1>10, <1>11,
     <1>12, <1>13, <1>14, <1>15, <1>16 DEF Next

----------------------------------------------------------------------------
\* Control: where the scan is.

\* When the innermost activation returns, the file it scanned is the one the
\* activation below, or main, waits for.
LEMMA FinishCallee ==
  ASSUME TypeOK, ControlInv, StackInv, Finish
  PROVE  /\ stack # <<>> /\ Top.path \in Workflow
         /\ Callee' = Top.path
         /\ DOMAIN cache' = DOMAIN cache \cup {Top.path}
<1>1. stack # <<>>
  BY DEF Finish, ControlInv
<1>2. Top.path \in Workflow /\ Top = stack[Len(stack)]
  BY <1>1, TopFacts DEF Top
<1>3. DOMAIN cache' = DOMAIN cache \cup {Top.path}
  BY CacheWritten DEF Finish
<1>4. /\ stack' = Popped /\ privileged' = privileged /\ next' = next
      /\ repo' = repo
  BY DEF Finish
<1>5. CASE Len(stack) = 1
  <2>1. stack' = <<>>
    BY <1>1, <1>4, <1>5, PoppedStack DEF TypeOK
  <2>2. Top.path = privileged[next]
    BY <1>1, <1>2, <1>5, TopFacts DEF StackInv, InPlace
  <2> QED
    BY <1>1, <1>2, <1>3, <1>4, <2>1, <2>2 DEF Callee
<1>6. CASE Len(stack) # 1
  <2> DEFINE n == Len(stack) - 1
  <2>1. n \in DOMAIN stack /\ n < Len(stack) /\ n + 1 = Len(stack)
    BY <1>1, <1>6, TopFacts
  <2>2. repo.jobs[stack[n].path][stack[n].job].uses = stack[n + 1].path
    BY <2>1 DEF StackInv, InPlace
  <2>3. stack' # <<>> /\ Len(stack') = n /\ stack'[n] = stack[n]
    <3>1. /\ Len(Popped) = n /\ DOMAIN Popped = 1..n /\ Popped # <<>>
          /\ \A i \in DOMAIN Popped : Popped[i] = stack[i]
      BY <1>1, <1>6, PoppedStack DEF TypeOK
    <3>2. n \in DOMAIN Popped
      BY <2>1, <3>1
    <3> QED
      BY <1>4, <3>1, <3>2
  <2>4. Callee' = repo.jobs[stack[n].path][stack[n].job].uses
    BY <1>4, <2>3 DEF Callee, CurrentJob, TopJobs, Top
  <2> QED
    BY <1>1, <1>2, <1>3, <2>1, <2>2, <2>4
<1> QED
  BY <1>5, <1>6

\* Replacing the innermost activation by one at the same job of the same file
\* changes neither the chain nor the file waited for.
LEMMA SamePlace ==
  ASSUME TypeOK, stack # <<>>, NEW f \in Frame, f.path = Top.path,
         f.job = Top.job, stack' = WithTop(f), repo' = repo
  PROVE  /\ Chain' = Chain /\ Callee' = CurrentJob.uses /\ stack' # <<>>
<1>1. /\ Len(stack') = Len(stack) /\ Len(stack) \in Nat \ {0}
      /\ stack'[Len(stack)] = f
      /\ \A i \in 1..(Len(stack) - 1) : stack'[i] = stack[i]
      /\ stack' \in Seq(Frame)
  BY WithTopStack, TopFacts DEF TypeOK
<1>2. Top' = f /\ stack' # <<>>
  BY <1>1 DEF Top
<1> QED
  BY <1>1, <1>2 DEF Chain, Callee, CurrentJob, TopJobs

\* Replacing the innermost activation leaves a stack that is not empty.
LEMMA WithTopNonempty ==
  ASSUME TypeOK, stack # <<>>, NEW f
  PROVE  WithTop(f) # <<>>
<1>1. DOMAIN WithTop(f) = DOMAIN stack
  BY DEF WithTop
<1>2. DOMAIN stack # {}
  BY TopFacts
<1> QED
  BY <1>1, <1>2

\* Listing one more file.
LEMMA ListMore ==
  ASSUME TypeOK, ListFile, PrivilegedSet = Listed(next - 1)
  PROVE  PrivilegedSet' = Listed(next) /\ repo' = repo
<1>1. next \in 1..Len(Listing) /\ Listing[next] \in Workflow /\ repo' = repo
  BY ListingAssumption DEF ListFile, TypeOK
<1>2. 1..next = 1..(next - 1) \cup {next}
  BY <1>1
<1>3. CASE IsPrivileged(repo, Listing[next])
  <2>1. Listed(next) = Listed(next - 1) \cup {Listing[next]}
    BY <1>1, <1>2, <1>3 DEF Listed
  <2>2. privileged' = Append(privileged, Listing[next])
    BY <1>3 DEF ListFile
  <2>3. /\ DOMAIN privileged' = 1..(Len(privileged) + 1)
        /\ DOMAIN privileged = 1..Len(privileged) /\ Len(privileged) \in Nat
        /\ privileged'[Len(privileged) + 1] = Listing[next]
        /\ \A i \in 1..Len(privileged) : privileged'[i] = privileged[i]
    BY <1>1, <2>2, AppendProperties DEF TypeOK
  <2>4. DOMAIN privileged' = DOMAIN privileged \cup {Len(privileged) + 1}
    BY <2>3
  <2>5. PrivilegedSet' = PrivilegedSet \cup {Listing[next]}
    BY <2>3, <2>4 DEF PrivilegedSet
  <2> QED
    BY <1>1, <2>1, <2>5
<1>4. CASE ~IsPrivileged(repo, Listing[next])
  <2>1. Listed(next) = Listed(next - 1)
    BY <1>1, <1>2, <1>4 DEF Listed
  <2>2. privileged' = privileged
    BY <1>4 DEF ListFile
  <2> QED
    BY <1>1, <2>1, <2>2 DEF PrivilegedSet
<1> QED
  BY <1>3, <1>4

\* The start satisfies the control invariant.
LEMMA ControlInit == Init => ControlInv
<1> SUFFICES ASSUME Init PROVE ControlInv
  OBVIOUS
<1>1. PrivilegedSet = {} /\ Listed(next - 1) = {} /\ ReadWell(next - 1)
  BY DEF Init, PrivilegedSet, Listed, ReadWell
<1> QED
  BY <1>1, ListingAssumption DEF Init, ControlInv

\* Each step keeps the control invariant.
LEMMA ControlNext ==
  ASSUME TypeOK, ControlInv, StackInv, [Next]_vars
  PROVE  ControlInv'
<1>a. ASSUME repo' = repo
      PROVE  Roots' = Roots
  BY <1>a DEF Roots
<1>b. ASSUME privileged' = privileged
      PROVE  PrivilegedSet' = PrivilegedSet
  BY <1>b DEF PrivilegedSet
<1>c. ASSUME stack' = stack, repo' = repo, privileged' = privileged,
             next' = next
      PROVE  Callee' = Callee /\ Chain' = Chain
  BY <1>c DEF Callee, Chain, CurrentJob, TopJobs, Top
<1>d. mode \in Mode /\ next \in Nat \ {0}
  BY DEF TypeOK
<1>r. ASSUME repo' = repo, ReadWell(Len(Listing))
      PROVE  ReadWell(Len(Listing))'
  BY <1>r DEF ReadWell
<1>1. CASE SetupError \/ ListCrash
  BY <1>1, NoneAssumption DEF SetupError, ListCrash, ControlInv
<1>2. CASE ListFile
  <2>1. PrivilegedSet' = Listed(next) /\ repo' = repo
    BY <1>2, ListMore DEF ListFile, ControlInv
  <2>2. next' - 1 = next /\ next' <= Len(Listing) + 1
    BY <1>2, <1>d, ListingAssumption DEF ListFile
  <2>3. Listed(next - 1)' = Listed(next)
    BY <2>1, <2>2 DEF Listed
  <2>4. ReadWell(next - 1)'
    BY <1>2, <1>d, <2>1, <2>2 DEF ListFile, ControlInv, ReadWell
  <2> QED
    BY <1>2, <2>1, <2>2, <2>3, <2>4 DEF ListFile, ControlInv
<1>3. CASE EndListing
  <2>1. next - 1 = Len(Listing)
    BY <1>3, <1>d, ListingAssumption DEF EndListing, ControlInv
  <2>2. PrivilegedSet' = Roots'
    BY <1>3, <1>a, <1>b, <2>1
    DEF EndListing, ControlInv, Listed, Roots, PrivilegedFiles
  <2>3. ReadWell(Len(Listing))'
    BY <1>3, <2>1 DEF EndListing, ControlInv, ReadWell
  <2> QED
    BY <1>3, <2>2, <2>3 DEF EndListing, ControlInv
<1>4. CASE ScanRoot
  <2>1. privileged[next] \in Workflow /\ next \in 1..Len(privileged)
    BY <1>4, <1>d DEF ScanRoot, TypeOK
  <2>2. Chain' = {} /\ Callee' = privileged[next]
    BY <1>4 DEF ScanRoot, ControlInv, Chain, Callee
  <2> QED
    BY <1>4, <1>a, <1>b, <1>r, <2>1, <2>2 DEF ScanRoot, ControlInv
<1>5. CASE Report
  BY <1>5, NoneAssumption DEF Report, ControlInv
<1>6. CASE CacheHit
  BY <1>6, <1>a, <1>b, <1>r, <1>c DEF CacheHit, ControlInv
<1>7. CASE ParseError
  <2>1. DOMAIN cache' = DOMAIN cache \cup {arg}
    BY <1>7, CacheWritten DEF ParseError
  <2> QED
    BY <1>7, <1>a, <1>b, <1>r, <1>c, <2>1 DEF ParseError, ControlInv
<1>8. CASE Crash
  BY <1>8, NoneAssumption DEF Crash, ControlInv
<1>9. CASE Enter
  <2>1. stack' # <<>>
    BY <1>9 DEF Enter, TypeOK
  <2> QED
    BY <1>9, <1>a, <1>b, <1>r, <2>1 DEF Enter, ControlInv
<1>10. CASE CallReusable
  <2>1. /\ stack # <<>> /\ CurrentJob.uses \in Workflow
        /\ CurrentJob.uses \notin Chain
    BY <1>10, JobFacts DEF CallReusable, AtJob, MayCall, Resolves
  <2>2. /\ Chain' = Chain /\ Callee' = CurrentJob.uses
    BY <1>10, <2>1, SamePlace, TopFacts, FrameUpdates DEF CallReusable
  <2> QED
    BY <1>10, <1>a, <1>b, <1>r, <2>1, <2>2 DEF CallReusable, AtJob, ControlInv
<1>11. CASE SkipUses
  <2>1. stack' # <<>>
    BY <1>11, SamePlace, TopFacts, FrameUpdates
    DEF SkipUses, AtJob, ControlInv
  <2> QED
    BY <1>11, <1>a, <1>b, <1>r, <2>1 DEF SkipUses, AtJob, ControlInv
<1>12. CASE ScanSteps
  <2>1. stack # <<>>
    BY <1>12 DEF ScanSteps, AtJob, ControlInv
  <2>2. stack' # <<>>
    BY <1>12, <2>1, WithTopNonempty DEF ScanSteps
  <2> QED
    BY <1>12, <1>a, <1>b, <1>r, <2>1, <2>2 DEF ScanSteps, AtJob, ControlInv
<1>13. CASE Finish
  BY <1>13, <1>a, <1>b, <1>r, FinishCallee DEF Finish, ControlInv
<1>14. CASE ReturnToCaller
  <2>1. stack' # <<>>
    BY <1>14, SamePlace, TopFacts, FrameUpdates, RewrappedType
    DEF ReturnToCaller, TypeOK
  <2> QED
    BY <1>14, <1>a, <1>b, <1>r, <2>1 DEF ReturnToCaller, ControlInv
<1>15. CASE ReturnToMain
  BY <1>15, <1>a, <1>b, <1>r DEF ReturnToMain, ControlInv
<1>16. CASE UNCHANGED vars
  <2>1. /\ Listed(next - 1)' = Listed(next - 1)
        /\ ReadWell(next - 1)' <=> ReadWell(next - 1)
    BY <1>16 DEF vars, Listed, ReadWell
  <2> QED
    BY <1>16, <1>a, <1>b, <1>r, <1>c, <2>1 DEF vars, ControlInv
<1> QED
  BY <1>1, <1>2, <1>3, <1>4, <1>5, <1>6, <1>7, <1>8, <1>9, <1>10, <1>11,
     <1>12, <1>13, <1>14, <1>15, <1>16 DEF Next

----------------------------------------------------------------------------
\* The stack: every activation is one of a reachable file and waits for the
\* next one.

\* A file about to be scanned is reached from a privileged one.
LEMMA ArgReached ==
  ASSUME TypeOK, ControlInv, StackInv, mode = "enter"
  PROVE  arg \in Reach(repo, Roots)
<1>1. arg \in Workflow /\ arg = Callee
  BY DEF ControlInv
<1>2. Roots \subseteq Workflow
  BY ListingAssumption DEF Roots, PrivilegedFiles
<1>3. CASE stack = <<>>
  <2>1. arg \in PrivilegedSet /\ PrivilegedSet = Roots
    BY <1>1, <1>3 DEF ControlInv, Callee, PrivilegedSet, TypeOK
  <2> QED
    BY <1>2, <2>1, ReachRoots
<1>4. CASE stack # <<>>
  <2>1. /\ Top.path \in Reach(repo, Roots) /\ repo.kind[Top.path] = "workflow"
        /\ Top.job \in 1..Len(repo.jobs[Top.path])
    BY <1>4, TopFacts, RepoType DEF StackInv, InPlace, Top, Repo
  <2>2. arg = repo.jobs[Top.path][Top.job].uses
    BY <1>1, <1>4 DEF Callee, CurrentJob, TopJobs
  <2>3. Calls(repo, Top.path, arg)
    BY <2>1, <2>2 DEF Calls
  <2> QED
    BY <1>1, <2>1, <2>3, ReachStep
<1> QED
  BY <1>3, <1>4

\* Replacing the innermost activation by another of the same file.
LEMMA TopChanged ==
  ASSUME TypeOK, StackInv, stack # <<>>, NEW f \in Frame,
         f.path = Top.path, f.job \in 1..(Len(TopJobs) + 1),
         mode' # "body" => f.phase = "steps" /\ f.job <= Len(TopJobs),
         stack' = WithTop(f), repo' = repo, privileged' = privileged,
         next' = next
  PROVE  StackInv'
<1> DEFINE n == Len(stack)
<1>1. /\ Len(stack') = n /\ DOMAIN stack' = 1..n /\ DOMAIN stack = 1..n
      /\ stack'[n] = f /\ Top = stack[n]
      /\ \A i \in 1..n : i # n => stack'[i] = stack[i]
      /\ \A i \in 1..n : stack'[i].path = stack[i].path
  <2>1. /\ Len(stack') = n /\ DOMAIN stack' = DOMAIN stack /\ stack'[n] = f
        /\ \A i \in DOMAIN stack : i # n => stack'[i] = stack[i]
    BY WithTopStack DEF TypeOK
  <2>2. DOMAIN stack = 1..n
    BY DEF TypeOK
  <2>3. Top = stack[n]
    BY DEF Top
  <2> QED
    BY <2>1, <2>2, <2>3
<1>2. n \in Nat \ {0}
  BY TopFacts
<1>3. Roots' = Roots
  BY DEF Roots
<1> SUFFICES ASSUME NEW i \in 1..n
             PROVE  InPlace(i)'
  BY <1>1 DEF StackInv
<1>4. InPlace(i)
  BY <1>1 DEF StackInv
<1> HIDE DEF n
<1>5. CASE i = n
  <2>1. stack'[i] = f /\ stack[i] = Top /\ ~(i < Len(stack'))
    BY <1>1, <1>2, <1>5
  <2>2. /\ repo.kind[Top.path] = "workflow"
        /\ Top.path \in Reach(repo, Roots)
        /\ i = 1 => Top.path = privileged[next]
    BY <1>4, <2>1 DEF InPlace
  <2> QED
    BY <1>3, <2>1, <2>2 DEF InPlace, TopJobs
<1>6. CASE i # n
  <2>1. i < n /\ i + 1 \in 1..n
    BY <1>2, <1>6
  <2>2. /\ stack'[i] = stack[i] /\ stack'[i + 1].path = stack[i + 1].path
        /\ i < Len(stack)
    BY <1>1, <1>6, <2>1 DEF n
  <2> QED
    BY <1>3, <1>4, <2>2 DEF InPlace
<1> QED
  BY <1>5, <1>6

\* The empty stack is in place.
LEMMA StackInit == Init => StackInv
BY DEF Init, StackInv, InPlace

\* Each step keeps the stack invariant.
LEMMA StackNext ==
  ASSUME TypeOK, ControlInv, StackInv, [Next]_vars
  PROVE  StackInv'
<1>a. ASSUME stack' = <<>>
      PROVE  StackInv'
  BY <1>a DEF StackInv, InPlace
<1>b. ASSUME stack' = stack, repo' = repo, privileged' = privileged,
             next' = next, mode # "body" \/ mode' = "body"
      PROVE  StackInv'
  BY <1>b DEF StackInv, InPlace, Roots
<1>1. CASE SetupError \/ ListCrash \/ ListFile \/ EndListing \/ ScanRoot \/ Report
             \/ ReturnToMain
  BY <1>1, <1>a
  DEF SetupError, ListCrash, ListFile, EndListing, ScanRoot, Report, ReturnToMain, ControlInv
<1>2. CASE CacheHit \/ ParseError \/ Crash
  BY <1>2, <1>b DEF CacheHit, ParseError, Crash
<1>3. CASE Enter
  <2> DEFINE f == [path |-> arg, job |-> 1, phase |-> "uses", found |-> {}]
             n == Len(stack)
  <2>1. /\ arg \in Workflow /\ arg = Callee /\ arg \in Reach(repo, Roots)
        /\ mode = "enter" /\ repo.kind[arg] = "workflow"
    BY <1>3, ArgReached DEF Enter, ControlInv
  <2>2. f \in Frame /\ f.path = arg /\ f.job = 1
    BY <2>1 DEF Frame
  <2>3. repo.jobs[arg] \in Seq(Job)
    BY <2>1, RepoType DEF Repo
  <2>4. stack' = Append(stack, f)
    BY <1>3 DEF Enter
  <2> HIDE DEF f
  <2>5. /\ n \in Nat /\ Len(stack') = n + 1 /\ DOMAIN stack' = 1..(n + 1)
        /\ stack'[n + 1] = f /\ DOMAIN stack = 1..n
        /\ \A i \in 1..n : stack'[i] = stack[i]
    BY <2>2, <2>4 DEF TypeOK
  <2>6. n # 0 => repo.jobs[stack[n].path][stack[n].job].uses = arg
    <3>1. n # 0 => stack # <<>>
      BY <2>5
    <3> QED
      BY <2>1, <3>1 DEF Callee, CurrentJob, TopJobs, Top
  <2>7. n = 0 => arg = privileged[next]
    <3>1. n = 0 => stack = <<>>
      BY EmptySeq DEF TypeOK
    <3> QED
      BY <2>1, <3>1 DEF Callee
  <2>8. /\ repo' = repo /\ Roots' = Roots /\ privileged' = privileged
        /\ next' = next
    BY <1>3 DEF Enter, Roots
  <2>a. /\ \A i \in 1..n : InPlace(i)
        /\ mode' = "body"
    BY <1>3, <2>5 DEF Enter, StackInv
  <2> HIDE DEF n
  <2> SUFFICES ASSUME NEW i \in 1..(n + 1)
               PROVE  InPlace(i)'
    BY <2>5 DEF StackInv
  <2>9. CASE i = n + 1
    BY <2>1, <2>2, <2>3, <2>5, <2>7, <2>8, <2>9, <2>a DEF InPlace
  <2>10. CASE i = n
    <3>1. i \in 1..n /\ n # 0 /\ InPlace(i)
      BY <2>5, <2>10, <2>a
    <3>2. stack'[i] = stack[i] /\ stack'[i + 1].path = arg
      BY <2>2, <2>5, <2>10, <3>1
    <3> QED
      BY <2>1, <2>6, <2>8, <2>10, <3>1, <3>2 DEF InPlace
  <2>11. CASE i < n
    <3>1. i \in 1..n /\ i + 1 \in 1..n /\ InPlace(i)
      BY <2>5, <2>11, <2>a
    <3>2. stack'[i] = stack[i] /\ stack'[i + 1] = stack[i + 1]
      BY <2>5, <3>1
    <3>3. i < Len(stack)
      BY <2>11 DEF n
    <3> QED
      BY <2>8, <3>1, <3>2, <3>3 DEF InPlace
  <2> QED
    BY <2>5, <2>9, <2>10, <2>11
<1>4. CASE CallReusable
  <2> DEFINE f == [Top EXCEPT !.phase = "steps"]
  <2>1. stack # <<>> /\ Top.job \in 1..Len(TopJobs) /\ TopJobs \in Seq(Job)
    BY <1>4, JobFacts DEF CallReusable, AtJob
  <2>2. /\ f \in Frame /\ f.path = Top.path /\ f.job = Top.job
        /\ f.phase = "steps"
    BY <2>1, TopFacts, FrameUpdates
  <2>3. stack' = WithTop(f)
    BY <1>4 DEF CallReusable
  <2>4. f.job \in 1..(Len(TopJobs) + 1) /\ f.job <= Len(TopJobs)
    BY <2>1, <2>2
  <2> HIDE DEF f
  <2> QED
    BY <1>4, <2>1, <2>2, <2>3, <2>4, TopChanged DEF CallReusable
<1>5. CASE SkipUses
  <2> DEFINE f == [Top EXCEPT !.phase = "steps"]
  <2>1. stack # <<>> /\ Top.job \in 1..Len(TopJobs) /\ TopJobs \in Seq(Job)
    BY <1>5, JobFacts DEF SkipUses, AtJob
  <2>2. /\ f \in Frame /\ f.path = Top.path /\ f.job = Top.job
        /\ f.phase = "steps"
    BY <2>1, TopFacts, FrameUpdates
  <2>3. stack' = WithTop(f)
    BY <1>5 DEF SkipUses
  <2>4. f.job \in 1..(Len(TopJobs) + 1) /\ f.job <= Len(TopJobs)
    BY <2>1, <2>2
  <2> HIDE DEF f
  <2> QED
    BY <1>5, <2>1, <2>2, <2>3, <2>4, TopChanged DEF SkipUses, AtJob
<1>6. CASE ScanSteps
  <2> DEFINE new == FindingsAt(Top.path, JobDetails(CurrentJob), None)
             f == [path |-> Top.path, job |-> Top.job + 1,
                   phase |-> "uses", found |-> Top.found \cup new]
  <2>1. /\ stack # <<>> /\ Top.job \in 1..Len(TopJobs) /\ TopJobs \in Seq(Job)
        /\ JobDetails(CurrentJob) \subseteq Detail
    BY <1>6, JobFacts DEF ScanSteps, AtJob
  <2>2. f \in Frame
    BY <2>1, TopFacts, FindingsAtType, FrameUpdates
  <2>3. stack' = WithTop(f) /\ mode' = "body"
    BY <1>6 DEF ScanSteps, AtJob
  <2>4. f.path = Top.path /\ f.job \in 1..(Len(TopJobs) + 1)
    BY <2>1
  <2> HIDE DEF f
  <2> QED
    BY <1>6, <2>1, <2>2, <2>3, <2>4, TopChanged DEF ScanSteps
<1>7. CASE Finish
  <2> DEFINE n == Len(stack)
  <2>1. stack # <<>> /\ stack' = Popped
    BY <1>7, FinishCallee DEF Finish
  <2>2. /\ n \in Nat \ {0} /\ Len(stack') = n - 1 /\ DOMAIN stack = 1..n
        /\ DOMAIN stack' = 1..(n - 1)
        /\ \A i \in 1..(n - 1) : stack'[i] = stack[i]
    BY <2>1, PoppedStack, TopFacts DEF TypeOK
  <2>3. /\ repo' = repo /\ Roots' = Roots /\ privileged' = privileged
        /\ next' = next
    BY <1>7 DEF Finish, Roots
  <2> SUFFICES ASSUME NEW i \in 1..(n - 1)
               PROVE  InPlace(i)'
    BY <2>2 DEF StackInv
  <2>4. InPlace(i) /\ i < Len(stack)
    BY <2>2 DEF StackInv
  <2>5. /\ stack'[i] = stack[i]
        /\ i < Len(stack') => stack'[i + 1] = stack[i + 1]
    BY <2>2
  <2> QED
    BY <2>3, <2>4, <2>5 DEF InPlace
<1>8. CASE ReturnToCaller
  <2> DEFINE new == Rewrapped(result, Top.path)
             f == [Top EXCEPT !.found = @ \cup new]
  <2>1. /\ stack # <<>> /\ mode = "return" /\ mode' = "body"
        /\ stack' = WithTop(f)
    BY <1>8 DEF ReturnToCaller
  <2>2. /\ f \in Frame /\ f.path = Top.path /\ f.job = Top.job
        /\ f.phase = Top.phase
    BY <2>1, TopFacts, RewrappedType, FrameUpdates DEF TypeOK
  <2>3. f.job \in 1..(Len(TopJobs) + 1)
    BY <2>1, <2>2, TopFacts DEF StackInv, InPlace, Top, TopJobs
  <2> HIDE DEF f
  <2> QED
    BY <1>8, <2>1, <2>2, <2>3, TopChanged DEF ReturnToCaller
<1>9. CASE UNCHANGED vars
  BY <1>9, <1>b DEF vars
<1> QED
  BY <1>1, <1>2, <1>3, <1>4, <1>5, <1>6, <1>7, <1>8, <1>9 DEF Next

\* The three invariants that say where the scan is, together.
LEMMA Structure == Spec => [](TypeOK /\ ControlInv /\ StackInv)
<1>1. Init => TypeOK /\ ControlInv /\ StackInv
  BY TypeInit, ControlInit, StackInit
<1>2. TypeOK /\ ControlInv /\ StackInv /\ [Next]_vars =>
        (TypeOK /\ ControlInv /\ StackInv)'
  BY TypeNext, ControlNext, StackNext
<1> QED
  BY <1>1, <1>2, PTL DEF Spec

\* Every variable keeps its type: in particular a call is never made with
\* None for a path, nor a job read outside of its file's jobs.
THEOREM TypeCorrect == Spec => []TypeOK
BY Structure, PTL

----------------------------------------------------------------------------
\* The recursion bound.

\* Each step keeps a file from being active twice but as its own callee.
LEMMA ShapeNext ==
  ASSUME TypeOK, ControlInv, StackInv, StackShape, [Next]_vars
  PROVE  StackShape'
<1>a. ASSUME repo' = repo, DOMAIN stack' = DOMAIN stack,
             \A i \in DOMAIN stack : stack'[i].path = stack[i].path
      PROVE  StackShape'
  BY <1>a DEF StackShape
<1>b. ASSUME stack # <<>>, repo' = repo, NEW f \in Frame, f.path = Top.path,
             stack' = WithTop(f)
      PROVE  StackShape'
  <2>1. \A i \in DOMAIN stack : stack'[i].path = stack[i].path
    BY <1>b, WithTopStack DEF TypeOK, Top
  <2> QED
    BY <1>a, <1>b, <2>1, WithTopStack DEF TypeOK
<1>1. CASE SetupError \/ ListCrash \/ ListFile \/ EndListing \/ ScanRoot \/ Report
             \/ CacheHit \/ ParseError \/ Crash \/ ReturnToMain
             \/ UNCHANGED vars
  BY <1>1, <1>a
  DEF SetupError, ListCrash, ListFile, EndListing, ScanRoot, Report, CacheHit, ParseError,
      Crash, ReturnToMain, vars
<1>2. CASE Enter
  <2> DEFINE f == [path |-> arg, job |-> 1, phase |-> "uses", found |-> {}]
             n == Len(stack)
  <2>1. /\ arg \in Workflow /\ arg = Callee /\ arg \notin Chain
        /\ mode = "enter" /\ repo' = repo /\ stack' = Append(stack, f)
    BY <1>2 DEF Enter, ControlInv
  <2>2. f \in Frame /\ f.path = arg
    BY <2>1 DEF Frame
  <2> HIDE DEF f
  <2>3. /\ n \in Nat /\ DOMAIN stack' = 1..(n + 1) /\ stack'[n + 1].path = arg
        /\ DOMAIN stack = 1..n /\ \A i \in 1..n : stack'[i] = stack[i]
    BY <2>1, <2>2 DEF TypeOK
  <2>4. \A i \in 1..(n - 1) : stack[i].path # arg
    BY <2>1 DEF Chain
  <2>5. n # 0 => Calls(repo, stack[n].path, arg)
    <3> SUFFICES ASSUME n # 0
                 PROVE  Calls(repo, stack[n].path, arg)
      OBVIOUS
    <3>1. stack # <<>> /\ n \in DOMAIN stack
      BY <2>3
    <3>2. /\ repo.kind[stack[n].path] = "workflow"
          /\ stack[n].job \in 1..Len(repo.jobs[stack[n].path])
      BY <2>1, <3>1, TopFacts, RepoType DEF StackInv, InPlace, Top, Repo
    <3>3. arg = repo.jobs[stack[n].path][stack[n].job].uses
      BY <2>1, <3>1 DEF Callee, CurrentJob, TopJobs, Top
    <3> QED
      BY <3>2, <3>3 DEF Calls
  <2> HIDE DEF n
  <2> SUFFICES ASSUME NEW i \in 1..(n + 1), NEW j \in 1..(n + 1), i < j,
                      stack'[i].path = stack'[j].path
               PROVE  /\ j = i + 1
                      /\ Calls(repo, stack'[i].path, stack'[j].path)
    BY <2>1, <2>3 DEF StackShape
  <2>6. CASE j = n + 1
    <3>1. i \in 1..n /\ stack[i].path = arg
      BY <2>3, <2>6
    <3>2. i = n
      BY <2>3, <2>4, <3>1
    <3> QED
      BY <2>3, <2>5, <2>6, <3>1, <3>2
  <2>7. CASE j # n + 1
    BY <2>3, <2>7 DEF StackShape
  <2> QED
    BY <2>6, <2>7
<1>3. CASE CallReusable \/ SkipUses
  BY <1>3, <1>b, JobFacts, TopFacts, FrameUpdates
  DEF CallReusable, SkipUses, AtJob
<1>4. CASE ScanSteps
  <2> DEFINE new == FindingsAt(Top.path, JobDetails(CurrentJob), None)
             f == [path |-> Top.path, job |-> Top.job + 1,
                   phase |-> "uses", found |-> Top.found \cup new]
  <2>1. stack # <<>> /\ JobDetails(CurrentJob) \subseteq Detail
    BY <1>4, JobFacts DEF ScanSteps, AtJob
  <2>2. f \in Frame /\ f.path = Top.path
    BY <2>1, TopFacts, FindingsAtType, FrameUpdates
  <2>3. stack' = WithTop(f) /\ repo' = repo
    BY <1>4 DEF ScanSteps
  <2> HIDE DEF f
  <2> QED
    BY <1>b, <2>1, <2>2, <2>3
<1>5. CASE Finish
  <2>1. /\ stack' = Popped /\ stack # <<>> /\ repo' = repo
    BY <1>5, FinishCallee DEF Finish
  <2>2. /\ DOMAIN stack' \subseteq DOMAIN stack
        /\ \A i \in DOMAIN stack' : stack'[i] = stack[i]
    BY <2>1, PoppedStack, TopFacts DEF TypeOK
  <2> QED
    BY <2>1, <2>2 DEF StackShape
<1>6. CASE ReturnToCaller
  BY <1>6, <1>b, TopFacts, RewrappedType, FrameUpdates
  DEF ReturnToCaller, TypeOK
<1> QED
  BY <1>1, <1>2, <1>3, <1>4, <1>5, <1>6 DEF Next

\* scan_workflow never has a file active more than twice, and twice only right
\* after it has called itself: the recursion is bounded on every call graph.
THEOREM RecursionBounded == Spec => []StackShape
<1>1. Init => StackShape
  BY DEF Init, StackShape
<1>2. TypeOK /\ ControlInv /\ StackInv /\ StackShape /\ [Next]_vars
        => StackShape'
  BY ShapeNext
<1> QED
  BY <1>1, <1>2, Structure, PTL DEF Spec

----------------------------------------------------------------------------
\* Soundness: every finding is real and so is its route.

\* The findings of one job are sites of the file.
LEMMA JobSites ==
  ASSUME TypeOK, NEW w \in Workflow, repo.kind[w] = "workflow",
         NEW k \in 1..Len(repo.jobs[w]), NEW d \in JobDetails(repo.jobs[w][k])
  PROVE  [path |-> w, detail |-> d] \in OwnSites(repo, w)
<1>1. d \in OwnDetails(repo, w)
  BY DEF OwnDetails, WalkRaises
<1> QED
  BY <1>1 DEF OwnSites

\* A re-wrapped result of a callee is well found for the caller.
LEMMA RewrappedSound ==
  ASSUME NEW w \in Workflow, NEW v \in Workflow, Calls(repo, w, v),
         NEW fs \in SUBSET Finding, WellFound(v, fs)
  PROVE  WellFound(w, Rewrapped(fs, w))
<1> SUFFICES ASSUME NEW g \in Rewrapped(fs, w)
             PROVE  /\ [path |-> g.path, detail |-> g.detail] \in OwnSites(repo, g.path)
                    /\ g.path \in Reach(repo, {w})
                    /\ g.via = w
  BY DEF WellFound
<1>1. PICK f \in fs : g = [f EXCEPT !.via = w]
  BY DEF Rewrapped
<1>2. f \in Finding
  OBVIOUS
<1>3. g.path = f.path /\ g.detail = f.detail /\ g.via = w
  BY <1>1, <1>2 DEF Finding
<1>4. /\ [path |-> f.path, detail |-> f.detail] \in OwnSites(repo, f.path)
      /\ f.path \in Reach(repo, {v})
  BY DEF WellFound
<1> QED
  BY <1>3, <1>4, ReachCallee

\* The parts of a well-found set are well found, and so is their union.
LEMMA WellFoundUnion ==
  ASSUME NEW w, NEW A, NEW B, WellFound(w, A), WellFound(w, B)
  PROVE  WellFound(w, A \cup B)
BY DEF WellFound

\* The invariant does not look at the variables a step changes.
LEMMA SameRepo ==
  ASSUME repo' = repo
  PROVE  /\ Roots' = Roots
         /\ \A w, fs : WellFound(w, fs)' <=> WellFound(w, fs)
         /\ \A f : RealRoute(f)' <=> RealRoute(f)
BY DEF Roots, WellFound, RealRoute

\* Nothing is found at the start.
LEMMA SoundInit == Init => SoundInv
BY DEF Init, SoundInv

\* What the activation waiting on Callee may add to its findings.
LEMMA CalleeFacts ==
  ASSUME TypeOK, ControlInv, StackInv, mode \in {"enter", "return"},
         stack # <<>>
  PROVE  /\ Callee \in Workflow
         /\ Calls(repo, Top.path, Callee)
         /\ repo.kind[Top.path] = "workflow"
         /\ Top.job \in 1..Len(repo.jobs[Top.path])
         /\ Callee = repo.jobs[Top.path][Top.job].uses
         /\ Top.phase = "steps"
<1>1. Callee \in Workflow
  BY DEF ControlInv, TypeOK
<1>2. /\ repo.kind[Top.path] = "workflow" /\ Top.phase = "steps"
      /\ Top.job \in 1..Len(repo.jobs[Top.path])
  BY TopFacts, RepoType DEF StackInv, InPlace, Top, Repo
<1>3. Callee = repo.jobs[Top.path][Top.job].uses
  BY DEF Callee, CurrentJob, TopJobs
<1> QED
  BY <1>1, <1>2, <1>3 DEF Calls

\* Each step keeps the soundness invariant.
LEMMA SoundNext ==
  ASSUME TypeOK, ControlInv, StackInv, SoundInv, [Next]_vars
  PROVE  SoundInv'
<1>1. CASE SetupError \/ ListCrash \/ ListFile \/ EndListing \/ ScanRoot \/ Crash
             \/ UNCHANGED vars
  <2>1. /\ repo' = repo /\ stack' = stack /\ cache' = cache /\ found' = found
        /\ printed' = printed /\ result' = result
        /\ mode' = "return" => mode = "return" /\ Callee' = Callee
    BY <1>1
    DEF SetupError, ListCrash, ListFile, EndListing, ScanRoot, Crash, vars, Callee,
        CurrentJob, TopJobs, Top
  <2> QED
    BY <2>1, SameRepo DEF SoundInv
<1>2. CASE Report
  BY <1>2, SameRepo DEF Report, SoundInv, ControlInv
<1>a. ASSUME repo' = repo, cache' = cache, found' = found,
             printed' = printed, mode' # "return",
             stack # <<>>, NEW f \in Frame, f.path = Top.path,
             WellFound(Top.path, f.found), stack' = WithTop(f)
      PROVE  SoundInv'
  <2>1. /\ DOMAIN stack' = DOMAIN stack
        /\ \A i \in DOMAIN stack :
             WellFound(stack'[i].path, stack'[i].found)
    BY <1>a, WithTopStack DEF TypeOK, SoundInv, Top
  <2> QED
    BY <1>a, <2>1, SameRepo DEF SoundInv
<1>b. ASSUME stack # <<>>
      PROVE  WellFound(Top.path, Top.found)
  BY <1>b, TopFacts DEF SoundInv, Top
<1>3. CASE CacheHit
  <2>1. WellFound(Callee, result') /\ Callee' = Callee
    BY <1>3
    DEF CacheHit, SoundInv, ControlInv, Callee, CurrentJob, TopJobs, Top
  <2> QED
    BY <1>3, <2>1, SameRepo DEF CacheHit, SoundInv
<1>4. CASE ParseError
  <2>1. arg \in Workflow /\ arg = Callee /\ repo.kind[arg] = "unparseable"
    BY <1>4 DEF ParseError, ControlInv
  <2>2. WellFound(arg, FindingsAt(arg, {"parse"}, None))
    <3>1. arg \in Reach(repo, {arg})
      BY <2>1, ReachRoots
    <3>2. [path |-> arg, detail |-> "parse"] \in OwnSites(repo, arg)
      BY <2>1 DEF OwnSites, OwnDetails, WalkRaises
    <3> QED
      BY <3>1, <3>2 DEF WellFound, FindingsAt
  <2>3. Callee' = Callee /\ result' = FindingsAt(arg, {"parse"}, None)
    BY <1>4 DEF ParseError, Callee, CurrentJob, TopJobs, Top
  <2>4. \A w \in DOMAIN cache' : WellFound(w, cache'[w])
    <3>1. cache' = CacheWith(arg, result')
      BY <1>4 DEF ParseError
    <3> QED
      BY <2>2, <2>3, <3>1 DEF CacheWith, SoundInv
  <2> QED
    BY <1>4, <2>1, <2>2, <2>3, <2>4, SameRepo DEF ParseError, SoundInv
<1>5. CASE Enter
  <2> DEFINE f == [path |-> arg, job |-> 1, phase |-> "uses", found |-> {}]
  <2>1. f \in Frame /\ WellFound(f.path, f.found) /\ stack' = Append(stack, f)
    BY <1>5 DEF Enter, ControlInv, Frame, WellFound
  <2> HIDE DEF f
  <2>2. \A i \in DOMAIN stack' : WellFound(stack'[i].path, stack'[i].found)
    <3> SUFFICES ASSUME NEW i \in DOMAIN stack'
                 PROVE  WellFound(stack'[i].path, stack'[i].found)
      OBVIOUS
    <3>1. CASE i \in DOMAIN stack
      BY <2>1, <3>1, PushedStack DEF SoundInv, TypeOK
    <3>2. CASE i \notin DOMAIN stack
      <4>1. stack'[i] = f
        BY <2>1, <3>2, PushedStack DEF TypeOK
      <4> QED
        BY <2>1, <4>1
    <3> QED
      BY <3>1, <3>2
  <2> QED
    BY <1>5, <2>2, SameRepo DEF Enter, SoundInv
<1>6. CASE CallReusable \/ SkipUses
  <2> DEFINE f == [Top EXCEPT !.phase = "steps"]
  <2>1. stack # <<>> /\ stack' = WithTop(f)
    BY <1>6, JobFacts DEF CallReusable, SkipUses, AtJob
  <2>2. f \in Frame /\ f.path = Top.path /\ f.found = Top.found
    BY <2>1, TopFacts, FrameUpdates
  <2> HIDE DEF f
  <2> QED
    BY <1>6, <1>a, <1>b, <2>1, <2>2 DEF CallReusable, SkipUses, AtJob
<1>7. CASE ScanSteps
  <2> DEFINE new == FindingsAt(Top.path, JobDetails(CurrentJob), None)
             f == [path |-> Top.path, job |-> Top.job + 1,
                   phase |-> "uses", found |-> Top.found \cup new]
  <2>1. /\ stack # <<>> /\ JobDetails(CurrentJob) \subseteq Detail
        /\ CurrentJob = repo.jobs[Top.path][Top.job]
        /\ Top.job \in 1..Len(repo.jobs[Top.path])
    BY <1>7, JobFacts DEF ScanSteps, AtJob
  <2>2. Top.path \in Workflow /\ repo.kind[Top.path] = "workflow"
    BY <2>1, TopFacts DEF StackInv, InPlace, Top
  <2>3. WellFound(Top.path, new)
    <3>1. Top.path \in Reach(repo, {Top.path})
      BY <2>2, ReachRoots
    <3>2. \A d \in JobDetails(CurrentJob) :
            [path |-> Top.path, detail |-> d] \in OwnSites(repo, Top.path)
      BY <2>1, <2>2, JobSites
    <3> QED
      BY <3>1, <3>2 DEF WellFound, FindingsAt
  <2>4. new \in SUBSET Finding
    BY <2>1, <2>2, FindingsAtType
  <2>5. stack' = WithTop(f)
    BY <1>7 DEF ScanSteps
  <2> HIDE DEF new
  <2>6. /\ f \in Frame /\ f.path = Top.path
        /\ WellFound(Top.path, f.found)
    BY <1>b, <2>1, <2>3, <2>4, TopFacts, FrameUpdates, WellFoundUnion
  <2> HIDE DEF f
  <2> QED
    BY <1>7, <1>a, <2>1, <2>5, <2>6 DEF ScanSteps, AtJob
<1>8. CASE Finish
  <2>1. /\ stack # <<>> /\ Callee' = Top.path
        /\ stack' = Popped /\ result' = Top.found
        /\ cache' = CacheWith(Top.path, Top.found)
    BY <1>8, FinishCallee DEF Finish
  <2>2. WellFound(Top.path, Top.found)
    BY <1>b, <2>1
  <2>3. \A w \in DOMAIN cache' : WellFound(w, cache'[w])
    BY <2>1, <2>2 DEF CacheWith, SoundInv
  <2>4. \A i \in DOMAIN stack' : WellFound(stack'[i].path, stack'[i].found)
    BY <2>1, PoppedStack, TopFacts DEF SoundInv, TypeOK
  <2> QED
    BY <1>8, <2>1, <2>2, <2>3, <2>4, SameRepo DEF Finish, SoundInv
<1>9. CASE ReturnToCaller
  <2> DEFINE new == Rewrapped(result, Top.path)
             f == [Top EXCEPT !.found = @ \cup new]
  <2>1. /\ stack # <<>> /\ stack' = WithTop(f) /\ mode = "return"
        /\ result \in SUBSET Finding
    BY <1>9 DEF ReturnToCaller, TypeOK
  <2>2. Callee \in Workflow /\ Calls(repo, Top.path, Callee)
    BY <2>1, CalleeFacts
  <2>3. WellFound(Top.path, new)
    BY <2>1, <2>2, TopFacts, RewrappedSound DEF SoundInv
  <2>4. new \in SUBSET Finding
    BY <2>1, TopFacts, RewrappedType
  <2> HIDE DEF new
  <2>5. /\ f \in Frame /\ f.path = Top.path /\ f.found = Top.found \cup new
    BY <2>1, <2>4, TopFacts, FrameUpdates
  <2>6. WellFound(Top.path, f.found)
    BY <1>b, <2>1, <2>3, <2>5, WellFoundUnion
  <2> HIDE DEF f
  <2> QED
    BY <1>9, <1>a, <2>1, <2>5, <2>6 DEF ReturnToCaller
<1>10. CASE ReturnToMain
  <2>1. WellFound(privileged[next], result) /\ privileged[next] \in Roots
    BY <1>10 DEF ReturnToMain, SoundInv, Callee, ControlInv, PrivilegedSet,
                 TypeOK
  <2>2. \A g \in result : RealRoute(g)
    <3>1. privileged[next] \in Workflow
      BY <2>1, ListingAssumption DEF Roots, PrivilegedFiles
    <3> QED
      BY <2>1, <3>1, NoneAssumption DEF WellFound, RealRoute
  <2> QED
    BY <1>10, <2>2, SameRepo DEF ReturnToMain, SoundInv
<1> QED
  BY <1>1, <1>2, <1>3, <1>4, <1>5, <1>6, <1>7, <1>8, <1>9, <1>10 DEF Next

\* All that is found, kept or printed is real.
LEMMA Sound == Spec => []SoundInv
<1>1. TypeOK /\ ControlInv /\ StackInv /\ SoundInv /\ [Next]_vars
        => SoundInv'
  BY SoundNext
<1> QED
  BY <1>1, SoundInit, Structure, PTL DEF Spec

\* Every line the tool prints is about a real site of a file that a privileged
\* workflow, the one the line names, does reach.
THEOREM RoutesAreReal == Spec => []RouteIsReal
<1>1. SoundInv => RouteIsReal
  BY DEF SoundInv, RouteIsReal, RealRoute
<1> QED
  BY <1>1, Sound, PTL

----------------------------------------------------------------------------
\* Completeness: nothing found is lost, nothing called is left out.

\* More findings have more sites.
LEMMA SitesMono ==
  ASSUME NEW A, NEW B, A \subseteq B
  PROVE  Sites(A) \subseteq Sites(B)
BY DEF Sites

\* A detail appended is a site.
LEMMA SitesFindingsAt ==
  ASSUME NEW w, NEW D, NEW d \in D
  PROVE  [path |-> w, detail |-> d] \in Sites(FindingsAt(w, D, None))
<1> DEFINE f == [path |-> w, detail |-> d, via |-> None]
<1>1. f \in FindingsAt(w, D, None)
  BY DEF FindingsAt
<1>2. f.path = w /\ f.detail = d
  OBVIOUS
<1> HIDE DEF f
<1> QED
  BY <1>1, <1>2 DEF Sites

\* Re-wrapping changes no site.
LEMMA SitesRewrapped ==
  ASSUME NEW w \in Workflow, NEW fs \in SUBSET Finding
  PROVE  Sites(fs) \subseteq Sites(Rewrapped(fs, w))
<1> SUFFICES ASSUME NEW f \in fs
             PROVE  \E g \in Rewrapped(fs, w) :
                      g.path = f.path /\ g.detail = f.detail
  BY DEF Sites
<1>1. [f EXCEPT !.via = w] \in Rewrapped(fs, w)
  BY DEF Rewrapped
<1>2. f \in Finding
  OBVIOUS
<1> QED
  BY <1>1, <1>2 DEF Finding

\* No step that goes on loses a finding on its way to main.
LEMMA CollectedGrows ==
  ASSUME TypeOK, ControlInv, StackInv, [Next]_vars
  PROVE  Sites(Collected) \subseteq Sites(Collected)'
<1>s. ASSUME Collected \subseteq Collected'
      PROVE  Sites(Collected) \subseteq Sites(Collected)'
  BY <1>s DEF Sites
<1>t. ASSUME stack # <<>>, NEW f \in Frame, stack' = WithTop(f),
             Top.found \subseteq f.found
      PROVE  UNION {stack[i].found : i \in DOMAIN stack} \subseteq
               UNION {stack'[i].found : i \in DOMAIN stack'}
  <2>1. \A i \in DOMAIN stack : stack[i].found \subseteq stack'[i].found
    BY <1>t, WithTopStack DEF TypeOK, Top
  <2>2. DOMAIN stack' = DOMAIN stack
    BY <1>t, WithTopStack DEF TypeOK
  <2> QED
    BY <2>1, <2>2
<1>1. CASE SetupError \/ ListCrash \/ ListFile \/ EndListing \/ ScanRoot \/ Report
             \/ ParseError \/ CacheHit \/ Crash \/ UNCHANGED vars
  <2>1. stack' = stack /\ found' = found /\ result \subseteq result'
    BY <1>1 DEF SetupError, ListCrash, ListFile, EndListing, ScanRoot, Report, ParseError,
                CacheHit, Crash, vars, ControlInv
  <2> QED
    BY <1>s, <2>1 DEF Collected
<1>2. CASE Enter
  <2> DEFINE f == [path |-> arg, job |-> 1, phase |-> "uses", found |-> {}]
  <2>1. /\ f \in Frame /\ stack' = Append(stack, f) /\ found' = found
        /\ result' = result
    BY <1>2 DEF Enter, ControlInv, Frame
  <2> HIDE DEF f
  <2>2. /\ DOMAIN stack \subseteq DOMAIN stack'
        /\ \A i \in DOMAIN stack : stack'[i] = stack[i]
    BY <2>1, PushedStack DEF TypeOK
  <2> QED
    BY <1>s, <2>1, <2>2 DEF Collected
<1>3. CASE CallReusable \/ SkipUses
  <2> DEFINE f == [Top EXCEPT !.phase = "steps"]
  <2>1. /\ stack # <<>> /\ stack' = WithTop(f) /\ found' = found
        /\ result' = result
    BY <1>3, JobFacts DEF CallReusable, SkipUses, AtJob
  <2>2. f \in Frame /\ f.found = Top.found
    BY <2>1, TopFacts, FrameUpdates
  <2> HIDE DEF f
  <2> QED
    BY <1>s, <1>t, <2>1, <2>2 DEF Collected
<1>4. CASE ScanSteps
  <2> DEFINE new == FindingsAt(Top.path, JobDetails(CurrentJob), None)
             f == [path |-> Top.path, job |-> Top.job + 1,
                   phase |-> "uses", found |-> Top.found \cup new]
  <2>1. stack # <<>> /\ JobDetails(CurrentJob) \subseteq Detail
    BY <1>4, JobFacts DEF ScanSteps, AtJob
  <2>2. f \in Frame /\ Top.found \subseteq f.found
    BY <2>1, TopFacts, FindingsAtType, FrameUpdates
  <2>3. stack' = WithTop(f) /\ found' = found /\ result' = result
    BY <1>4 DEF ScanSteps
  <2> HIDE DEF f
  <2> QED
    BY <1>s, <1>t, <2>1, <2>2, <2>3 DEF Collected
<1>5. CASE Finish
  <2>1. /\ stack # <<>> /\ stack' = Popped /\ result' = Top.found
        /\ found' = found /\ result = {}
    BY <1>5, FinishCallee DEF Finish, ControlInv
  <2>2. \A i \in DOMAIN stack :
          \/ i = Len(stack) /\ stack[i] = Top
          \/ i \in DOMAIN stack' /\ stack'[i] = stack[i]
    BY <2>1, PoppedStack, TopFacts DEF TypeOK, Top
  <2> QED
    BY <1>s, <2>1, <2>2 DEF Collected
<1>6. CASE ReturnToCaller
  <2> DEFINE new == Rewrapped(result, Top.path)
             f == [Top EXCEPT !.found = @ \cup new]
             old == UNION {stack[i].found : i \in DOMAIN stack}
  <2>1. /\ stack # <<>> /\ stack' = WithTop(f) /\ found' = found
        /\ result \in SUBSET Finding
    BY <1>6 DEF ReturnToCaller, TypeOK
  <2>2. new \in SUBSET Finding /\ Sites(result) \subseteq Sites(new)
    BY <2>1, TopFacts, RewrappedType, SitesRewrapped
  <2> HIDE DEF new
  <2>3. f \in Frame /\ f.found = Top.found \cup new
    BY <2>1, <2>2, TopFacts, FrameUpdates
  <2> HIDE DEF f
  <2>4. new \subseteq Collected'
    <3>1. Len(stack) \in DOMAIN stack' /\ stack'[Len(stack)] = f
      BY <2>1, <2>3, WithTopStack DEF TypeOK
    <3> QED
      BY <2>3, <3>1 DEF Collected
  <2>5. found \cup old \subseteq Collected'
    BY <1>t, <2>1, <2>3 DEF Collected
  <2> QED
    BY <2>2, <2>4, <2>5 DEF Collected, Sites
<1>7. CASE ReturnToMain
  BY <1>7, <1>s DEF ReturnToMain, Collected
<1> QED
  BY <1>1, <1>2, <1>3, <1>4, <1>5, <1>6, <1>7 DEF Next

\* No step that goes on forgets a file it has met.
LEMMA SeenGrows ==
  ASSUME TypeOK, ControlInv, StackInv, [Next]_vars, mode' # "done"
  PROVE  Seen \subseteq Seen'
<1>t. ASSUME stack # <<>>, NEW f \in Frame, stack' = WithTop(f),
             Top.path = f.path
      PROVE  {stack[i].path : i \in DOMAIN stack} =
               {stack'[i].path : i \in DOMAIN stack'}
  <2>1. /\ \A i \in DOMAIN stack : stack[i].path = stack'[i].path
        /\ DOMAIN stack' = DOMAIN stack
    BY <1>t, WithTopStack DEF TypeOK, Top
  <2> QED
    BY <2>1
<1>1. CASE ListFile \/ EndListing \/ ScanRoot \/ ReturnToMain
             \/ UNCHANGED vars
  <2>1. /\ stack' = stack /\ cache' = cache
        /\ mode = "enter" => mode' = mode /\ arg' = arg
    BY <1>1 DEF ListFile, EndListing, ScanRoot, ReturnToMain, vars
  <2> QED
    BY <2>1 DEF Seen
<1>7. CASE CacheHit \/ ParseError
  <2>1. stack' = stack
    BY <1>7 DEF CacheHit, ParseError
  <2>2. CASE CacheHit
    <3>1. cache' = cache /\ arg \in DOMAIN cache
      BY <2>2 DEF CacheHit
    <3> QED
      BY <3>1, <2>1 DEF Seen
  <2>3. CASE ParseError
    <3>1. cache' = CacheWith(arg, result')
      BY <2>3 DEF ParseError
    <3>2. DOMAIN cache' = DOMAIN cache \cup {arg}
      BY <3>1, CacheWritten
    <3> QED
      BY <3>2, <2>1 DEF Seen
  <2> QED
    BY <1>7, <2>2, <2>3
<1>0. CASE SetupError \/ ListCrash \/ Report \/ Crash
  BY <1>0 DEF SetupError, ListCrash, Report, Crash
<1>2. CASE Enter
  <2> DEFINE f == [path |-> arg, job |-> 1, phase |-> "uses", found |-> {}]
  <2>1. /\ f \in Frame /\ stack' = Append(stack, f) /\ cache' = cache
        /\ f.path = arg
    BY <1>2 DEF Enter, ControlInv, Frame
  <2> HIDE DEF f
  <2>2. /\ DOMAIN stack \subseteq DOMAIN stack'
        /\ Len(stack) + 1 \in DOMAIN stack' /\ stack'[Len(stack) + 1] = f
        /\ \A i \in DOMAIN stack : stack'[i] = stack[i]
    BY <2>1, PushedStack DEF TypeOK
  <2> QED
    BY <2>1, <2>2 DEF Seen
<1>3. CASE CallReusable \/ SkipUses
  <2> DEFINE f == [Top EXCEPT !.phase = "steps"]
  <2>1. /\ stack # <<>> /\ stack' = WithTop(f) /\ cache' = cache
        /\ mode = "body"
    BY <1>3, JobFacts DEF CallReusable, SkipUses, AtJob
  <2>2. f \in Frame /\ f.path = Top.path
    BY <2>1, TopFacts, FrameUpdates
  <2> HIDE DEF f
  <2> QED
    BY <1>t, <2>1, <2>2 DEF Seen
<1>4. CASE ScanSteps
  <2> DEFINE new == FindingsAt(Top.path, JobDetails(CurrentJob), None)
             f == [path |-> Top.path, job |-> Top.job + 1,
                   phase |-> "uses", found |-> Top.found \cup new]
  <2>1. stack # <<>> /\ JobDetails(CurrentJob) \subseteq Detail
    BY <1>4, JobFacts DEF ScanSteps, AtJob
  <2>2. f \in Frame /\ f.path = Top.path
    BY <2>1, TopFacts, FindingsAtType, FrameUpdates
  <2>3. stack' = WithTop(f) /\ cache' = cache /\ mode = "body"
    BY <1>4 DEF ScanSteps, AtJob
  <2> HIDE DEF f
  <2> QED
    BY <1>t, <2>1, <2>2, <2>3 DEF Seen
<1>5. CASE Finish
  <2>1. /\ stack # <<>> /\ stack' = Popped /\ mode = "body"
        /\ DOMAIN cache' = DOMAIN cache \cup {Top.path}
    BY <1>5, FinishCallee DEF Finish
  <2>2. \A i \in DOMAIN stack :
          \/ stack[i] = Top
          \/ i \in DOMAIN stack' /\ stack'[i] = stack[i]
    BY <2>1, PoppedStack, TopFacts DEF TypeOK, Top
  <2> QED
    BY <2>1, <2>2 DEF Seen
<1>6. CASE ReturnToCaller
  <2> DEFINE new == Rewrapped(result, Top.path)
             f == [Top EXCEPT !.found = @ \cup new]
  <2>1. /\ stack # <<>> /\ stack' = WithTop(f) /\ cache' = cache
        /\ mode = "return" /\ result \in SUBSET Finding
    BY <1>6 DEF ReturnToCaller, TypeOK
  <2>2. f \in Frame /\ f.path = Top.path
    BY <2>1, TopFacts, RewrappedType, FrameUpdates
  <2> HIDE DEF f
  <2> QED
    BY <1>t, <2>1, <2>2 DEF Seen
<1> QED
  BY <1>0, <1>1, <1>2, <1>3, <1>4, <1>5, <1>6, <1>7 DEF Next

\* A finished file stays finished, and an activation a step leaves alone stays
\* as far as it was.
LEMMA FinishedKept ==
  ASSUME repo' = repo, Seen \subseteq Seen',
         Sites(Collected) \subseteq Sites(Collected)'
  PROVE  /\ \A w : Finished(w) => Finished(w)'
         /\ \A i : HalfDone(i) /\ stack'[i] = stack[i] => HalfDone(i)'
<1>1. ASSUME NEW w, Finished(w)
      PROVE  Finished(w)'
  BY <1>1 DEF Finished
<1>2. ASSUME NEW i, HalfDone(i), stack'[i] = stack[i]
      PROVE  HalfDone(i)'
  BY <1>2 DEF HalfDone, DealtWith, Sites
<1> QED
  BY <1>1, <1>2

\* Nothing is scanned at the start.
LEMMA CompleteInit == Init => CompleteInv
BY DEF Init, CompleteInv

\* Replacing the innermost activation by one that is half done too.
LEMMA TopHalfDone ==
  ASSUME TypeOK, repo' = repo, Seen \subseteq Seen',
         Sites(Collected) \subseteq Sites(Collected)',
         stack # <<>>, NEW f \in Frame, stack' = WithTop(f),
         \A i \in DOMAIN stack : HalfDone(i),
         \A k \in 1..(f.job - 1) : \A d \in JobDetails(repo.jobs[f.path][k]) :
           [path |-> f.path, detail |-> d] \in Sites(f.found),
         \A k \in DealtWith(f) : repo.jobs[f.path][k].uses \in Workflow =>
           repo.jobs[f.path][k].uses \in Seen'
  PROVE  \A i \in DOMAIN stack' : HalfDone(i)'
<1> SUFFICES ASSUME NEW i \in DOMAIN stack
             PROVE  HalfDone(i)'
  BY WithTopStack DEF TypeOK
<1>1. CASE i = Len(stack)
  <2>1. stack'[i] = f
    BY <1>1, WithTopStack DEF TypeOK
  <2> QED
    BY <2>1 DEF HalfDone, DealtWith, Sites
<1>2. CASE i # Len(stack)
  <2>1. stack'[i] = stack[i]
    BY <1>2, WithTopStack DEF TypeOK
  <2> QED
    BY <2>1, FinishedKept
<1> QED
  BY <1>1, <1>2

\* What the innermost activation has so far.
LEMMA TopSoFar ==
  ASSUME TypeOK, CompleteInv, mode # "done", stack # <<>>
  PROVE  /\ \A k \in 1..(Top.job - 1) :
              \A d \in JobDetails(repo.jobs[Top.path][k]) :
                [path |-> Top.path, detail |-> d] \in Sites(Top.found)
         /\ \A k \in DealtWith(Top) :
              repo.jobs[Top.path][k].uses \in Workflow =>
                repo.jobs[Top.path][k].uses \in Seen
<1>1. HalfDone(Len(stack))
  BY TopFacts DEF CompleteInv
<1> QED
  BY <1>1 DEF HalfDone, Top

\* When an activation is done with its last job, so is its file.
LEMMA FinishDone ==
  ASSUME TypeOK, ControlInv, StackInv, CompleteInv, Finish
  PROVE  /\ repo.kind[Top.path] = "workflow"
         /\ OwnSites(repo, Top.path) \subseteq Sites(Top.found)
         /\ \A v \in Workflow : Calls(repo, Top.path, v) => v \in Seen
<1> DEFINE jobs == repo.jobs[Top.path]
<1>1. stack # <<>> /\ mode = "body" /\ Top.job > Len(jobs)
  BY FinishCallee DEF Finish, TopJobs
<1>2. /\ Top.path \in Workflow /\ repo.kind[Top.path] = "workflow"
      /\ Top.job \in 1..(Len(jobs) + 1) /\ Top.job \in Nat
      /\ jobs \in Seq(Job)
  BY <1>1, TopFacts, RepoType DEF StackInv, InPlace, Top, Repo
<1>3. 1..(Top.job - 1) = 1..Len(jobs)
  BY <1>1, <1>2
<1>4. \A k \in 1..Len(jobs) : k \in DealtWith(Top)
  BY <1>1, <1>2 DEF DealtWith
<1>5. OwnSites(repo, Top.path) \subseteq Sites(Top.found)
  <2>1. \A k \in 1..Len(jobs) : \A d \in JobDetails(jobs[k]) :
          [path |-> Top.path, detail |-> d] \in Sites(Top.found)
    BY <1>1, <1>3, TopSoFar
  <2>2. OwnDetails(repo, Top.path) =
          UNION {JobDetails(jobs[k]) : k \in 1..Len(jobs)}
    BY <1>2 DEF OwnDetails, WalkRaises
  <2> QED
    BY <2>1, <2>2 DEF OwnSites
<1>6. ASSUME NEW v \in Workflow, Calls(repo, Top.path, v)
      PROVE  v \in Seen
  BY <1>1, <1>4, <1>6, TopSoFar DEF Calls
<1> QED
  BY <1>2, <1>5, <1>6

\* Each step keeps the completeness invariant.
LEMMA CompleteNext ==
  ASSUME TypeOK, ControlInv, StackInv, CompleteInv, [Next]_vars
  PROVE  CompleteInv'
<1> SUFFICES ASSUME mode' # "done"
             PROVE  CompleteInv'
  BY DEF CompleteInv
<1>g. /\ Seen \subseteq Seen'
      /\ Sites(Collected) \subseteq Sites(Collected)'
  BY SeenGrows, CollectedGrows
<1>m. mode # "done"
  BY DEF Next, SetupError, ListCrash, ListFile, EndListing, ScanRoot, Report, CacheHit,
         ParseError, Crash, Enter, CallReusable, SkipUses, ScanSteps, Finish,
         ReturnToCaller, ReturnToMain, AtJob, vars
<1>c. /\ \A w \in DOMAIN cache : Finished(w)
      /\ \A i \in DOMAIN stack : HalfDone(i)
      /\ mode # "list" => \A i \in 1..(next - 1) : privileged[i] \in DOMAIN cache
  BY <1>m DEF CompleteInv
<1>r. repo' = repo
  BY DEF Next, SetupError, ListCrash, ListFile, EndListing, ScanRoot, Report, CacheHit,
         ParseError, Crash, Enter, CallReusable, SkipUses, ScanSteps, Finish,
         ReturnToCaller, ReturnToMain, vars
<1>f. ASSUME cache' = cache
      PROVE  \A w \in DOMAIN cache' : Finished(w)'
  BY <1>c, <1>f, <1>g, <1>r, FinishedKept
<1>h. ASSUME DOMAIN stack' \subseteq DOMAIN stack,
             \A i \in DOMAIN stack' : stack'[i] = stack[i]
      PROVE  \A i \in DOMAIN stack' : HalfDone(i)'
  BY <1>c, <1>h, <1>g, <1>r, FinishedKept
<1>n. ASSUME mode # "list", next' = next, privileged' = privileged,
             DOMAIN cache \subseteq DOMAIN cache'
      PROVE  \A i \in 1..(next' - 1) : privileged'[i] \in DOMAIN cache'
  BY <1>c, <1>n
<1>1. CASE SetupError \/ ListCrash \/ Report \/ Crash
  BY <1>1 DEF SetupError, ListCrash, Report, Crash
<1>2. CASE ListFile
  BY <1>2, <1>f, <1>h DEF ListFile, CompleteInv
<1>3. CASE EndListing
  BY <1>3, <1>f, <1>h DEF EndListing, CompleteInv
<1>4. CASE ScanRoot \/ CacheHit \/ UNCHANGED vars
  BY <1>4, <1>c, <1>f, <1>h, <1>n DEF ScanRoot, CacheHit, vars, CompleteInv
<1>5. CASE ParseError
  <2>1. /\ arg \in Workflow /\ repo.kind[arg] = "unparseable"
        /\ result' = FindingsAt(arg, {"parse"}, None) /\ stack' = stack
        /\ DOMAIN cache' = DOMAIN cache \cup {arg}
        /\ mode = "enter" /\ next' = next /\ privileged' = privileged
    BY <1>5, CacheWritten DEF ParseError, ControlInv
  <2>2. ASSUME NEW w, w = arg
        PROVE  Finished(w)'
    <3>1. OwnSites(repo, w) \subseteq Sites(result')
      <4>1. OwnSites(repo, w) = {[path |-> w, detail |-> "parse"]}
        BY <2>1, <2>2 DEF OwnSites, OwnDetails, WalkRaises
      <4> QED
        BY <2>1, <2>2, <4>1, SitesFindingsAt
    <3>2. Sites(result') \subseteq Sites(Collected)'
      BY DEF Sites, Collected
    <3>3. \A v \in Workflow : ~Calls(repo, w, v)
      BY <2>1, <2>2 DEF Calls
    <3> QED
      BY <1>r, <2>1, <2>2, <3>1, <3>2, <3>3 DEF Finished, WalkRaises
  <2>3. \A w \in DOMAIN cache' : Finished(w)'
    BY <1>c, <1>g, <1>r, <2>1, <2>2, FinishedKept
  <2> QED
    BY <1>h, <1>n, <2>1, <2>3 DEF CompleteInv
<1>6. CASE Enter
  <2> DEFINE f == [path |-> arg, job |-> 1, phase |-> "uses", found |-> {}]
  <2>1. /\ f \in Frame /\ stack' = Append(stack, f) /\ cache' = cache
        /\ f.path = arg /\ f.job = 1 /\ f.phase = "uses"
        /\ mode = "enter" /\ next' = next /\ privileged' = privileged
    BY <1>6 DEF Enter, ControlInv, Frame
  <2> HIDE DEF f
  <2>2. \A i \in DOMAIN stack' : HalfDone(i)'
    <3> SUFFICES ASSUME NEW i \in DOMAIN stack'
                 PROVE  HalfDone(i)'
      OBVIOUS
    <3>1. CASE i \in DOMAIN stack
      <4>1. stack'[i] = stack[i]
        BY <2>1, <3>1, PushedStack DEF TypeOK
      <4> QED
        BY <1>c, <1>g, <1>r, <3>1, <4>1, FinishedKept
    <3>2. CASE i \notin DOMAIN stack
      <4>1. stack'[i] = f
        BY <2>1, <3>2, PushedStack DEF TypeOK
      <4>2. 1..(f.job - 1) = {} /\ DealtWith(f) = {}
        BY <2>1 DEF DealtWith
      <4> QED
        BY <4>1, <4>2 DEF HalfDone, DealtWith
    <3> QED
      BY <3>1, <3>2
  <2> QED
    BY <1>f, <1>n, <2>1, <2>2 DEF CompleteInv
<1>7. CASE CallReusable \/ SkipUses
  <2> DEFINE f == [Top EXCEPT !.phase = "steps"]
             jobs == repo.jobs[Top.path]
  <2>1. /\ stack # <<>> /\ stack' = WithTop(f) /\ mode = "body"
        /\ CurrentJob = jobs[Top.job] /\ Top.phase = "uses"
        /\ Top.job \in 1..Len(jobs) /\ jobs \in Seq(Job)
    BY <1>7, JobFacts DEF CallReusable, SkipUses, AtJob
  <2>2. /\ f \in Frame /\ f.path = Top.path /\ f.found = Top.found
        /\ f.job = Top.job /\ f.phase = "steps"
    BY <2>1, TopFacts, FrameUpdates
  <2> HIDE DEF f
  <2>3. CurrentJob.uses \in Workflow => CurrentJob.uses \in Seen'
    <3>1. CASE CallReusable
      BY <3>1 DEF CallReusable, Seen
    <3>2. CASE SkipUses
      <4>1. CurrentJob.uses \in Workflow => CurrentJob.uses \in Chain
        BY <3>2, NoneAssumption DEF SkipUses, MayCall, Resolves
      <4>2. Chain \subseteq Seen
        BY <2>1, TopFacts DEF Chain, Seen
      <4> QED
        BY <1>g, <4>1, <4>2
    <3> QED
      BY <1>7, <3>1, <3>2
  <2>4. \A k \in DealtWith(f) : k \in DealtWith(Top) \/ k = Top.job
    BY <2>1, <2>2 DEF DealtWith
  <2>5. \A k \in DealtWith(f) :
          jobs[k].uses \in Workflow => jobs[k].uses \in Seen'
    BY <1>g, <1>m, <2>1, <2>3, <2>4, TopSoFar
  <2>6. \A k \in 1..(f.job - 1) : \A d \in JobDetails(jobs[k]) :
          [path |-> f.path, detail |-> d] \in Sites(f.found)
    BY <1>m, <2>1, <2>2, TopSoFar
  <2>7. \A i \in DOMAIN stack' : HalfDone(i)'
    BY <1>c, <1>g, <1>r, <2>1, <2>2, <2>5, <2>6, TopHalfDone
  <2>8. /\ cache' = cache /\ next' = next /\ privileged' = privileged
    BY <1>7 DEF CallReusable, SkipUses
  <2> QED
    BY <1>f, <1>n, <2>1, <2>7, <2>8 DEF CompleteInv
<1>8. CASE ScanSteps
  <2> DEFINE new == FindingsAt(Top.path, JobDetails(CurrentJob), None)
             f == [path |-> Top.path, job |-> Top.job + 1,
                   phase |-> "uses", found |-> Top.found \cup new]
             jobs == repo.jobs[Top.path]
  <2>1. /\ stack # <<>> /\ JobDetails(CurrentJob) \subseteq Detail
        /\ CurrentJob = jobs[Top.job] /\ Top.phase = "steps"
        /\ Top.job \in 1..Len(jobs) /\ jobs \in Seq(Job)
    BY <1>8, JobFacts DEF ScanSteps, AtJob
  <2>2. /\ f \in Frame /\ f.path = Top.path /\ f.job = Top.job + 1
        /\ f.phase = "uses" /\ f.found = Top.found \cup new
    BY <2>1, TopFacts, FindingsAtType, FrameUpdates
  <2>3. stack' = WithTop(f) /\ cache' = cache /\ mode = "body"
    BY <1>8 DEF ScanSteps, AtJob
  <2>4. \A d \in JobDetails(CurrentJob) :
          [path |-> Top.path, detail |-> d] \in Sites(new)
    BY SitesFindingsAt
  <2> HIDE DEF f, new
  <2>5. DealtWith(f) = DealtWith(Top) /\ f.job - 1 = Top.job
    BY <2>1, <2>2 DEF DealtWith
  <2>6. \A k \in 1..(f.job - 1) : k \in 1..(Top.job - 1) \/ k = Top.job
    BY <2>1, <2>5
  <2>7. \A k \in 1..(f.job - 1) : \A d \in JobDetails(jobs[k]) :
          [path |-> f.path, detail |-> d] \in Sites(f.found)
    <3>1. Sites(Top.found) \subseteq Sites(f.found) /\ Sites(new) \subseteq Sites(f.found)
      BY <2>2, SitesMono
    <3> QED
      BY <1>m, <2>1, <2>2, <2>4, <2>6, <3>1, TopSoFar
  <2>8. \A k \in DealtWith(f) :
          jobs[k].uses \in Workflow => jobs[k].uses \in Seen'
    BY <1>g, <1>m, <2>1, <2>5, TopSoFar
  <2>9. \A i \in DOMAIN stack' : HalfDone(i)'
    BY <1>c, <1>g, <1>r, <2>1, <2>2, <2>3, <2>7, <2>8, TopHalfDone
  <2> QED
    BY <1>8, <1>f, <1>n, <2>3, <2>9 DEF ScanSteps, CompleteInv
<1>9. CASE Finish
  <2>1. /\ stack # <<>> /\ stack' = Popped /\ result' = Top.found
        /\ DOMAIN cache' = DOMAIN cache \cup {Top.path}
        /\ mode = "body" /\ next' = next /\ privileged' = privileged
    BY <1>9, FinishCallee DEF Finish
  <2>2. ASSUME NEW w, w = Top.path
        PROVE  Finished(w)'
    <3>1. /\ repo.kind[w] = "workflow"
          /\ OwnSites(repo, w) \subseteq Sites(result')
          /\ \A v \in Workflow : Calls(repo, w, v) => v \in Seen'
      BY <1>9, <1>g, <2>1, <2>2, FinishDone
    <3>2. Sites(result') \subseteq Sites(Collected)'
      BY DEF Sites, Collected
    <3> QED
      BY <1>r, <3>1, <3>2 DEF Finished, WalkRaises
  <2>3. \A w \in DOMAIN cache' : Finished(w)'
    BY <1>c, <1>g, <1>r, <2>1, <2>2, FinishedKept
  <2>4. \A i \in DOMAIN stack' : HalfDone(i)'
    <3>1. /\ DOMAIN stack' \subseteq DOMAIN stack
          /\ \A i \in DOMAIN stack' : stack'[i] = stack[i]
      BY <2>1, PoppedStack, TopFacts DEF TypeOK
    <3> QED
      BY <1>h, <3>1
  <2> QED
    BY <1>n, <2>1, <2>3, <2>4 DEF CompleteInv
<1>10. CASE ReturnToCaller
  <2> DEFINE new == Rewrapped(result, Top.path)
             f == [Top EXCEPT !.found = @ \cup new]
  <2>1. /\ stack # <<>> /\ stack' = WithTop(f) /\ cache' = cache
        /\ mode = "return" /\ result \in SUBSET Finding
    BY <1>10 DEF ReturnToCaller, TypeOK
  <2>2. /\ f \in Frame /\ f.path = Top.path /\ f.job = Top.job
        /\ f.phase = Top.phase /\ f.found = Top.found \cup new
    BY <2>1, TopFacts, RewrappedType, FrameUpdates
  <2> HIDE DEF f, new
  <2>3. \A k \in 1..(f.job - 1) : \A d \in JobDetails(repo.jobs[f.path][k]) :
          [path |-> f.path, detail |-> d] \in Sites(f.found)
    <3>1. Sites(Top.found) \subseteq Sites(f.found)
      BY <2>2, SitesMono
    <3> QED
      BY <1>m, <2>1, <2>2, <3>1, TopSoFar
  <2>4. \A k \in DealtWith(f) : repo.jobs[f.path][k].uses \in Workflow =>
          repo.jobs[f.path][k].uses \in Seen'
    BY <1>g, <1>m, <2>1, <2>2, TopSoFar DEF DealtWith
  <2>5. \A i \in DOMAIN stack' : HalfDone(i)'
    BY <1>c, <1>g, <1>r, <2>1, <2>2, <2>3, <2>4, TopHalfDone
  <2> QED
    BY <1>10, <1>f, <1>n, <2>1, <2>5 DEF ReturnToCaller, CompleteInv
<1>11. CASE ReturnToMain
  <2>1. /\ privileged[next] \in DOMAIN cache /\ next' = next + 1
        /\ stack' = stack /\ cache' = cache /\ privileged' = privileged
        /\ mode = "return" /\ next \in Nat
    BY <1>11 DEF ReturnToMain, ControlInv, Callee, TypeOK
  <2>2. \A i \in 1..(next' - 1) : i \in 1..(next - 1) \/ i = next
    BY <2>1
  <2> QED
    BY <1>c, <1>f, <1>h, <2>1, <2>2 DEF CompleteInv
<1> QED
  BY <1>1, <1>2, <1>3, <1>4, <1>5, <1>6, <1>7, <1>8, <1>9, <1>10, <1>11
  DEF Next

\* The inductive invariant holds in every reachable state.
THEOREM InductiveInvariant == Spec => []IInv
<1>1. Init => CompleteInv
  BY CompleteInit
<1>2. TypeOK /\ ControlInv /\ StackInv /\ CompleteInv /\ [Next]_vars
        => CompleteInv'
  BY CompleteNext
<1>3. Spec => []CompleteInv
  BY <1>1, <1>2, Structure, PTL DEF Spec
<1> QED
  BY <1>3, Structure, RecursionBounded, Sound, PTL DEF IInv

\* Between two privileged files the scanned files are closed under calls: no
\* callee is skipped for good by the chain check or by a cache hit.
THEOREM NothingUnscanned == Spec => []ScannedIsClosed
<1>1. IInv => ScannedIsClosed
  <2> SUFFICES ASSUME IInv, mode = "main"
               PROVE  ClosedUnderCalls(repo, DOMAIN cache)
    BY DEF ScannedIsClosed
  <2>0. stack = <<>>
    BY DEF IInv, ControlInv
  <2>1. Seen = DOMAIN cache
    BY <2>0 DEF Seen
  <2>2. \A w \in DOMAIN cache : Finished(w)
    BY DEF IInv, CompleteInv
  <2> QED
    BY <2>1, <2>2 DEF Finished, ClosedUnderCalls
<1> QED
  BY <1>1, InductiveInvariant, PTL

----------------------------------------------------------------------------
\* The scan implements the one-step report.

\* The contract's definitions are those of the scan.
LEMMA ContractReach ==
  /\ Contract!Reachable = Reach(repo, Roots)
  /\ \A w : /\ Contract!OwnSites(repo, w) = OwnSites(repo, w)
            /\ Contract!WalkRaises(repo, w) <=> WalkRaises(repo, w)
            /\ Contract!TriggerRaises(repo, w) <=> TriggerRaises(repo, w)
BY DEF Contract!Reachable, Contract!Reach, Reach, Contract!ClosedUnderCalls,
       ClosedUnderCalls, Contract!Calls, Calls, Contract!PrivilegedFiles,
       PrivilegedFiles, Contract!IsPrivileged, IsPrivileged,
       Contract!IsTriggered, IsTriggered, Roots, Contract!OwnSites, OwnSites,
       Contract!OwnDetails, OwnDetails, Contract!JobDetails, JobDetails,
       Contract!StepDetails, StepDetails, Contract!WalkRaises, WalkRaises,
       Contract!TriggerRaises, TriggerRaises

\* When main comes to its report, the files scanned are those in reach and the
\* findings are their sites.
LEMMA ReportExact ==
  ASSUME IInv, Report
  PROVE  /\ Sites(found) = UNION {OwnSites(repo, w) : w \in Reach(repo, Roots)}
         /\ \A w \in Reach(repo, Roots) : ~WalkRaises(repo, w)
<1>1. /\ mode = "main" /\ stack = <<>> /\ result = {} /\ PrivilegedSet = Roots
      /\ next > Len(privileged)
  BY DEF Report, IInv, ControlInv
<1>2. Collected = found
  BY <1>1 DEF Collected
<1>3. \A w \in DOMAIN cache : /\ OwnSites(repo, w) \subseteq Sites(found)
                              /\ ~WalkRaises(repo, w)
  BY <1>1, <1>2 DEF IInv, CompleteInv, Finished
<1>4. Roots \subseteq DOMAIN cache
  <2>1. \A i \in DOMAIN privileged : i \in 1..(next - 1)
    BY <1>1 DEF IInv, TypeOK
  <2> QED
    BY <1>1, <2>1 DEF IInv, CompleteInv, PrivilegedSet
<1>5. ClosedUnderCalls(repo, DOMAIN cache)
  BY <1>1 DEF IInv, CompleteInv, Finished, Seen, ClosedUnderCalls
<1>6. Reach(repo, Roots) \subseteq DOMAIN cache
  BY <1>4, <1>5, ReachInClosed DEF IInv, TypeOK
<1>7. ASSUME NEW f \in found
      PROVE  /\ [path |-> f.path, detail |-> f.detail] \in OwnSites(repo, f.path)
             /\ f.path \in Reach(repo, Roots)
  <2>1. RealRoute(f) /\ f \in Finding
    BY <1>7 DEF IInv, SoundInv, TypeOK
  <2>2. Roots \subseteq Workflow
    BY ListingAssumption DEF Roots, PrivilegedFiles
  <2>3. CASE f.via = None
    BY <2>1, <2>2, <2>3, ReachRoots DEF RealRoute
  <2>4. CASE f.via # None
    <3>1. f.via \in Roots /\ f.path \in Reach(repo, {f.via})
      BY <2>1, <2>4 DEF RealRoute
    <3>2. f.via \in Reach(repo, Roots)
      BY <2>2, <3>1, ReachRoots
    <3>3. f.path \in Reach(repo, Roots)
      BY <3>1, <3>2, ReachTrans
    <3> QED
      BY <2>1, <3>3 DEF RealRoute
  <2> QED
    BY <2>3, <2>4
<1> QED
  BY <1>3, <1>6, <1>7 DEF Sites

\* Every behaviour of the scan, seen as what it has reported and its exit code,
\* is one of PrivilegedReach: it reports all the sites in reach of a privileged
\* file and no other, and its exit code says whether there are any.
THEOREM ScanImplementsReach == Spec => ImplementsReach
<1>1. Init => Contract!Init
  BY DEF Init, Contract!Init, Sites
<1>2. IInv /\ [Next]_vars => [Contract!Next]_(Contract!vars)
  <2> SUFFICES ASSUME IInv, [Next]_vars
               PROVE  Contract!Next \/ UNCHANGED Contract!vars
    OBVIOUS
  <2>i. /\ mode = "done" <=> exit # None
        /\ mode # "done" => printed = {}
    BY DEF IInv, ControlInv
  <2>e. Sites({}) = {}
    BY DEF Sites
  <2>1. CASE SetupError
    BY <2>1, <2>i, <2>e DEF SetupError, Contract!Next, Contract!SetupError
  <2>6. CASE ListCrash
    <3>1. Contract!Raises
      BY <2>6, ContractReach DEF ListCrash, Contract!Raises, IInv, TypeOK
    <3> QED
      BY <2>6, <2>i, <2>e, <3>1 DEF ListCrash, Contract!Next, Contract!Crash
  <2>2. CASE Report
    <3>1. /\ Sites(printed') =
               UNION {OwnSites(repo, w) : w \in Contract!Reachable}
          /\ ~Contract!Raises
      <4>1. ReadWell(Len(Listing))
        BY <2>2 DEF Report, IInv, ControlInv
      <4> QED
        BY <2>2, <4>1, ReportExact, ContractReach
        DEF Report, ReadWell, Contract!Raises
    <3>2. (found = {}) <=> (Sites(printed') = {})
      BY <2>2 DEF Report, Sites
    <3>3. repo.dir /\ exit = None /\ repo' = repo
      BY <2>2, <2>i DEF Report, IInv, ControlInv
    <3> QED
      BY <2>2, <3>1, <3>2, <3>3, ContractReach
      DEF Report, Contract!Next, Contract!Report
  <2>3. CASE Crash
    <3>1. repo.dir /\ Contract!Raises
      BY <2>3, ArgReached, ContractReach
      DEF Crash, IInv, ControlInv, Contract!Raises
    <3> QED
      BY <2>3, <2>i, <2>e, <3>1 DEF Crash, Contract!Next, Contract!Crash
  <2>4. ASSUME repo' = repo, printed' = printed, exit' = exit
        PROVE  UNCHANGED Contract!vars
    BY <2>4 DEF Contract!vars, Sites
  <2>5. CASE ListFile \/ EndListing \/ ScanRoot \/ CacheHit \/ ParseError
               \/ Enter \/ CallReusable \/ SkipUses \/ ScanSteps \/ Finish
               \/ ReturnToCaller \/ ReturnToMain \/ UNCHANGED vars
    BY <2>4, <2>5
    DEF ListFile, EndListing, ScanRoot, CacheHit, ParseError, Enter,
        CallReusable, SkipUses, ScanSteps, Finish, ReturnToCaller,
        ReturnToMain, vars
  <2> QED
    BY <2>1, <2>2, <2>3, <2>5, <2>6 DEF Next
<1> QED
  BY <1>1, <1>2, InductiveInvariant, PTL DEF Spec, ImplementsReach, Contract!Spec
============================================================================
