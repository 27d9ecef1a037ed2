----------------------- MODULE RunnerValidationProofs -----------------------
(***************************************************************************)
(* For every set of requests and runner repositories, however many jobs,   *)
(* lines and attempts there are and in whatever order the jobs end: "make  *)
(* ci" runs on the framework with the whole of the runner's data over it,  *)
(* and a green run is valid.                                               *)
(*                                                                         *)
(* IInv of RunnerValidation is inductive.  Its core is that the tree is    *)
(* Partial(line), the framework with the lines before the next one over    *)
(* it, which CopyOneLine carries over one step of the loop.                *)
(***************************************************************************)
EXTENDS RunnerValidation, TLAPS

LEMMA StepsFacts ==
  /\ Len(Steps) = 10
  /\ Steps[1] = "mode" /\ Steps[2] = "template" /\ Steps[3] = "checkout"
  /\ Steps[4] = "inputs" /\ Steps[5] = "framework" /\ Steps[6] = "overlay"
  /\ Steps[7] = "tools" /\ Steps[8] = "contract" /\ Steps[9] = "callers"
  /\ Steps[10] = "ci"
BY DEF Steps

LEMMA RequestTypes ==
  ASSUME request \in Requests
  PROVE  /\ Len(request.overlay) \in Nat
         /\ \A i \in 1..Len(request.overlay) : request.overlay[i] \in Line
BY CallsAssumption DEF Request

LEMMA RunnerTypes ==
  ASSUME runner \in Runners
  PROVE  /\ runner.framework \in Tree
         /\ \A s \in DOMAIN runner.data : runner.data[s] \in Files
BY CallsAssumption DEF Runner

\* A tree is a function from some places to contents.
LEMMA TreeIsFunction ==
  ASSUME NEW t \in Tree
  PROVE  /\ DOMAIN t \subseteq Place
         /\ t = [p \in DOMAIN t |-> t[p]]
         /\ \A p \in DOMAIN t : t[p] \in Content
BY DEF Tree

LEMMA EmptyTree == <<>> \in Tree
<1>1. <<>> \in [{} -> Content]
  OBVIOUS
<1> QED
  BY <1>1 DEF Tree

LEMMA CopyTree ==
  ASSUME NEW t \in Tree, NEW files \in Files, NEW dir \in Directory
  PROVE  Copy(t, files, dir) \in Tree
<1>1. /\ DOMAIN t \subseteq Place
      /\ \A p \in DOMAIN t : t[p] \in Content
  BY TreeIsFunction
<1>2. /\ DOMAIN files \subseteq Name
      /\ \A n \in DOMAIN files : files[n] \in Content
  BY DEF Files
<1>3. DOMAIN t \cup ({dir} \X DOMAIN files) \in SUBSET Place
  BY <1>1, <1>2 DEF Place
<1>4. Copy(t, files, dir)
        \in [DOMAIN t \cup ({dir} \X DOMAIN files) -> Content]
  BY <1>1, <1>2 DEF Copy
<1> QED
  BY <1>3, <1>4 DEF Tree

\* An acceptable line brings files of the runner into a directory of the
\* framework.
LEMMA AcceptableLine ==
  ASSUME runner \in Runners, NEW l, Acceptable(l)
  PROVE  /\ runner.data[From(l)] \in Files
         /\ To(l) \in Directory /\ To(l) \in Allowed
         /\ From(l) \in DOMAIN runner.data
BY RunnerTypes, PathsAssumption DEF Acceptable

----------------------------------------------------------------------------
\* The steps of the job

\* At a step, it and the later ones are not past, and the earlier ones are.
LEMMA StepOrder ==
  ASSUME step \in 1..(Len(Steps) + 1)
  PROVE  /\ \A s : At(s) => ~Past(s)
         /\ At("framework") => ~Past("overlay")
         /\ At("overlay") => Past("framework") /\ ~Past("tools") /\ ~Past("ci")
         /\ At("ci") => Past("framework") /\ Past("overlay")
         /\ Past("overlay") => Past("framework")
         /\ Past("ci") => Past("overlay")
         /\ step = 1 => \A s : ~Past(s)
         /\ step = Len(Steps) + 1 =>
              /\ \A s \in Looking : Past(s)
              /\ Past("framework") /\ Past("overlay")
<1>1. step \in 1..11
  BY StepsFacts
<1>2. \A s : At(s) => ~Past(s)
  BY <1>1, StepsFacts DEF At, Past
<1>3. At("framework") => step = 5
  BY <1>1, StepsFacts DEF At
<1>4. At("overlay") => step = 6
  BY <1>1, StepsFacts DEF At
<1>5. At("ci") => step = 10
  BY <1>1, StepsFacts DEF At
<1>6. Past("overlay") <=> step > 6
  BY <1>1, StepsFacts DEF Past
<1>7. Past("framework") <=> step > 5
  BY <1>1, StepsFacts DEF Past
<1>8. Past("ci") <=> step > 10
  BY <1>1, StepsFacts DEF Past
<1>9. Past("tools") <=> step > 7
  BY <1>1, StepsFacts DEF Past
<1>10. step = 1 => \A s : ~Past(s)
  BY DEF Past
<1>11. step = 11 => \A s \in Looking : Past(s)
  BY StepsFacts DEF Past, Looking
<1> QED
  BY <1>1, <1>2, <1>3, <1>4, <1>5, <1>6, <1>7, <1>8, <1>9, <1>10, <1>11, StepsFacts

LEMMA StepOn ==
  ASSUME step \in 1..(Len(Steps) + 1), NEW t, At(t), step' = step + 1
  PROVE  /\ step' \in 1..(Len(Steps) + 1)
         /\ \A s : Past(s)' <=> (Past(s) \/ s = t)
<1>1. step \in 1..10 /\ Steps[step] = t
  BY StepsFacts DEF At
<1>2. 1..(step' - 1) = 1..(step - 1) \cup {step}
  BY <1>1
<1> QED
  BY <1>1, <1>2, StepsFacts DEF Past

\* What is said of the request and the runner alone does not change.
LEMMA SameRun ==
  ASSUME request' = request, runner' = runner
  PROVE  /\ \A s : Applies(s)' <=> Applies(s)
         /\ \A l : Acceptable(l)' <=> Acceptable(l)
         /\ \A n : Partial(n)' = Partial(n)
         /\ \A s : (s # "ci" \/ tree' = tree) => (Accepts(s)' <=> Accepts(s))
<1>1. \A s : Applies(s)' <=> Applies(s)
  BY DEF Applies
<1>2. \A l : Acceptable(l)' <=> Acceptable(l)
  BY DEF Acceptable
<1>3. \A n : Partial(n)' = Partial(n)
  BY DEF Partial, Bringing
<1>4. \A s : (s # "ci" \/ tree' = tree) => (Accepts(s)' <=> Accepts(s))
  BY DEF Accepts, RunnerInputs
<1> QED
  BY <1>1, <1>2, <1>3, <1>4

\* A step that leaves the job's position and tree alone.
LEMMA StepsStay ==
  ASSUME StepsInv, UNCHANGED <<request, runner, step, line, tree>>
  PROVE  StepsInv'
<1>1. \A s : Past(s)' <=> Past(s)
  BY DEF Past
<1> QED
  BY <1>1, SameRun DEF StepsInv

LEMMA JobsStay ==
  ASSUME JobsInv, UNCHANGED <<request, runner, job>>,
         job[Validate] = "running"
  PROVE  JobsInv'
<1>1. \A j : Wanted(j)' <=> Wanted(j)
  BY DEF Wanted
<1> QED
  BY <1>1 DEF JobsInv

LEMMA StartJobStep ==
  ASSUME IInv, NEW j \in Job, StartJob(j)
  PROVE  IInv'
<1> USE DEF IInv, StartJob
<1>1. TypeOK'
  BY DEF TypeOK
<1>2. StepsInv'
  BY StepsStay
<1>3. JobsInv'
  <2>1. \A k \in Job : job'[k] = IF k = j THEN "running" ELSE job[k]
    BY DEF TypeOK
  <2>2. \A k : Wanted(k)' <=> Wanted(k)
    BY DEF Wanted
  <2>3. Validate \in Job /\ Validate \notin LintJob /\ LintJob \subseteq Job
    BY JobsAssumption DEF Job
  <2> QED
    BY <2>1, <2>2, <2>3 DEF JobsInv
<1> QED
  BY <1>1, <1>2, <1>3

LEMMA EndJobStep ==
  ASSUME IInv, NEW j \in Job, NEW result \in {"success", "failure"},
         EndJob(j, result),
         result = "success" =>
           IF j = Validate THEN step = Len(Steps) + 1 ELSE j \in runner.linted
  PROVE  IInv'
<1> USE DEF IInv, EndJob
<1>1. TypeOK'
  BY DEF TypeOK
<1>2. StepsInv'
  BY StepsStay
<1>3. JobsInv'
  <2>1. \A k \in Job : job'[k] = IF k = j THEN result ELSE job[k]
    BY DEF TypeOK
  <2>2. \A k : Wanted(k)' <=> Wanted(k)
    BY DEF Wanted
  <2>3. Validate \in Job /\ Validate \notin LintJob /\ LintJob \subseteq Job
    BY JobsAssumption DEF Job
  <2> QED
    BY <2>1, <2>2, <2>3 DEF JobsInv
<1> QED
  BY <1>1, <1>2, <1>3

LEMMA FailureStep ==
  ASSUME IInv, NEW j \in Job, EndJob(j, "failure")
  PROVE  IInv'
BY EndJobStep

LEMMA LintJobEndsStep ==
  ASSUME IInv, NEW j \in LintJob, LintJobEnds(j)
  PROVE  IInv'
<1>1. j \in Job /\ j # Validate
  BY JobsAssumption DEF Job
<1>2. CASE j \in runner.linted
  BY <1>1, <1>2, EndJobStep DEF LintJobEnds
<1>3. CASE j \notin runner.linted
  BY <1>1, <1>3, FailureStep DEF LintJobEnds
<1> QED
  BY <1>2, <1>3

LEMMA SucceedStep ==
  ASSUME IInv, Succeed
  PROVE  IInv'
<1>1. Validate \in Job /\ Validate \notin LintJob
  BY JobsAssumption DEF Job
<1>2. step = Len(Steps) + 1
  BY StepsFacts DEF Succeed, IInv, TypeOK
<1> QED
  BY <1>1, <1>2, EndJobStep DEF Succeed

LEMMA RerunStep ==
  ASSUME IInv, NEW jobs \in SUBSET Job, Rerunnable(jobs), Rerun(jobs)
  PROVE  IInv'
<1> USE DEF IInv
<1>0. Validate \in Job /\ Validate \notin LintJob /\ LintJob \subseteq Job
  BY JobsAssumption DEF Job
<1>1. TypeOK'
  <2>1. attempt' \in 1..MaxAttempts
    BY AttemptsAssumption DEF TypeOK, Rerun
  <2>2. job' \in [Job -> {"queued", "running", "success", "failure", "skipped"}]
    BY DEF TypeOK, Rerun
  <2>3. step' \in 1..(Len(Steps) + 1)
    BY StepsFacts DEF TypeOK, Rerun
  <2>4. line' \in 1..(Len(request'.overlay) + 1)
    BY RequestTypes DEF TypeOK, Rerun
  <2>5. tree' \in Tree
    BY EmptyTree DEF TypeOK, Rerun
  <2> QED
    BY <2>1, <2>2, <2>3, <2>4, <2>5 DEF TypeOK, Rerun
<1>2. StepsInv'
  <2>1. CASE Validate \in jobs
    <3>1. /\ step' = 1 /\ line' = 1 /\ tree' = <<>>
      BY <2>1 DEF Rerun
    <3>2. \A s : ~Past(s)'
      BY <3>1 DEF Past
    <3> QED
      BY <3>1, <3>2 DEF StepsInv
  <2>2. CASE Validate \notin jobs
    BY <2>2, StepsStay DEF Rerun
  <2> QED
    BY <2>1, <2>2
<1>3. JobsInv'
  <2>1. \A k \in Job : job'[k] = IF k \in jobs THEN "queued" ELSE job[k]
    BY DEF Rerun
  <2>2. \A k : Wanted(k)' <=> Wanted(k)
    BY DEF Wanted, Rerun
  <2>3. \A k \in jobs : Wanted(k)
    BY DEF Rerunnable
  <2>4. step' = IF Validate \in jobs THEN 1 ELSE step
    BY DEF Rerun
  <2>5. runner' = runner
    BY DEF Rerun
  <2> QED
    BY <1>0, <2>1, <2>2, <2>3, <2>4, <2>5 DEF JobsInv
<1> QED
  BY <1>1, <1>2, <1>3

----------------------------------------------------------------------------
\* Steps of "validate" that leave the tree and the line alone.

LEMMA StepPassed ==
  ASSUME IInv, NEW t, At(t), step' = step + 1,
         UNCHANGED <<request, runner, job, line, tree, attempt>>,
         t \in Looking /\ Applies(t) => Accepts(t),
         t = "framework" => request.mode # "runner",
         t = "overlay" /\ request.mode = "runner" =>
           line = Len(request.overlay) + 1
  PROVE  IInv'
<1> USE DEF IInv
<1>1. TypeOK'
  BY StepOn DEF TypeOK
<1>2. StepsInv'
  <2>1. \A s : Past(s)' <=> (Past(s) \/ s = t)
    BY StepOn DEF TypeOK
  <2>2. t = "framework" => tree = <<>> /\ line = 1
    BY StepOrder DEF TypeOK, StepsInv
  <2>3. \A s \in Looking : Past(s)' /\ Applies(s)' => Accepts(s)'
    BY <2>1, SameRun DEF StepsInv
  <2>4. \A i \in 1..(line' - 1) :
          request'.overlay[i] # <<>> => Acceptable(request.overlay[i])'
    BY SameRun DEF StepsInv
  <2>5. ~Past("framework")' => tree' = <<>> /\ line' = 1
    BY <2>1 DEF StepsInv
  <2>6. Past("framework")' =>
          tree' = IF request'.mode = "runner" THEN Partial(line)' ELSE <<>>
    BY <2>1, <2>2, SameRun DEF StepsInv
  <2>7. Past("overlay")' /\ request'.mode = "runner" =>
          line' = Len(request'.overlay) + 1
    BY <2>1 DEF StepsInv
  <2> QED
    BY <2>3, <2>4, <2>5, <2>6, <2>7 DEF StepsInv
<1>3. JobsInv'
  BY JobsStay DEF At
<1> QED
  BY <1>1, <1>2, <1>3

LEMMA SkipStepStep ==
  ASSUME IInv, SkipStep
  PROVE  IInv'
<1>1. PICK s : At(s) /\ ~Applies(s)
  BY DEF SkipStep
<1>2. s \in {"framework", "overlay"} => request.mode # "runner"
  BY <1>1 DEF Applies
<1> QED
  BY <1>1, <1>2, StepPassed DEF SkipStep

LEMMA PassStepStep ==
  ASSUME IInv, PassStep
  PROVE  IInv'
<1>1. PICK s \in Looking : At(s) /\ Applies(s) /\ Accepts(s)
  BY DEF PassStep
<1>2. s # "framework" /\ s # "overlay"
  BY DEF Looking
<1> QED
  BY <1>1, <1>2, StepPassed DEF PassStep

LEMMA EndOverlayStep ==
  ASSUME IInv, EndOverlay
  PROVE  IInv'
<1>1. line = Len(request.overlay) + 1
  BY RequestTypes DEF EndOverlay, IInv, TypeOK
<1>2. "overlay" \notin Looking
  BY DEF Looking
<1> QED
  BY <1>1, <1>2, StepPassed DEF EndOverlay

----------------------------------------------------------------------------
\* The framework and the overlay

Before(p, n) == {i \in Bringing(p) : i < n}

Last(S) == CHOOSE i \in S : \A k \in S : k <= i

LEMMA PartialIs ==
  \A n : Partial(n) =
    [p \in DOMAIN runner.framework \cup {q \in Place : Before(q, n) # {}} |->
       IF Before(p, n) = {} THEN runner.framework[p]
       ELSE runner.data[From(request.overlay[Last(Before(p, n))])][p[2]]]
BY DEF Partial, Before, Last

\* Partial and Assembly are told by the lines that bring a file.
LEMMA BroughtBySame ==
  ASSUME NEW n, NEW m, \A p : Before(p, n) = Before(p, m)
  PROVE  Partial(n) = Partial(m)
<1>1. DOMAIN Partial(n) = DOMAIN Partial(m)
  BY PartialIs
<1>2. \A p \in DOMAIN Partial(n) : Partial(n)[p] = Partial(m)[p]
  BY PartialIs
<1>3. /\ Partial(n) = [p \in DOMAIN Partial(n) |-> Partial(n)[p]]
      /\ Partial(m) = [p \in DOMAIN Partial(m) |-> Partial(m)[p]]
  BY PartialIs
<1> QED
  BY <1>1, <1>2, <1>3

LEMMA LastIs ==
  ASSUME NEW S, NEW n \in S, \A k \in S : k <= n, S \subseteq Nat
  PROVE  Last(S) = n
<1>1. \A i \in S : (\A k \in S : k <= i) => i = n
  OBVIOUS
<1> QED
  BY <1>1 DEF Last

\* Before the first line there is the framework.
LEMMA NothingBrought ==
  ASSUME runner \in Runners
  PROVE  Partial(1) = runner.framework
<1>1. \A p : Before(p, 1) = {}
  BY DEF Before, Bringing
<1>2. runner.framework \in Tree
  BY RunnerTypes
<1>3. runner.framework = [p \in DOMAIN runner.framework |-> runner.framework[p]]
  BY <1>2, TreeIsFunction
<1> QED
  BY <1>1, <1>3, PartialIs

\* A line without content brings nothing.
LEMMA BlankBringsNothing ==
  ASSUME NEW n \in Nat, request.overlay[n] = <<>>
  PROVE  Partial(n + 1) = Partial(n)
<1>1. \A p : Before(p, n + 1) = Before(p, n)
  BY DEF Before, Bringing
<1> QED
  BY <1>1, BroughtBySame

\* Copying what a line brings over the lines before it gives the lines up to
\* it: the loop of the overlay step in one equation.
LEMMA CopyOneLine ==
  ASSUME request \in Requests, runner \in Runners,
         NEW n \in 1..Len(request.overlay),
         request.overlay[n] # <<>>, Acceptable(request.overlay[n])
  PROVE  Copy(Partial(n), runner.data[From(request.overlay[n])],
              To(request.overlay[n])) = Partial(n + 1)
<1> DEFINE l == request.overlay[n]
           files == runner.data[From(l)]
           brought == {To(l)} \X DOMAIN files
           new == Partial(n + 1)
           old == Partial(n)
<1>1. /\ From(l) \in DOMAIN runner.data
      /\ files \in Files /\ To(l) \in Directory
  BY AcceptableLine
<1>2. brought \subseteq Place
  BY <1>1 DEF Files, Place
<1>3. \A p \in Place : p \in brought <=> p[1] = To(l) /\ p[2] \in DOMAIN files
  BY DEF Place
<1>4. \A p \in Place : n \in Bringing(p) <=> p \in brought
  <2> HIDE DEF brought
  <2> QED
    BY <1>1, <1>3 DEF Bringing
<1>5. \A p : Before(p, n + 1) \subseteq Nat /\ Before(p, n) \subseteq Nat
  BY RequestTypes DEF Before, Bringing
<1>6. \A p \in brought : n \in Before(p, n + 1)
  BY <1>2, <1>4 DEF Before
<1>7. \A p \in brought : Last(Before(p, n + 1)) = n
  <2>1. ASSUME NEW p \in brought PROVE Last(Before(p, n + 1)) = n
    <3>1. \A k \in Before(p, n + 1) : k <= n
      BY <1>5 DEF Before
    <3> HIDE DEF brought
    <3> QED
      BY <1>5, <1>6, <3>1, LastIs
  <2> QED
    BY <2>1
<1>8. \A p \in Place \ brought : Before(p, n + 1) = Before(p, n)
  <2> HIDE DEF brought
  <2>1. ASSUME NEW p \in Place \ brought, NEW i \in Bringing(p), i < n + 1
        PROVE  i < n
    <3>1. i # n /\ i \in Nat
      BY <1>4, RequestTypes DEF Bringing
    <3> QED
      BY <2>1, <3>1
  <2>2. \A p : \A i \in Bringing(p) : i < n => i < n + 1
    BY RequestTypes DEF Bringing
  <2> QED
    BY <2>1, <2>2 DEF Before
<1>9. DOMAIN runner.framework \subseteq Place
  BY RunnerTypes, TreeIsFunction
<1> HIDE DEF l, files, brought
<1>10. DOMAIN new = DOMAIN old \cup brought
  <2>1. DOMAIN new = DOMAIN runner.framework
                       \cup {q \in Place : Before(q, n + 1) # {}}
    BY PartialIs
  <2>2. DOMAIN old = DOMAIN runner.framework \cup {q \in Place : Before(q, n) # {}}
    BY PartialIs
  <2>3. \A q \in Place : Before(q, n) # {} => Before(q, n + 1) # {}
    BY RequestTypes DEF Before, Bringing
  <2> HIDE DEF new, old
  <2> QED
    BY <1>2, <1>6, <1>8, <2>1, <2>2, <2>3
<1>11. \A p \in DOMAIN old \cup brought :
         new[p] = IF p[1] = To(l) /\ p[2] \in DOMAIN files
                    THEN files[p[2]] ELSE old[p]
  <2>1. ASSUME NEW p \in brought PROVE new[p] = files[p[2]]
    <3>1. p \in DOMAIN new
      BY <1>10
    <3>2. new[p] = IF Before(p, n + 1) = {} THEN runner.framework[p]
            ELSE runner.data[From(request.overlay[Last(Before(p, n + 1))])][p[2]]
      BY <3>1, PartialIs
    <3> QED
      BY <1>6, <1>7, <3>2 DEF files, l
  <2>2. ASSUME NEW p \in DOMAIN old, p \notin brought PROVE new[p] = old[p]
    <3>1. p \in DOMAIN new
      BY <1>10
    <3>2. new[p] = IF Before(p, n + 1) = {} THEN runner.framework[p]
            ELSE runner.data[From(request.overlay[Last(Before(p, n + 1))])][p[2]]
      BY <3>1, PartialIs
    <3>3. old[p] = IF Before(p, n) = {} THEN runner.framework[p]
            ELSE runner.data[From(request.overlay[Last(Before(p, n))])][p[2]]
      BY PartialIs
    <3>4. p \in Place
      BY <1>9, PartialIs
    <3> QED
      BY <1>8, <2>2, <3>2, <3>3, <3>4
  <2>3. DOMAIN old \subseteq Place
    BY <1>9, PartialIs
  <2> HIDE DEF new, old
  <2> QED
    BY <1>2, <1>3, <2>1, <2>2, <2>3
<1>12. new = [p \in DOMAIN new |-> new[p]]
  BY PartialIs
<1> HIDE DEF new, old
<1>13. Copy(old, files, To(l)) = new
  BY <1>10, <1>11, <1>12 DEF Copy, brought
<1> QED
  BY <1>13 DEF new, old, files, l

\* All lines before the end are all lines.
LEMMA AllBrought ==
  ASSUME request \in Requests
  PROVE  Partial(Len(request.overlay) + 1) = Assembly
<1>1. \A p : Before(p, Len(request.overlay) + 1) = Bringing(p)
  BY RequestTypes DEF Before, Bringing
<1> DEFINE all == Partial(Len(request.overlay) + 1)
           places == DOMAIN runner.framework \cup {q \in Place : Bringing(q) # {}}
<1>2. DOMAIN all = places
  <2>1. DOMAIN all =
          DOMAIN runner.framework
            \cup {q \in Place : Before(q, Len(request.overlay) + 1) # {}}
    BY PartialIs
  <2> HIDE DEF all
  <2> QED
    BY <1>1, <2>1
<1>3. \A p \in places :
        all[p] = IF Bringing(p) = {} THEN runner.framework[p]
                 ELSE runner.data[From(request.overlay[Last(Bringing(p))])][p[2]]
  BY <1>1, PartialIs
<1>4. all = [p \in DOMAIN all |-> all[p]]
  BY PartialIs
<1>5. Assembly = [p \in places |->
        IF Bringing(p) = {} THEN runner.framework[p]
        ELSE runner.data[From(request.overlay[Last(Bringing(p))])][p[2]]]
  BY DEF Assembly, Last
<1> HIDE DEF all, places
<1>6. all = Assembly
  BY <1>2, <1>3, <1>4, <1>5
<1> QED
  BY <1>6 DEF all

----------------------------------------------------------------------------
\* The actions of these two steps

LEMMA CheckOutFrameworkStep ==
  ASSUME IInv, CheckOutFramework
  PROVE  IInv'
<1> USE DEF IInv, CheckOutFramework
<1>1. TypeOK'
  BY StepOn, RunnerTypes DEF TypeOK
<1>2. StepsInv'
  <2>1. \A s : Past(s)' <=> (Past(s) \/ s = "framework")
    BY StepOn DEF TypeOK
  <2>2. ~Past("framework") /\ ~Past("overlay") /\ ~Past("ci") /\ line = 1
    BY StepOrder DEF TypeOK, StepsInv
  <2>3. request.mode = "runner"
    BY DEF Applies
  <2>4. tree' = Partial(1)
    BY NothingBrought DEF TypeOK
  <2>5. \A s \in Looking : Past(s)' /\ Applies(s)' => Accepts(s)'
    <3>1. "framework" \notin Looking
      BY DEF Looking
    <3> QED
      BY <2>1, <2>2, <3>1, SameRun DEF StepsInv
  <2>6. \A i \in 1..(line' - 1) :
          request'.overlay[i] # <<>> => Acceptable(request.overlay[i])'
    BY <2>2
  <2> QED
    BY <2>1, <2>2, <2>3, <2>4, <2>5, <2>6, SameRun DEF StepsInv
<1>3. JobsInv'
  BY JobsStay DEF At
<1> QED
  BY <1>1, <1>2, <1>3

\* A line of the overlay that is done with.
LEMMA LineDone ==
  ASSUME IInv, AtLine, line' = line + 1,
         UNCHANGED <<request, runner, job, step, attempt>>,
         ThisLine # <<>> => Acceptable(ThisLine),
         tree' \in Tree, tree' = Partial(line + 1)
  PROVE  IInv'
<1> USE DEF IInv
<1>0. line \in Nat /\ request.mode = "runner" /\ line <= Len(request.overlay)
  BY DEF AtLine, Applies, TypeOK
<1>1. TypeOK'
  BY <1>0, RequestTypes DEF TypeOK
<1>2. StepsInv'
  <2>1. \A s : Past(s)' <=> Past(s)
    BY DEF Past
  <2>2. Past("framework") /\ ~Past("ci") /\ ~Past("overlay")
    BY StepOrder DEF AtLine, TypeOK
  <2>3. \A s \in Looking : Past(s)' /\ Applies(s)' => Accepts(s)'
    BY <2>1, <2>2, SameRun DEF StepsInv
  <2>4. \A i \in 1..(line' - 1) :
          request'.overlay[i] # <<>> => Acceptable(request.overlay[i])'
    <3>1. \A i \in 1..line : i \in 1..(line - 1) \/ i = line
      BY <1>0
    <3>2. \A i \in 1..line :
            request.overlay[i] # <<>> => Acceptable(request.overlay[i])
      BY <3>1 DEF StepsInv, ThisLine
    <3>3. 1..(line' - 1) = 1..line
      BY <1>0
    <3> QED
      BY <3>2, <3>3, SameRun
  <2> QED
    BY <1>0, <2>1, <2>2, <2>3, <2>4, SameRun DEF StepsInv
<1>3. JobsInv'
  BY JobsStay DEF AtLine, At
<1> QED
  BY <1>1, <1>2, <1>3

\* At a line, the tree is the framework with the lines before it over it.
LEMMA TreeAtLine ==
  ASSUME IInv, AtLine
  PROVE  /\ tree = Partial(line) /\ tree \in Tree
         /\ line \in 1..Len(request.overlay)
         /\ request \in Requests /\ runner \in Runners
<1>1. request.mode = "runner" /\ Past("framework")
  BY StepOrder DEF IInv, TypeOK, AtLine, Applies
<1> QED
  BY <1>1, RequestTypes DEF IInv, TypeOK, StepsInv, AtLine

LEMMA BlankLineStep ==
  ASSUME IInv, BlankLine
  PROVE  IInv'
<1>1. AtLine /\ tree' = tree /\ ThisLine = <<>>
  BY DEF BlankLine
<1>2. Partial(line + 1) = Partial(line)
  BY <1>1, TreeAtLine, BlankBringsNothing DEF ThisLine
<1> QED
  BY <1>1, <1>2, TreeAtLine, LineDone DEF BlankLine

LEMMA CopyLineStep ==
  ASSUME IInv, CopyLine
  PROVE  IInv'
<1>1. AtLine /\ ThisLine # <<>> /\ Acceptable(ThisLine)
  BY DEF CopyLine
<1>2. tree' = Partial(line + 1)
  BY <1>1, TreeAtLine, CopyOneLine DEF CopyLine, ThisLine
<1>3. tree' \in Tree
  BY <1>1, TreeAtLine, AcceptableLine, CopyTree DEF CopyLine
<1> QED
  BY <1>1, <1>2, <1>3, LineDone DEF CopyLine

LEMMA InitInv == Init => IInv
<1> SUFFICES ASSUME Init PROVE IInv
  OBVIOUS
<1> USE DEF Init
<1>1. TypeOK
  BY StepsFacts, RequestTypes, EmptyTree, AttemptsAssumption DEF TypeOK
<1>2. \A s : ~Past(s)
  BY DEF Past
<1>3. StepsInv
  BY <1>2 DEF StepsInv
<1>4. JobsInv
  BY JobsAssumption DEF JobsInv, Job, Wanted
<1> QED
  BY <1>1, <1>3, <1>4 DEF IInv

LEMMA StutterStep ==
  ASSUME IInv, UNCHANGED vars
  PROVE  IInv'
<1> USE DEF IInv, vars
<1>1. TypeOK'
  BY DEF TypeOK
<1>2. StepsInv'
  BY StepsStay
<1>3. JobsInv'
  BY DEF JobsInv, Wanted
<1> QED
  BY <1>1, <1>2, <1>3

LEMMA NextStep == IInv /\ [Next]_vars => IInv'
<1> SUFFICES ASSUME IInv, [Next]_vars PROVE IInv'
  OBVIOUS
<1>0. Validate \in Job /\ LintJob \subseteq Job
  BY DEF Job
<1>1. ASSUME NEW j \in Job, StartJob(j) PROVE IInv'
  BY <1>1, StartJobStep
<1>2. ASSUME NEW j \in Job, Break(j) PROVE IInv'
  BY <1>2, FailureStep DEF Break
<1>3. ASSUME NEW j \in LintJob, LintJobEnds(j) PROVE IInv'
  BY <1>3, LintJobEndsStep
<1>4. ASSUME NEW jobs \in SUBSET Job, Rerunnable(jobs) /\ Rerun(jobs) PROVE IInv'
  BY <1>4, RerunStep
<1>5. CASE SkipStep
  BY <1>5, SkipStepStep
<1>6. CASE PassStep
  BY <1>6, PassStepStep
<1>7. CASE FailStep
  BY <1>0, <1>7, FailureStep DEF FailStep
<1>8. CASE CheckOutFramework
  BY <1>8, CheckOutFrameworkStep
<1>9. CASE BlankLine
  BY <1>9, BlankLineStep
<1>10. CASE BadLine
  BY <1>0, <1>10, FailureStep DEF BadLine
<1>11. CASE CopyLine
  BY <1>11, CopyLineStep
<1>12. CASE EndOverlay
  BY <1>12, EndOverlayStep
<1>13. CASE Succeed
  BY <1>13, SucceedStep
<1>14. CASE UNCHANGED vars
  BY <1>14, StutterStep
<1> QED
  BY <1>1, <1>2, <1>3, <1>4, <1>5, <1>6, <1>7, <1>8, <1>9, <1>10, <1>11,
     <1>12, <1>13, <1>14 DEF Next

----------------------------------------------------------------------------
(***************************************************************************)
(* The theorems                                                            *)
(***************************************************************************)

\* IInv: the tree is what the lines so far make of the framework, every step
\* that is past has accepted, and what the jobs say is so.
THEOREM InductiveInvariant == Spec => []IInv
<1>1. Init => IInv
  BY InitInv
<1>2. IInv /\ [Next]_vars => IInv'
  BY NextStep
<1> QED
  BY <1>1, <1>2, PTL DEF Spec

\* The state of a workflow run is well typed.
THEOREM TypeCorrect == Spec => []TypeOK
<1>1. IInv => TypeOK
  BY DEF IInv
<1> QED
  BY <1>1, InductiveInvariant, PTL

\* "make ci" runs on the framework with every line of overlay_paths applied in
\* order, and on nothing an earlier attempt or a refused line has left.
THEOREM GatesSeeTheOverlay == Spec => []CIRunsOnAssembly
<1>1. IInv => CIRunsOnAssembly
  <2> SUFFICES ASSUME IInv, At("ci"), Applies("ci")
               PROVE  AllAcceptable /\ tree = Assembly
    BY DEF CIRunsOnAssembly
  <2>1. request.mode = "runner"
    BY DEF Applies
  <2>2. /\ Past("framework")
        /\ line = Len(request.overlay) + 1
    BY <2>1, StepOrder DEF IInv, TypeOK, StepsInv
  <2>3. tree = Partial(line)
    BY <2>1, <2>2 DEF IInv, StepsInv
  <2>4. tree = Assembly
    BY <2>2, <2>3, AllBrought DEF IInv, TypeOK
  <2>5. AllAcceptable
    BY <2>2, RequestTypes DEF IInv, TypeOK, StepsInv, AllAcceptable
  <2> QED
    BY <2>4, <2>5
<1> QED
  BY <1>1, InductiveInvariant, PTL

\* Outside of the allowed directories the framework is as released, at every
\* moment of every attempt.
THEOREM FrameworkUntouched == Spec => []FrameworkKept
<1>1. IInv => FrameworkKept
  <2> SUFFICES ASSUME IInv, tree # <<>>, NEW p \in Place, p[1] \notin Allowed
               PROVE  /\ p \in DOMAIN tree <=> p \in DOMAIN runner.framework
                      /\ p \in DOMAIN tree => tree[p] = runner.framework[p]
    BY DEF FrameworkKept
  <2>1. tree = Partial(line)
    BY DEF IInv, StepsInv
  <2>2. Before(p, line) = {}
    <3>1. SUFFICES ASSUME NEW i \in Bringing(p), i < line PROVE FALSE
      BY DEF Before
    <3>2. i \in 1..(line - 1) /\ request.overlay[i] # <<>>
      BY <3>1, RequestTypes DEF Bringing, IInv, TypeOK
    <3>3. Acceptable(request.overlay[i])
      BY <3>2 DEF IInv, StepsInv
    <3>4. To(request.overlay[i]) = p[1]
      BY DEF Bringing
    <3> QED
      BY <3>3, <3>4 DEF Acceptable
  <2> QED
    BY <2>1, <2>2, PartialIs
<1> QED
  BY <1>1, InductiveInvariant, PTL

\* A green run is valid, whatever was re-run.
THEOREM GreenIsValid == Spec => []GreenMeansValid
<1>1. IInv => GreenMeansValid
  <2> SUFFICES ASSUME IInv, Green PROVE Valid
    BY DEF GreenMeansValid
  <2>1. Validate \in Job /\ Validate \notin LintJob /\ LintJob \subseteq Job
    BY JobsAssumption DEF Job
  <2>2. job[Validate] = "success"
    <3>1. job[Validate] \notin {"queued", "running", "failure"}
      BY <2>1 DEF Green, Concluded, Tolerated
    <3>2. job[Validate] # "skipped"
      BY <2>1 DEF IInv, JobsInv, Wanted
    <3> QED
      BY <2>1, <3>1, <3>2 DEF IInv, TypeOK
  <2>3. step = Len(Steps) + 1
    BY <2>2 DEF IInv, JobsInv
  <2>4. /\ \A s \in Looking : Applies(s) => Accepts(s)
        /\ Past("framework") /\ Past("overlay")
    BY <2>3, StepOrder DEF IInv, TypeOK, StepsInv
  <2>5. request.mode \in {"runner", "contract-and-lint"} /\ request.templatePinned
    BY <2>4 DEF Looking, Applies, Accepts
  <2>6. request.contract => runner.contract /\ runner.callers
    BY <2>4 DEF Looking, Applies, Accepts
  <2>7. ASSUME request.mode = "runner"
        PROVE  /\ request.framework /\ request.frameworkPinned
               /\ request.overlay # <<>> /\ AllAcceptable
               /\ Assembly \in runner.passing
    <3>1. RunnerInputs /\ tree \in runner.passing
      BY <2>4, <2>7 DEF Looking, Applies, Accepts
    <3>2. line = Len(request.overlay) + 1
      BY <2>4, <2>7 DEF IInv, StepsInv
    <3>3. tree = Assembly
      BY <2>4, <2>7, <3>2, AllBrought DEF IInv, TypeOK, StepsInv
    <3>4. AllAcceptable
      BY <3>2, RequestTypes DEF IInv, TypeOK, StepsInv, AllAcceptable
    <3> QED
      BY <3>1, <3>3, <3>4 DEF RunnerInputs
  <2>8. request.lint /\ ~request.advisory => LintJob \subseteq runner.linted
    <3> SUFFICES ASSUME request.lint, ~request.advisory, NEW j \in LintJob
                 PROVE  j \in runner.linted
      OBVIOUS
    <3>1. job[j] \notin {"queued", "running", "failure", "skipped"}
      BY <2>1 DEF Green, Concluded, Tolerated, IInv, JobsInv, Wanted
    <3>2. job[j] = "success"
      BY <2>1, <3>1 DEF IInv, TypeOK
    <3> QED
      BY <3>2 DEF IInv, JobsInv
  <2> QED
    BY <2>5, <2>6, <2>7, <2>8 DEF Valid
<1> QED
  BY <1>1, InductiveInvariant, PTL
=============================================================================
