------------------------ MODULE TemplateDriftProofs -------------------------
(***************************************************************************)
(* TemplateDrift: drift is reported, and a required check freezes the      *)
(* shared content, for any number of files, versions and pushes.           *)
(***************************************************************************)
EXTENDS TemplateDrift, TLAPS

\* Applying edits to a tree gives a tree.
LEMMA PatchedType ==
  ASSUME NEW tree \in Tree, NEW edits \in Edits \cup {NoEdits}
  PROVE  Patched(tree, edits) \in Tree
<1>1. \A f \in DOMAIN edits : edits[f] \in Version
  <2>1. CASE edits = NoEdits
    BY <2>1 DEF NoEdits
  <2>2. CASE edits \in Edits
    <3>1. PICK S \in (SUBSET File) \ {{}} : edits \in [S -> Version]
      BY <2>2 DEF Edits
    <3> QED
      BY <3>1
  <2> QED
    BY <2>1, <2>2
<1> QED
  BY <1>1 DEF Patched, Tree

\* A new run is a run, and so is none at all.
LEMMA NewRunType ==
  ASSUME NEW tree \in Tree
  PROVE  NewRun(tree) \in Run /\ NoRun(tree) \in Run
BY DEF NewRun, NoRun, Run, Conclusion

\* The templates are two, and each is the other's sibling.
LEMMA Siblings ==
  \A t \in Template : Other(t) \in Template /\ Other(t) # t /\ Other(Other(t)) = t
BY TemplatesAssumption DEF Template, Other

\* The indices of the loop are those of files.
LEMMA FileAt ==
  \A i \in 1..Len(SharedFiles) : SharedFiles[i] \in File
BY FilesAssumption

\* What a merge does to the runs.
LEMMA MergeRun ==
  ASSUME NEW t \in Template, Merge(t), run \in [Group -> Run]
  PROVE  run' = [g \in Group |->
                   IF g = <<t, "main">> THEN NewRun(Patched(main[t], pr[t]))
                   ELSE IF g = <<t, "pr">> THEN NoRun(run[g].tree)
                   ELSE run[g]]
<1> DEFINE a == <<t, "main">>
           b == <<t, "pr">>
           x == NewRun(Patched(main[t], pr[t]))
           y == NoRun(run[b].tree)
<1>1. a \in Group /\ b \in Group /\ a # b
  BY DEF Group
<1>2. run' = [run EXCEPT ![a] = x, ![b] = NoRun(@.tree)]
  BY DEF Merge
<1> HIDE DEF a, b, x
<1>3. run' = [[run EXCEPT ![a] = x] EXCEPT ![b] = y]
  BY <1>1, <1>2
<1> HIDE DEF y
<1>4. run' = [g \in Group |-> IF g = a THEN x ELSE IF g = b THEN y ELSE run[g]]
  BY <1>1, <1>3
<1> QED
  BY <1>4 DEF a, b, x, y

\* What a step of a run does to it, and that it leaves the others alone.
LEMMA StepRun ==
  ASSUME NEW g \in Group, Step(g), run \in [Group -> Run]
  PROVE  /\ run' = [run EXCEPT ![g] = run'[g]]
         /\ run'[g] \in Run
         /\ run'[g].tree = run[g].tree
         /\ run[g].conclusion = "running"
         /\ \/ /\ run'[g].conclusion = "running"
               /\ run[g].next \in 1..Len(SharedFiles)
               /\ run'[g].next = run[g].next + 1
               /\ run'[g].failures =
                    IF Differs(run[g].tree, g[1], SharedFiles[run[g].next])
                      THEN run[g].failures \cup {SharedFiles[run[g].next]}
                      ELSE run[g].failures
            \/ run'[g].conclusion \in {"error", "crash"}
            \/ /\ run[g].next > Len(SharedFiles)
               /\ run'[g].next = run[g].next
               /\ run'[g].failures = run[g].failures
               /\ run'[g].conclusion =
                    IF run[g].failures = {} THEN "clean" ELSE "drift"
<1> DEFINE r == run[g]
<1>1. r \in Run /\ \A x : [run EXCEPT ![g] = x][g] = x
  OBVIOUS
<1>2. CASE DiffFiles(g)
  <2> DEFINE f == SharedFiles[r.next]
             fs == IF Differs(r.tree, g[1], f) THEN r.failures \cup {f}
                     ELSE r.failures
             s == [r EXCEPT !.next = r.next + 1, !.failures = fs]
  <2>1. r.next \in 1..Len(SharedFiles) /\ r.conclusion = "running"
    BY <1>1, <1>2, FilesAssumption DEF DiffFiles, InLoop, Run
  <2>2. f \in File
    BY <2>1, FileAt
  <2>3. run' = [run EXCEPT ![g] = s]
    BY <1>2 DEF DiffFiles
  <2>4. fs \in SUBSET File
    BY <1>1, <2>2 DEF Run
  <2> HIDE DEF fs
  <2>5. /\ s \in Run /\ s.tree = r.tree /\ s.conclusion = "running"
        /\ s.next = r.next + 1 /\ s.failures = fs
    <3>1. r.next + 1 \in Nat \ {0} /\ r \in Run
      BY <1>1, <2>1
    <3> DEFINE n == r.next + 1
    <3>2. n \in Nat \ {0} /\ s = [r EXCEPT !.next = n, !.failures = fs]
      BY <3>1
    <3> HIDE DEF s, n, r
    <3>3. /\ s \in Run /\ s.tree = r.tree /\ s.conclusion = r.conclusion
          /\ s.next = n /\ s.failures = fs
      BY <2>4, <3>1, <3>2 DEF Run
    <3> QED
      BY <2>1, <3>3 DEF n
  <2> HIDE DEF s
  <2>6. run'[g] = s
    BY <1>1, <2>3
  <2>7. run' = [run EXCEPT ![g] = run'[g]]
    BY <2>3, <2>6
  <2>8. /\ run'[g].conclusion = "running"
        /\ run'[g].next = run[g].next + 1
        /\ run'[g].failures = fs
    BY <2>5, <2>6
  <2>9. run'[g] \in Run /\ run'[g].tree = run[g].tree
    BY <2>5, <2>6
  <2>10. run'[g].failures =
           IF Differs(run[g].tree, g[1], SharedFiles[run[g].next])
             THEN run[g].failures \cup {SharedFiles[run[g].next]}
             ELSE run[g].failures
    BY <2>8 DEF fs
  <2> QED
    BY <2>1, <2>7, <2>8, <2>9, <2>10
<1>3. CASE FetchError(g) \/ BadPayload(g)
  <2>1. PICK c \in {"error", "crash"} :
          run' = [run EXCEPT ![g] = [r EXCEPT !.conclusion = c]]
    BY <1>3 DEF FetchError, BadPayload
  <2> DEFINE s == [r EXCEPT !.conclusion = c]
  <2>2. s \in Run /\ s.tree = r.tree /\ s.conclusion = c
    BY <1>1 DEF Run, Conclusion
  <2>3. r.conclusion = "running"
    BY <1>3 DEF FetchError, BadPayload, InLoop
  <2>4. run' = [run EXCEPT ![g] = s]
    BY <2>1
  <2> HIDE DEF s
  <2>5. run'[g] = s /\ run' = [run EXCEPT ![g] = run'[g]]
    BY <1>1, <2>4
  <2> QED
    BY <2>2, <2>3, <2>5
<1>4. CASE Conclude(g)
  <2> DEFINE c == IF r.failures = {} THEN "clean" ELSE "drift"
             s == [r EXCEPT !.conclusion = c]
  <2>1. run' = [run EXCEPT ![g] = s]
    BY <1>4 DEF Conclude
  <2>2. /\ s \in Run /\ s.tree = r.tree /\ s.conclusion = c
        /\ s.next = r.next /\ s.failures = r.failures
    BY <1>1 DEF Run, Conclusion
  <2>3. r.conclusion = "running" /\ r.next > Len(SharedFiles)
    BY <1>4 DEF Conclude
  <2> HIDE DEF s
  <2> QED
    BY <1>1, <2>1, <2>2, <2>3
<1> QED
  BY <1>2, <1>3, <1>4 DEF Step

----------------------------------------------------------------------------
\* Types

\* The start is well-typed.
LEMMA TypeInit == Init => TypeOK
<1> SUFFICES ASSUME Init PROVE TypeOK
  OBVIOUS
<1>1. main \in [Template -> Tree] /\ \A g \in Group : main[g[1]] \in Tree
  BY SeedAssumption DEF Init, Group
<1>2. run \in [Group -> Run]
  BY <1>1, NewRunType DEF Init
<1> QED
  BY <1>1, <1>2, PushesAssumption DEF Init, TypeOK

\* Each step of the system keeps the types.
LEMMA TypeNext == TypeOK /\ [Next]_vars => TypeOK'
<1> SUFFICES ASSUME TypeOK, [Next]_vars PROVE TypeOK'
  OBVIOUS
<1>g. \A t \in Template : <<t, "pr">> \in Group /\ <<t, "main">> \in Group
  BY DEF Group
<1>1. ASSUME NEW t \in Template, NEW edits \in Edits, PushToPR(t, edits)
      PROVE  TypeOK'
  <2>1. NewRun(Patched(main[t], edits)) \in Run
    BY PatchedType, NewRunType DEF TypeOK
  <2>2. run' \in [Group -> Run]
    BY <1>1, <1>g, <2>1 DEF PushToPR, TypeOK
  <2>3. pushes' \in 0..MaxPushes
    BY <1>1, PushesAssumption DEF PushToPR, TypeOK
  <2> QED
    BY <1>1, <2>2, <2>3 DEF PushToPR, TypeOK
<1>2. ASSUME NEW t \in Template, Rerun(t)
      PROVE  TypeOK'
  <2>1. run[<<t, "pr">>].tree \in Tree
    BY <1>g DEF TypeOK, Run
  <2> QED
    BY <1>2, <2>1, NewRunType DEF Rerun, TypeOK
<1>3. ASSUME NEW t \in Template, Merge(t)
      PROVE  TypeOK'
  <2>1. Patched(main[t], pr[t]) \in Tree /\ run[<<t, "pr">>].tree \in Tree
    BY <1>g, PatchedType DEF TypeOK, Run
  <2>2. /\ NewRun(Patched(main[t], pr[t])) \in Run
        /\ NoRun(run[<<t, "pr">>].tree) \in Run
    BY <2>1, NewRunType
  <2>3. run' \in [Group -> Run]
    BY <1>3, <1>g, <2>2, MergeRun DEF TypeOK
  <2>4. main' \in [Template -> Tree] /\ pr' \in [Template -> Edits \cup {NoEdits}]
    BY <1>3, <2>1 DEF Merge, TypeOK
  <2> QED
    BY <1>3, <2>3, <2>4 DEF Merge, TypeOK
<1>4. ASSUME NEW g \in Group, Step(g)
      PROVE  TypeOK'
  <2>1. run'[g] \in Run /\ run' = [run EXCEPT ![g] = run'[g]]
    BY <1>4, StepRun DEF TypeOK
  <2>2. UNCHANGED <<required, main, pr, pushes>>
    BY <1>4 DEF Step, DiffFiles, FetchError, BadPayload, Conclude
  <2> DEFINE s == run'[g]
  <2> HIDE DEF s
  <2>3. run' \in [Group -> Run]
    BY <2>1 DEF TypeOK, s
  <2> QED
    BY <2>2, <2>3 DEF TypeOK
<1>5. CASE UNCHANGED vars
  BY <1>5 DEF vars, TypeOK
<1> QED
  BY <1>1, <1>2, <1>3, <1>4, <1>5 DEF Next

\* The trees, pull requests and runs of the check are always well-formed.
THEOREM DriftTypeCorrect == Spec => []TypeOK
BY TypeInit, TypeNext, PTL DEF Spec

----------------------------------------------------------------------------
\* Drift is reported

\* What a pull request's push and re-run leave alone: the runs on main.
LEMMA PRRunOnly ==
  ASSUME TypeOK, NEW t \in Template,
         Rerun(t) \/ \E edits \in Edits : PushToPR(t, edits)
  PROVE  /\ main' = main
         /\ \A u \in Template : run'[<<u, "main">>] = run[<<u, "main">>]
<1>1. \A u \in Template : <<u, "main">> \in Group /\ <<u, "main">> # <<t, "pr">>
  BY DEF Group
<1>2. \E r : run' = [run EXCEPT ![<<t, "pr">>] = r]
  BY DEF Rerun, PushToPR
<1> QED
  BY <1>1, <1>2 DEF Rerun, PushToPR, TypeOK

\* The latest run on main is one of its head.
LEMMA HeadNext == TypeOK /\ RunOnHead /\ [Next]_vars => RunOnHead'
<1> SUFFICES ASSUME TypeOK, RunOnHead, [Next]_vars, NEW u \in Template,
                    run'[<<u, "main">>].conclusion # "absent"
             PROVE  run'[<<u, "main">>].tree = main'[u]
  BY DEF RunOnHead
<1> DEFINE m == <<u, "main">>
<1>m. m \in Group
  BY DEF Group
<1>1. ASSUME NEW t \in Template,
             Rerun(t) \/ \E edits \in Edits : PushToPR(t, edits)
      PROVE  run'[m].tree = main'[u]
  BY <1>1, PRRunOnly DEF RunOnHead
<1>2. ASSUME NEW t \in Template, Merge(t)
      PROVE  run'[m].tree = main'[u]
  <2>1. CASE t = u
    BY <1>2, <1>m, <2>1, MergeRun DEF TypeOK, Merge, NewRun
  <2>2. CASE t # u
    <3>1. m # <<t, "main">> /\ m # <<t, "pr">>
      BY <2>2
    <3> HIDE DEF m
    <3>2. run'[m] = run[m]
      BY <1>2, <1>m, <3>1, MergeRun DEF TypeOK
    <3>3. main'[u] = main[u]
      BY <1>2, <2>2 DEF Merge, TypeOK
    <3> QED
      BY <3>2, <3>3 DEF RunOnHead, m
  <2> QED
    BY <2>1, <2>2
<1>3. ASSUME NEW g \in Group, Step(g)
      PROVE  run'[m].tree = main'[u]
  <2>1. main' = main /\ run'[g].tree = run[g].tree /\ run[g].conclusion = "running"
    BY <1>3, StepRun DEF TypeOK, Step, DiffFiles, FetchError, BadPayload, Conclude
  <2>2. g # m => run'[m] = run[m]
    BY <1>3, <1>m, StepRun DEF TypeOK
  <2> QED
    BY <2>1, <2>2 DEF RunOnHead
<1>4. CASE UNCHANGED vars
  BY <1>4 DEF vars, RunOnHead
<1> QED
  BY <1>1, <1>2, <1>3, <1>4 DEF Next

\* A file that differs and is caught stays caught through a step of a run.
LEMMA StaysCaught ==
  ASSUME TypeOK, RunOnHead, NEW g \in Group, Step(g), NEW t \in Template,
         NEW f \in File, main[Here][f] # main[There][f],
         Catches(<<t, "main">>, f)
  PROVE  Catches(<<t, "main">>, f)'
<1> DEFINE m == <<t, "main">>
<1>m. m \in Group /\ run[m] \in Run
  BY DEF Group, TypeOK
<1>1. CASE g # m
  <2>1. run'[m] = run[m]
    BY <1>1, <1>m, StepRun DEF TypeOK
  <2> QED
    BY <2>1 DEF Catches
<1>2. CASE g = m
  <2>1. /\ run[m].conclusion = "running"
        /\ run[m].tree = main[t] /\ g[1] = t
    BY <1>2, StepRun DEF RunOnHead, TypeOK
  <2>2. \/ run[m].failures # {}
        \/ \E i \in 1..Len(SharedFiles) : i >= run[m].next /\ SharedFiles[i] = f
    BY <2>1 DEF Catches
  <2>3. Differs(run[m].tree, t, f)
    BY <2>1 DEF Differs, Other, Template
  <2>4. CASE run'[m].conclusion \in {"error", "crash"}
    BY <2>4 DEF Catches
  <2>5. CASE /\ run[m].next > Len(SharedFiles)
             /\ run'[m].conclusion =
                  IF run[m].failures = {} THEN "clean" ELSE "drift"
    <3>1. run[m].failures # {}
      <4>1. run[m].next \in Nat /\ Len(SharedFiles) \in Nat
        BY <1>m, FilesAssumption DEF Run
      <4> QED
        BY <2>2, <2>5, <4>1
    <3>2. run'[m].conclusion = "drift"
      BY <2>5, <3>1
    <3> QED
      BY <3>2 DEF Catches
  <2>6. CASE /\ run'[m].conclusion = "running"
             /\ run[m].next \in 1..Len(SharedFiles)
             /\ run'[m].next = run[m].next + 1
             /\ run'[m].failures =
                  IF Differs(run[m].tree, g[1], SharedFiles[run[m].next])
                    THEN run[m].failures \cup {SharedFiles[run[m].next]}
                    ELSE run[m].failures
    <3>1. CASE run[m].failures # {}
      BY <2>6, <3>1 DEF Catches
    <3>2. CASE \E i \in 1..Len(SharedFiles) :
                 i >= run[m].next /\ SharedFiles[i] = f
      <4>1. PICK i \in 1..Len(SharedFiles) :
              i >= run[m].next /\ SharedFiles[i] = f
        BY <3>2
      <4>2. CASE i = run[m].next
        BY <2>1, <2>3, <2>6, <4>1, <4>2 DEF Catches
      <4>3. CASE i # run[m].next
        <5>1. i >= run'[m].next
          BY <1>m, <2>6, <4>1, <4>3 DEF Run
        <5> QED
          BY <2>6, <4>1, <5>1 DEF Catches
      <4> QED
        BY <4>2, <4>3
    <3> QED
      BY <2>2, <3>1, <3>2
  <2> QED
    BY <1>2, <2>4, <2>5, <2>6, StepRun DEF TypeOK
<1> QED
  BY <1>1, <1>2

\* While the mains differ, some run on main catches it.
LEMMA CaughtNext == TypeOK /\ RunOnHead /\ Caught /\ [Next]_vars => Caught'
<1> SUFFICES ASSUME TypeOK, RunOnHead, Caught, [Next]_vars, Drift'
             PROVE  \E t \in Template : \E f \in File :
                      /\ main'[Here][f] # main'[There][f]
                      /\ Catches(<<t, "main">>, f)'
  BY DEF Caught
<1>1. ASSUME NEW t \in Template,
             Rerun(t) \/ \E edits \in Edits : PushToPR(t, edits)
      PROVE  Caught'
  BY <1>1, PRRunOnly DEF Caught, Catches, Drift
<1>2. ASSUME NEW t \in Template, Merge(t)
      PROVE  \E f \in File : /\ main'[Here][f] # main'[There][f]
                             /\ Catches(<<t, "main">>, f)'
  <2>1. main' \in [Template -> Tree]
    BY TypeNext DEF TypeOK
  <2>2. PICK f \in File : main'[Here][f] # main'[There][f]
    BY <2>1 DEF Drift, Tree, Template
  <2>3. run'[<<t, "main">>] = NewRun(main'[t])
    BY <1>2, MergeRun DEF Merge, TypeOK, Group
  <2>4. Catches(<<t, "main">>, f)'
    <3>1. PICK i \in 1..Len(SharedFiles) : SharedFiles[i] = f
      BY FilesAssumption
    <3>2. /\ run'[<<t, "main">>].conclusion = "running"
          /\ run'[<<t, "main">>].next = 1 /\ i >= 1
      BY <2>3 DEF NewRun
    <3> QED
      BY <3>1, <3>2 DEF Catches
  <2> QED
    BY <2>2, <2>4
<1>3. ASSUME NEW g \in Group, Step(g)
      PROVE  Caught'
  <2>1. main' = main
    BY <1>3 DEF Step, DiffFiles, FetchError, BadPayload, Conclude
  <2> QED
    BY <1>3, <2>1, StaysCaught DEF Caught, Drift
<1>4. CASE UNCHANGED vars
  BY <1>4 DEF vars, Caught, Catches, Drift
<1> QED
  BY <1>1, <1>2, <1>3, <1>4 DEF Next, Caught

\* At the start no run is there and nothing differs.
LEMMA CaughtInit == Init => RunOnHead /\ Caught
<1> SUFFICES ASSUME Init PROVE RunOnHead /\ Caught
  OBVIOUS
<1>1. \A t \in Template : run[<<t, "main">>] = NoRun(main[t])
  BY DEF Init, Group
<1>2. \A tree : NoRun(tree).conclusion = "absent"
  BY DEF NoRun, NewRun
<1>3. ~Drift
  BY DEF Init, Drift, Template
<1> QED
  BY <1>1, <1>2, <1>3 DEF RunOnHead, Caught

\* When the runs on main are over and the mains differ, one of them is red.
THEOREM DriftReported == Spec => []DriftIsReported
<1>1. TypeOK /\ Caught => DriftIsReported
  <2> SUFFICES ASSUME TypeOK, Caught, Drift,
                      \A t \in Template : run[<<t, "main">>].conclusion # "running"
               PROVE  \E t \in Template : Reported(t)
    BY DEF DriftIsReported
  <2>1. PICK t \in Template : \E f \in File : Catches(<<t, "main">>, f)
    BY DEF Caught
  <2>2. run[<<t, "main">>].conclusion \in Conclusion \ {"absent", "clean"}
    BY <2>1 DEF Catches, TypeOK, Group, Run
  <2> QED
    BY <2>2 DEF Reported, Red, Conclusion
<1> QED
  BY <1>1, CaughtInit, TypeInit, TypeNext, HeadNext, CaughtNext, PTL DEF Spec

----------------------------------------------------------------------------
\* The required check freezes the shared content

\* Edits that agree with a tree leave it as it is.
LEMMA NoChange ==
  ASSUME NEW tree \in Tree, NEW edits, Patched(tree, edits) \in Tree,
         \A i \in 1..Len(SharedFiles) :
           Patched(tree, edits)[SharedFiles[i]] = tree[SharedFiles[i]]
  PROVE  Patched(tree, edits) = tree
<1>1. \A f \in File : Patched(tree, edits)[f] = tree[f]
  BY FilesAssumption
<1> QED
  BY <1>1 DEF Tree

\* While the check is required and the invariant holds, a merge changes
\* nothing: the run was clean, so the sibling's main has what it would merge.
LEMMA MergeChangesNothing ==
  ASSUME TypeOK, Frozen, required, NEW t \in Template, Merge(t)
  PROVE  main' = main
<1>1. /\ pr[t] # NoEdits /\ run[<<t, "pr">>].conclusion = "clean"
      /\ main' = [main EXCEPT ![t] = Patched(main[t], pr[t])]
  BY DEF Merge
<1>2. Patched(main[t], pr[t]) = main[t]
  <2>1. Patched(main[t], pr[t]) \in Tree /\ main[t] \in Tree
    BY PatchedType DEF TypeOK
  <2>2. /\ run[<<t, "pr">>].tree = Patched(main[t], pr[t])
        /\ run[<<t, "pr">>].failures = {}
        /\ run[<<t, "pr">>].next > Len(SharedFiles)
    BY <1>1 DEF Frozen
  <2>3. \A i \in 1..Len(SharedFiles) : i < run[<<t, "pr">>].next
    BY <2>2, FilesAssumption DEF TypeOK, Group, Run
  <2> QED
    BY <1>1, <2>1, <2>2, <2>3, NoChange DEF Frozen
<1> QED
  BY <1>1, <1>2 DEF TypeOK

\* What Frozen says of one template.
FrozenAt(t) ==
  LET r == run[<<t, "pr">>]
  IN  pr[t] # NoEdits =>
        /\ r.tree = Patched(main[t], pr[t])
        /\ r.conclusion # "absent"
        /\ r.conclusion \in {"running", "clean"} /\ r.failures = {} =>
             \A i \in 1..Len(SharedFiles) :
               i < r.next => r.tree[SharedFiles[i]] = main[t][SharedFiles[i]]
        /\ r.conclusion = "clean" =>
             r.failures = {} /\ r.next > Len(SharedFiles)

\* A step of the run of a pull request compares with equal mains.
LEMMA FrozenStep ==
  ASSUME TypeOK, ~Drift, NEW t \in Template, FrozenAt(t),
         NEW g \in Group, Step(g)
  PROVE  FrozenAt(t)'
<1> DEFINE p == <<t, "pr">>
<1>m. /\ p \in Group /\ run[p] \in Run
      /\ main' = main /\ pr' = pr
  BY DEF Group, TypeOK, Step, DiffFiles, FetchError, BadPayload, Conclude
<1>1. CASE g # p
  <2>1. run'[p] = run[p]
    BY <1>1, <1>m, StepRun DEF TypeOK
  <2> QED
    BY <1>m, <2>1 DEF FrozenAt
<1>2. CASE g = p
  <2> SUFFICES ASSUME pr[t] # NoEdits PROVE FrozenAt(t)'
    BY <1>m DEF FrozenAt
  <2>1. /\ run[p].conclusion = "running" /\ run'[p].tree = run[p].tree
        /\ g[1] = t /\ run[p].next \in Nat /\ Len(SharedFiles) \in Nat
    <3>1. run[p].conclusion = "running" /\ run'[p].tree = run[p].tree
      BY <1>2, StepRun DEF TypeOK
    <3>2. run[p].next \in Nat /\ Len(SharedFiles) \in Nat
      BY <1>m, FilesAssumption DEF Run
    <3> QED
      BY <1>2, <3>1, <3>2
  <2>2. /\ run[p].tree = Patched(main[t], pr[t])
        /\ run[p].failures = {} =>
             \A i \in 1..Len(SharedFiles) :
               i < run[p].next =>
                 run[p].tree[SharedFiles[i]] = main[t][SharedFiles[i]]
    BY <2>1 DEF FrozenAt
  <2>3. main[Other(t)] = main[t]
    BY DEF Drift, Other, Template
  <2>4. CASE run'[p].conclusion \in {"error", "crash"}
    BY <1>m, <2>1, <2>2, <2>4 DEF FrozenAt
  <2>5. CASE /\ run[p].next > Len(SharedFiles)
             /\ run'[p].next = run[p].next
             /\ run'[p].failures = run[p].failures
             /\ run'[p].conclusion =
                  IF run[p].failures = {} THEN "clean" ELSE "drift"
    BY <1>m, <2>1, <2>2, <2>5 DEF FrozenAt
  <2>6. CASE /\ run'[p].conclusion = "running"
             /\ run[p].next \in 1..Len(SharedFiles)
             /\ run'[p].next = run[p].next + 1
             /\ run'[p].failures =
                  IF Differs(run[p].tree, g[1], SharedFiles[run[p].next])
                    THEN run[p].failures \cup {SharedFiles[run[p].next]}
                    ELSE run[p].failures
    <3>1. ASSUME run'[p].failures = {}, NEW i \in 1..Len(SharedFiles),
                 i < run'[p].next
          PROVE  run[p].tree[SharedFiles[i]] = main[t][SharedFiles[i]]
      <4>1. /\ run[p].failures = {}
            /\ ~Differs(run[p].tree, t, SharedFiles[run[p].next])
        BY <2>1, <2>6, <3>1
      <4>2. CASE i = run[p].next
        <5>1. run[p].tree[SharedFiles[i]] = main[Other(t)][SharedFiles[i]]
          BY <4>1, <4>2 DEF Differs
        <5> QED
          BY <2>3, <5>1
      <4>3. CASE i # run[p].next
        <5>1. i < run[p].next
          BY <2>1, <2>6, <3>1, <4>3
        <5> QED
          BY <2>2, <4>1, <5>1
      <4> QED
        BY <4>2, <4>3
    <3> QED
      BY <1>m, <2>1, <2>2, <2>6, <3>1 DEF FrozenAt
  <2> QED
    BY <1>2, <2>4, <2>5, <2>6, StepRun DEF TypeOK
<1> QED
  BY <1>1, <1>2

\* Each step keeps Frozen.
LEMMA FrozenNext == TypeOK /\ Frozen /\ [Next]_vars => Frozen'
<1> SUFFICES ASSUME TypeOK, Frozen, [Next]_vars, required'
             PROVE  ~Drift' /\ \A u \in Template : FrozenAt(u)'
  BY DEF Frozen, FrozenAt
<1>r. required
  BY DEF Next, PushToPR, Rerun, Merge, Step, DiffFiles, FetchError, BadPayload,
         Conclude, vars
<1>f. ~Drift /\ \A u \in Template : FrozenAt(u)
  BY <1>r DEF Frozen, FrozenAt
<1>o. \A t, u \in Template : /\ <<u, "pr">> \in Group
                             /\ u # t => <<u, "pr">> # <<t, "pr">>
                             /\ <<u, "pr">> # <<t, "main">>
  BY DEF Group
<1>k. ASSUME NEW u \in Template, main'[u] = main[u], pr'[u] = pr[u],
             run'[<<u, "pr">>] = run[<<u, "pr">>]
      PROVE  FrozenAt(u)'
  BY <1>f, <1>k DEF FrozenAt
<1>n. ASSUME NEW u \in Template, NEW tree,
             run'[<<u, "pr">>] = NewRun(tree),
             pr'[u] # NoEdits => tree = Patched(main'[u], pr'[u])
      PROVE  FrozenAt(u)'
  BY <1>n DEF FrozenAt, NewRun
<1>1. ASSUME NEW t \in Template, NEW edits \in Edits, PushToPR(t, edits)
      PROVE  ~Drift' /\ \A u \in Template : FrozenAt(u)'
  <2>1. main' = main /\ pr'[t] = edits
    BY <1>1 DEF PushToPR, TypeOK
  <2>2. run'[<<t, "pr">>] = NewRun(Patched(main[t], edits))
    BY <1>1, <1>o DEF PushToPR, TypeOK
  <2>3. ASSUME NEW u \in Template, u # t
        PROVE  FrozenAt(u)'
    <3>1. pr'[u] = pr[u] /\ run'[<<u, "pr">>] = run[<<u, "pr">>]
      BY <1>1, <1>o, <2>3 DEF PushToPR, TypeOK
    <3> QED
      BY <1>k, <2>1, <3>1
  <2> QED
    BY <1>f, <1>n, <2>1, <2>2, <2>3 DEF Drift
<1>2. ASSUME NEW t \in Template, Rerun(t)
      PROVE  ~Drift' /\ \A u \in Template : FrozenAt(u)'
  <2>1. main' = main /\ pr' = pr
    BY <1>2 DEF Rerun
  <2>2. run'[<<t, "pr">>] = NewRun(run[<<t, "pr">>].tree)
    BY <1>2, <1>o DEF Rerun, TypeOK
  <2>3. pr[t] # NoEdits => run[<<t, "pr">>].tree = Patched(main[t], pr[t])
    BY <1>f DEF FrozenAt
  <2>4. ASSUME NEW u \in Template, u # t
        PROVE  FrozenAt(u)'
    <3>1. run'[<<u, "pr">>] = run[<<u, "pr">>]
      BY <1>2, <1>o, <2>4 DEF Rerun, TypeOK
    <3> QED
      BY <1>k, <2>1, <3>1
  <2> QED
    BY <1>f, <1>n, <2>1, <2>2, <2>3, <2>4 DEF Drift
<1>3. ASSUME NEW t \in Template, Merge(t)
      PROVE  ~Drift' /\ \A u \in Template : FrozenAt(u)'
  <2>1. main' = main
    BY <1>3, <1>r, MergeChangesNothing
  <2>2. pr'[t] = NoEdits
    BY <1>3 DEF Merge, TypeOK
  <2>3. ASSUME NEW u \in Template, u # t
        PROVE  FrozenAt(u)'
    <3>1. pr'[u] = pr[u]
      BY <1>3, <2>3 DEF Merge, TypeOK
    <3>2. run'[<<u, "pr">>] = run[<<u, "pr">>]
      <4> DEFINE q == <<u, "pr">>
      <4>1. q \in Group /\ q # <<t, "main">> /\ q # <<t, "pr">>
        BY <1>o, <2>3
      <4> HIDE DEF q
      <4>2. run'[q] = run[q]
        BY <1>3, <4>1, MergeRun DEF TypeOK
      <4> QED
        BY <4>2 DEF q
    <3> QED
      BY <1>k, <2>1, <3>1, <3>2
  <2>4. FrozenAt(t)'
    BY <2>2 DEF FrozenAt
  <2> QED
    BY <1>f, <2>1, <2>3, <2>4 DEF Drift
<1>4. ASSUME NEW g \in Group, Step(g)
      PROVE  ~Drift' /\ \A u \in Template : FrozenAt(u)'
  <2>1. main' = main
    BY <1>4 DEF Step, DiffFiles, FetchError, BadPayload, Conclude
  <2> QED
    BY <1>4, <1>f, <2>1, FrozenStep DEF Drift
<1>5. CASE UNCHANGED vars
  BY <1>5, <1>f, <1>k DEF vars, Drift
<1> QED
  BY <1>1, <1>2, <1>3, <1>4, <1>5 DEF Next

\* The start has no pull request and no drift.
LEMMA FrozenInit == Init => Frozen
<1> SUFFICES ASSUME Init PROVE ~Drift /\ \A t \in Template : pr[t] = NoEdits
  BY DEF Frozen
<1> QED
  BY DEF Init, Drift, Template

\* With the check required, no step changes a shared file of either template:
\* a change made in both can only land while the check does not block it.
THEOREM RequiredCheckFreezes == Spec => RequiredFreezes
<1>1. TypeOK /\ Frozen /\ [Next]_vars => [required => UNCHANGED main]_vars
  <2> SUFFICES ASSUME TypeOK, Frozen, Next, required
               PROVE  main' = main
    OBVIOUS
  <2>1. ASSUME NEW t \in Template, Merge(t)
        PROVE  main' = main
    BY <2>1, MergeChangesNothing
  <2> QED
    BY <2>1 DEF Next, PushToPR, Rerun, Step, DiffFiles, FetchError, BadPayload,
                Conclude
<1> QED
  BY <1>1, TypeInit, TypeNext, FrozenInit, FrozenNext, PTL
  DEF Spec, RequiredFreezes

----------------------------------------------------------------------------
\* The parts together: for every number of files, versions and pushes, a run on
\* main checks its head, the template whose main moved last catches what
\* differs, and while the check is required the mains stay equal.
THEOREM DriftInvariant == Spec => []IInv
<1>1. TypeOK /\ RunOnHead /\ Caught /\ Frozen => IInv
  BY DEF IInv
<1> QED
  BY <1>1, TypeInit, TypeNext, CaughtInit, HeadNext, CaughtNext, FrozenInit, FrozenNext, PTL
  DEF Spec
=============================================================================
