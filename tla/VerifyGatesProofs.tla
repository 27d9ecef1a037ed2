------------------------- MODULE VerifyGatesProofs -------------------------
(***************************************************************************)
(* The gates of tools/verify.py, for every setup: todo never loses a       *)
(* command, gets what it needs in time and only stops for a reason.  First *)
(* what the exit codes of the fixture harnesses say, then the lists of     *)
(* steps and targets, then the inductive invariant IInv of VerifyGates     *)
(* action by action, and last what follows from it.                        *)
(***************************************************************************)
EXTENDS VerifyGates, SequenceTheorems, TLAPS

----------------------------------------------------------------------------
\* The fixture harnesses

\* The checkout a validator is run on is the one that the fixture stands for.
LEMMA SubjectIsRunner ==
  ASSUME NEW x, NEW u \in Suite, NEW f,
         u = "contract" => f \in DOMAIN x.fixtures[u]
  PROVE  /\ DOMAIN Subject(x, u, f) = DOMAIN Runner(x, u, f)
         /\ \A r : Broken(r, Subject(x, u, f)) <=> Broken(r, Runner(x, u, f))
<1> DEFINE s == Subject(x, u, f)
           t == Runner(x, u, f)
<1>1. DOMAIN s = DOMAIN t /\ \A p \in DOMAIN t : s[p] = t[p]
  <2>1. CASE u = "contract"
    <3> DEFINE own == x.fixtures[u][f]
               base == Restrict(x.repo, DOMAIN x.repo \ (Ignored \cup Pruned))
    <3>1. s = Overlay(base, own)
      BY <2>1 DEF Subject, Prepare
    <3>2. DOMAIN base = DOMAIN x.repo \ (Ignored \cup Pruned)
          /\ \A p \in DOMAIN base : base[p] = x.repo[p]
      BY DEF Restrict
    <3>3. t = [p \in {q \in DOMAIN x.repo : q \notin Ignored /\ q \notin Pruned} \cup DOMAIN own |->
                 IF p \in DOMAIN own THEN own[p] ELSE x.repo[p]]
      BY <2>1 DEF Runner
    <3> HIDE DEF own, base
    <3>4. DOMAIN s = DOMAIN own \cup DOMAIN base
          /\ \A p \in DOMAIN s : s[p] = IF p \in DOMAIN own THEN own[p] ELSE base[p]
      BY <3>1 DEF Overlay
    <3> HIDE DEF s, t
    <3> QED
      BY <3>2, <3>3, <3>4
  <2>2. CASE u # "contract" /\ f \in DOMAIN x.fixtures[u]
    <3>1. s = x.fixtures[u][f]
      BY <2>2 DEF Subject
    <3>2. t = [p \in {} \cup DOMAIN s |-> IF p \in DOMAIN s THEN s[p] ELSE x.repo[p]]
      BY <2>2, <3>1 DEF Runner
    <3> HIDE DEF s, t
    <3> QED
      BY <3>2
  <2>3. CASE u # "contract" /\ f \notin DOMAIN x.fixtures[u]
    <3>1. s = <<>>
      BY <2>3 DEF Subject
    <3>2. t = [p \in {} \cup DOMAIN s |-> IF p \in DOMAIN s THEN s[p] ELSE x.repo[p]]
      BY <2>3, <3>1 DEF Runner
    <3> HIDE DEF s, t
    <3> QED
      BY <3>2
  <2> QED
    BY <2>1, <2>2, <2>3
<1> HIDE DEF s, t
<1>2. \A r : Broken(r, s) <=> Broken(r, t)
  BY <1>1 DEF Broken
<1> QED
  BY <1>1, <1>2 DEF s, t

\* What an answer says.
Hits(v, t) == {r \in v.rules \ v.overlooked : Broken(r, t)}
Raised(v, t, malformed) ==
  Hits(v, t) \cap v.raises # {} \/ (malformed /\ v.malformed = "raised")
Entry(v, malformed) == IF malformed /\ v.malformed = "reported" THEN {MalformedEntry} ELSE {}

\* The same for a contract that is well formed, and for one that is not.
Code(v, t) == Answer(v, t, FALSE).code
Fails(v, t) == Answer(v, t, FALSE).fails
OddCode(v, t) == Answer(v, t, TRUE).code
OddFails(v, t) == Answer(v, t, TRUE).fails

\* What a validator answers: it refuses to work on nothing, says nothing when it
\* raises, and otherwise reports what is broken.
LEMMA AnswerSays ==
  ASSUME NEW v, NEW t, NEW malformed \in BOOLEAN
  PROVE  /\ DOMAIN t = {} => Answer(v, t, malformed).code = 2 /\ Answer(v, t, malformed).fails = {}
         /\ DOMAIN t # {} /\ Raised(v, t, malformed) =>
              Answer(v, t, malformed).code = 1 /\ Answer(v, t, malformed).fails = {}
         /\ DOMAIN t # {} /\ ~Raised(v, t, malformed) =>
              /\ Answer(v, t, malformed).fails = Hits(v, t) \cup Entry(v, malformed)
              /\ Answer(v, t, malformed).code =
                   IF v.tells /\ Hits(v, t) \cup Entry(v, malformed) # {} THEN 1 ELSE 0
<1> DEFINE fails == Hits(v, t) \cup Entry(v, malformed)
<1>1. Answer(v, t, malformed) =
        IF DOMAIN t = {} THEN [code |-> 2, fails |-> {}]
        ELSE [code |-> IF Raised(v, t, malformed)
                            \/ (v.tells /\ (IF Raised(v, t, malformed) THEN {} ELSE fails) # {})
                         THEN 1 ELSE 0,
              fails |-> IF Raised(v, t, malformed) THEN {} ELSE fails]
  BY DEF Answer, Hits, Raised, Entry
<1> HIDE DEF fails
<1>2. CASE DOMAIN t = {}
  <2>1. Answer(v, t, malformed) = [code |-> 2, fails |-> {}]
    BY <1>1, <1>2
  <2> QED
    BY <1>2, <2>1
<1>3. CASE DOMAIN t # {} /\ Raised(v, t, malformed)
  <2>1. Answer(v, t, malformed) = [code |-> 1, fails |-> {}]
    BY <1>1, <1>3
  <2> QED
    BY <1>3, <2>1
<1>4. CASE DOMAIN t # {} /\ ~Raised(v, t, malformed)
  <2>1. Answer(v, t, malformed) = [code |-> IF v.tells /\ fails # {} THEN 1 ELSE 0, fails |-> fails]
    BY <1>1, <1>4
  <2> QED
    BY <1>4, <2>1 DEF fails
<1> QED
  BY <1>2, <1>3, <1>4

\* The answer to a well formed contract.
LEMMA VerdictSays ==
  ASSUME NEW v, NEW t
  PROVE  /\ DOMAIN t = {} => Code(v, t) = 2 /\ Fails(v, t) = {}
         /\ DOMAIN t # {} /\ Hits(v, t) \cap v.raises # {} => Code(v, t) = 1 /\ Fails(v, t) = {}
         /\ DOMAIN t # {} /\ Hits(v, t) \cap v.raises = {} =>
              /\ Fails(v, t) = Hits(v, t)
              /\ Code(v, t) = IF v.tells /\ Hits(v, t) # {} THEN 1 ELSE 0
<1>1. Raised(v, t, FALSE) <=> Hits(v, t) \cap v.raises # {}
  BY DEF Raised
<1>2. Hits(v, t) \cup Entry(v, FALSE) = Hits(v, t)
  BY DEF Entry
<1> QED
  BY <1>1, <1>2, AnswerSays, Zenon DEF Code, Fails

\* The answer to a contract with a malformed entry.
LEMMA OddVerdictSays ==
  ASSUME NEW v, NEW t
  PROVE  LET raised == Hits(v, t) \cap v.raises # {} \/ v.malformed = "raised"
             fails == Hits(v, t) \cup IF v.malformed = "reported" THEN {MalformedEntry} ELSE {}
         IN  /\ DOMAIN t = {} => OddCode(v, t) = 2 /\ OddFails(v, t) = {}
             /\ DOMAIN t # {} /\ raised => OddCode(v, t) = 1 /\ OddFails(v, t) = {}
             /\ DOMAIN t # {} /\ ~raised =>
                  /\ OddFails(v, t) = fails
                  /\ OddCode(v, t) = IF v.tells /\ fails # {} THEN 1 ELSE 0
<1>1. Raised(v, t, TRUE) <=> Hits(v, t) \cap v.raises # {} \/ v.malformed = "raised"
  BY DEF Raised
<1>2. Entry(v, TRUE) = IF v.malformed = "reported" THEN {MalformedEntry} ELSE {}
  BY DEF Entry
<1> QED
  BY <1>1, <1>2, AnswerSays, Zenon DEF OddCode, OddFails

\* When a run passes.
LEMMA RunSays ==
  ASSUME NEW x, NEW u, NEW f, NEW v, v = x.validator[u], NEW t, t = Subject(x, u, f)
  PROVE  /\ f = "good" => (RunFixture(x, u, f) <=> Code(v, t) = 0)
         /\ f # "good" /\ RunFixture(x, u, f) =>
              /\ Code(v, t) # 0
              /\ \A m \in Registered(x, u, f) : m \cap Fails(v, t) # {}
         /\ f # "good" /\ Code(v, t) = 1
              /\ (\A m \in Registered(x, u, f) : m \cap Fails(v, t) # {})
              => RunFixture(x, u, f)
<1>1. \A fails, ms : Missing(fails, ms) = {} <=> \A m \in ms : m \cap fails # {}
  BY DEF Missing
<1>2. RunFixture(x, u, f) <=>
        IF f = "good" THEN Code(v, t) = 0
        ELSE /\ IF u = "privileged" THEN Code(v, t) = 1 ELSE Code(v, t) # 0
             /\ Missing(Fails(v, t), Registered(x, u, f)) = {}
  BY DEF RunFixture, Code, Fails
<1>3. Missing(Fails(v, t), Registered(x, u, f)) = {} <=>
        \A m \in Registered(x, u, f) : m \cap Fails(v, t) # {}
  BY <1>1
<1> QED
  BY <1>2, <1>3

\* Exit code 0 of a validator whose code tells: it has nothing to report.
LEMMA GoodAnswer ==
  ASSUME NEW v, NEW t, Code(v, t) = 0, v.tells = TRUE
  PROVE  Hits(v, t) = {}
<1> SUFFICES ASSUME Hits(v, t) # {} PROVE FALSE
  OBVIOUS
<1>1. Code(v, t) \in {1, 2}
  BY VerdictSays
<1> QED
  BY <1>1

\* Another exit code with something reported: the validator did not raise.
LEMMA BadAnswer ==
  ASSUME NEW v, NEW t, Code(v, t) # 0, Fails(v, t) # {}
  PROVE  Hits(v, t) \cap v.raises = {} /\ v.tells /\ Fails(v, t) = Hits(v, t)
<1>1. DOMAIN t # {} /\ Hits(v, t) \cap v.raises = {}
  BY VerdictSays
<1> QED
  BY <1>1, VerdictSays

\* The same with a malformed entry.
LEMMA OddAnswer ==
  ASSUME NEW v, NEW t, OddCode(v, t) # 0, OddFails(v, t) # {}
  PROVE  /\ v.tells
         /\ OddFails(v, t) = Hits(v, t) \cup IF v.malformed = "reported" THEN {MalformedEntry} ELSE {}
<1>1. DOMAIN t # {} /\ ~(Hits(v, t) \cap v.raises # {} \/ v.malformed = "raised")
  BY OddVerdictSays
<1> QED
  BY <1>1, OddVerdictSays

\* What the runs of a suite say of its validator.
LEMMA GoodRun ==
  ASSUME NEW x, NEW u \in Suite, u = "contract" => "good" \in DOMAIN x.fixtures[u],
         RunFixture(x, u, "good"), NEW v, v = x.validator[u], v.tells = TRUE
  PROVE  \A r \in v.rules : Checks(v, r) => ~Broken(r, Runner(x, u, "good"))
<1> DEFINE t == Subject(x, u, "good")
<1>1. Code(v, t) = 0
  BY RunSays
<1>2. Hits(v, t) = {}
  BY <1>1, GoodAnswer
<1>3. \A r : Broken(r, t) <=> Broken(r, Runner(x, u, "good"))
  BY SubjectIsRunner
<1> HIDE DEF t
<1> QED
  BY <1>2, <1>3 DEF Checks, Hits

\* A bad fixture with something registered for it: the validator's code tells, every
\* marker stands for a rule at work, and the validator does not raise at this fixture.
LEMMA BadRun ==
  ASSUME NEW x, NEW u \in Suite,
         NEW f, f # "good", u = "contract" => f \in DOMAIN x.fixtures[u],
         RunFixture(x, u, f), Registered(x, u, f) # {},
         NEW v, v = x.validator[u]
  PROVE  /\ v.tells
         /\ \A m \in Registered(x, u, f) :
              \E r \in m : Checks(v, r) /\ Broken(r, Runner(x, u, f))
         /\ \A r \in v.raises : Checks(v, r) => ~Broken(r, Runner(x, u, f))
<1> DEFINE t == Subject(x, u, f)
<1>1. Code(v, t) # 0 /\ \A m \in Registered(x, u, f) : m \cap Fails(v, t) # {}
  BY RunSays
<1>2. \A r : Broken(r, t) <=> Broken(r, Runner(x, u, f))
  BY SubjectIsRunner
<1>3. Fails(v, t) # {}
  BY <1>1
<1>4. Hits(v, t) \cap v.raises = {} /\ v.tells /\ Fails(v, t) = Hits(v, t)
  BY <1>1, <1>3, BadAnswer
<1> HIDE DEF t
<1>6. \A m \in Registered(x, u, f) : \E r \in m : Checks(v, r) /\ Broken(r, t)
  BY <1>1, <1>4 DEF Checks, Hits
<1>7. \A r \in v.raises : Checks(v, r) => ~Broken(r, t)
  BY <1>4 DEF Checks, Hits
<1> QED
  BY <1>2, <1>4, <1>6, <1>7

\* The malformed entry is reported, and the code tells.
LEMMA MalformedRun ==
  ASSUME NEW x, RunMalformed(x),
         NEW v \in Validator, v = x.validator["contract"]
  PROVE  v.tells /\ v.malformed = "reported"
<1> DEFINE t == Subject(x, "contract", "good")
<1>1. OddCode(v, t) # 0 /\ MalformedEntry \in OddFails(v, t)
  BY DEF RunMalformed, OddCode, OddFails
<1>2. v.rules \subseteq Rule
  BY DEF Validator
<1> HIDE DEF t
<1>3. /\ v.tells
      /\ OddFails(v, t) = Hits(v, t) \cup IF v.malformed = "reported" THEN {MalformedEntry} ELSE {}
  BY <1>1, OddAnswer
<1>4. MalformedEntry \notin Hits(v, t)
  BY <1>2, NamesAssumption DEF Hits
<1> QED
  BY <1>1, <1>3, <1>4

\* The runs a harness does for a suite, all of which pass.
RunsPass(x, u) ==
  /\ \A f \in BadOf(x, u) \cup {"good"} : RunFixture(x, u, f)
  /\ u = "contract" => "good" \in DOMAIN x.fixtures[u] /\ RunMalformed(x)

\* No bad fixture is called "good", and those of a directory are in it.
LEMMA BadNames ==
  ASSUME NEW x, NEW u \in Suite, NEW f \in BadOf(x, u)
  PROVE  f # "good" /\ (u # "privileged" => f \in DOMAIN x.fixtures[u])
<1>1. CASE u = "privileged"
  BY <1>1 DEF BadOf, PrivilegedNames
<1>2. CASE u # "privileged"
  <2>1. f \in DOMAIN x.fixtures[u] /\ f \in BadName
    BY <1>2 DEF BadOf
  <2> QED
    BY <1>2, <2>1, NamesAssumption
<1> QED
  BY <1>1, <1>2

\* When the runs of a suite pass, the registered rules work and the validator
\* reports instead of raising.
LEMMA PassingRuns ==
  ASSUME NEW x, IsTests(x), NEW u \in Suite, x.validator[u] # Absent, RunsPass(x, u)
  PROVE  RegisteredRulesWork(x, u) /\ Reports(x, u)
<1> DEFINE v == x.validator[u]
<1>1. v \in Validator
  BY DEF IsTests
<1>2. v.tells \in BOOLEAN
  BY <1>1 DEF Validator
<1> HIDE DEF v
<1>3. ASSUME NEW f \in BadOf(x, u), Registered(x, u, f) # {}
      PROVE  /\ v.tells
             /\ \A m \in Registered(x, u, f) :
                  \E r \in m : Checks(v, r) /\ Broken(r, Runner(x, u, f))
             /\ \A r \in v.raises : Checks(v, r) => ~Broken(r, Runner(x, u, f))
  <2>1. f # "good" /\ (u = "contract" => f \in DOMAIN x.fixtures[u])
    BY BadNames
  <2>2. RunFixture(x, u, f)
    BY DEF RunsPass
  <2>3. v = x.validator[u]
    BY DEF v
  <2> QED
    BY <1>3, <2>1, <2>2, <2>3, BadRun
<1>4. u = "contract" => v.tells /\ v.malformed = "reported"
  <2> SUFFICES ASSUME u = "contract" PROVE v.tells /\ v.malformed = "reported"
    OBVIOUS
  <2>1. RunMalformed(x) /\ v = x.validator["contract"]
    BY DEF RunsPass, v
  <2> QED
    BY <1>1, <2>1, MalformedRun
<1>5. LooksAtOutput(x, u) => v.tells
  <2>1. CASE u = "contract"
    BY <1>4, <2>1
  <2>2. CASE \E f \in BadOf(x, u) : Registered(x, u, f) # {}
    BY <1>3, <2>2
  <2> QED
    BY <2>1, <2>2 DEF LooksAtOutput
<1>6. ASSUME LooksAtOutput(x, u)
      PROVE  \A r \in v.rules : Checks(v, r) => ~Broken(r, Runner(x, u, "good"))
  <2>1. u = "contract" => "good" \in DOMAIN x.fixtures[u]
    BY DEF RunsPass
  <2>2. RunFixture(x, u, "good")
    BY DEF RunsPass
  <2>3. v.tells = TRUE
    BY <1>2, <1>5, <1>6
  <2>4. v = x.validator[u]
    BY DEF v
  <2> QED
    BY <2>1, <2>2, <2>3, <2>4, GoodRun
<1>7. RegisteredRulesWork(x, u)
  <2>1. \A f \in BadOf(x, u) : \A m \in Registered(x, u, f) :
          \E r \in m : Checks(v, r) /\ Broken(r, Runner(x, u, f))
    BY <1>3
  <2> QED
    BY <1>6, <2>1 DEF RegisteredRulesWork, v
<1>8. Reports(x, u)
  <2>1. \A f \in BadOf(x, u), r \in v.raises :
          Registered(x, u, f) # {} /\ Checks(v, r) => ~Broken(r, Runner(x, u, f))
    BY <1>3
  <2> QED
    BY <1>4, <1>5, <2>1 DEF Reports, v
<1> QED
  BY <1>7, <1>8

\* A suite that is in order passes.
LEMMA OrderedRuns ==
  ASSUME NEW x, NEW u \in Suite, InOrder(x, u), u = "contract" => x.toolsRule
  PROVE  RunsPass(x, u)
<1> DEFINE v == x.validator[u]
<1>1. /\ v.overlooked = {} /\ v.raises = {} /\ v.malformed = "reported" /\ v.tells
      /\ \A f \in BadOf(x, u) \cup {"good"} : DOMAIN Runner(x, u, f) # {}
      /\ \A r \in v.rules : ~Broken(r, Runner(x, u, "good"))
      /\ \A f \in BadOf(x, u) :
           /\ \E r \in v.rules : Broken(r, Runner(x, u, f))
           /\ \A m \in Registered(x, u, f) : \E r \in m : r \in v.rules /\ Broken(r, Runner(x, u, f))
  BY DEF InOrder, Sound
<1>2. v = x.validator[u]
  OBVIOUS
<1> HIDE DEF v
<1>3. u # "privileged" => "good" \in DOMAIN x.fixtures[u]
  BY DEF InOrder, DiscoveryFails
<1>4. \A t : Hits(v, t) \cap v.raises = {} /\ Hits(v, t) = {r \in v.rules : Broken(r, t)}
  BY <1>1 DEF Hits
<1>5. ASSUME NEW f \in BadOf(x, u) \cup {"good"}
      PROVE  /\ DOMAIN Subject(x, u, f) # {}
             /\ \A r : Broken(r, Subject(x, u, f)) <=> Broken(r, Runner(x, u, f))
  <2>1. u = "contract" => f \in DOMAIN x.fixtures[u]
    BY <1>3, BadNames
  <2> QED
    BY <1>1, <2>1, SubjectIsRunner
<1>6. RunFixture(x, u, "good")
  <2> DEFINE t == Subject(x, u, "good")
  <2>1. DOMAIN t # {} /\ Hits(v, t) = {}
    BY <1>1, <1>4, <1>5
  <2>2. Code(v, t) = 0
    BY <1>4, <2>1, VerdictSays
  <2>3. t = Subject(x, u, "good")
    OBVIOUS
  <2> HIDE DEF t
  <2> QED
    BY <1>2, <2>2, <2>3, RunSays
<1>7. ASSUME NEW f \in BadOf(x, u) PROVE RunFixture(x, u, f)
  <2> DEFINE t == Subject(x, u, f)
  <2>1. DOMAIN t # {} /\ Hits(v, t) # {}
    BY <1>1, <1>4, <1>5
  <2>2. \A m \in Registered(x, u, f) : m \cap Hits(v, t) # {}
    BY <1>1, <1>4, <1>5
  <2>3. t = Subject(x, u, f)
    OBVIOUS
  <2> HIDE DEF t
  <2>4. Code(v, t) = 1 /\ Fails(v, t) = Hits(v, t)
    BY <1>1, <1>4, <2>1, VerdictSays
  <2>5. f # "good"
    BY BadNames
  <2> QED
    BY <1>2, <2>2, <2>3, <2>4, <2>5, RunSays
<1>8. u = "contract" => RunMalformed(x)
  <2> SUFFICES ASSUME u = "contract" PROVE RunMalformed(x)
    OBVIOUS
  <2> DEFINE t == Subject(x, "contract", "good")
  <2>1. DOMAIN t # {}
    BY <1>5
  <2>2. ~(Hits(v, t) \cap v.raises # {} \/ v.malformed = "raised")
    BY <1>1, <1>4
  <2>3. MalformedEntry \in Hits(v, t) \cup IF v.malformed = "reported" THEN {MalformedEntry} ELSE {}
    BY <1>1
  <2> HIDE DEF t
  <2>4. OddCode(v, t) = 1
    BY <1>1, <2>1, <2>2, <2>3, OddVerdictSays
  <2>5. MalformedEntry \in OddFails(v, t)
    BY <2>1, <2>2, <2>3, OddVerdictSays
  <2>6. x.toolsRule
    OBVIOUS
  <2>7. OddCode(v, t) # 0
    BY <2>4
  <2> QED
    BY <1>2, <2>5, <2>6, <2>7, Zenon DEF RunMalformed, OddCode, OddFails, t
<1> QED
  BY <1>3, <1>6, <1>7, <1>8 DEF RunsPass

\* The exit codes of the two scripts.
LEMMA ContractExit ==
  ASSUME NEW x
  PROVE  ContractTests(x) = 0 <=>
           /\ x.validator["contract"] # Absent /\ x.contract
           /\ HasCallerCheck(x) =>
                ~DiscoveryFails(x.fixtures["consumer"]) /\ RunsPass(x, "consumer")
           /\ ~DiscoveryFails(x.fixtures["contract"]) /\ RunsPass(x, "contract")
<1>1. ASSUME NEW u \in {"consumer", "contract"}, ~DiscoveryFails(x.fixtures[u])
      PROVE  /\ DOMAIN x.fixtures[u] = BadOf(x, u) \cup {"good"}
             /\ "good" \in DOMAIN x.fixtures[u]
  BY <1>1 DEF DiscoveryFails, BadOf
<1>2. ContractTests(x) = 0 <=>
        /\ x.validator["contract"] # Absent /\ x.contract
        /\ HasCallerCheck(x) =>
             /\ ~DiscoveryFails(x.fixtures["consumer"])
             /\ \A f \in DOMAIN x.fixtures["consumer"] : RunFixture(x, "consumer", f)
        /\ ~DiscoveryFails(x.fixtures["contract"])
        /\ \A f \in DOMAIN x.fixtures["contract"] : RunFixture(x, "contract", f)
        /\ RunMalformed(x)
  BY DEF ContractTests
<1> QED
  BY <1>1, <1>2 DEF RunsPass

\* Exit code 0 of tools/run_privileged_workflow_tests.py.
LEMMA PrivilegedExit ==
  ASSUME NEW x
  PROVE  PrivilegedTests(x) = 0 <=>
           /\ x.validator["privileged"] # Absent /\ x.fixtures["privileged"] # Absent
           /\ RunsPass(x, "privileged")
<1>1. BadOf(x, "privileged") \cup {"good"} = PrivilegedNames
  BY DEF BadOf, PrivilegedNames
<1> QED
  BY <1>1 DEF PrivilegedTests, RunsPass

----------------------------------------------------------------------------
\* Targets and steps

Named == DOMAIN Targets \cup DOMAIN Steps

\* The names in STEPS.
LEMMA StepNames ==
  DOMAIN Steps = {"ruff", "yamllint", "actionlint", "shellcheck", "markdownlint",
                  "helpers", "privileged", "opa_test", "opa_policy", "opa_plan",
                  "manifest", "contract_shape", "contract", "contract_tests", "docs",
                  "adr", "integration"}
BY DEF Steps

\* The names in TARGETS.
LEMMA TargetNames == DOMAIN Targets = {"lint", "policy", "ci", "verify"}
BY DEF Targets

\* The targets, one by one.
LEMMA TargetLists ==
  /\ Targets["lint"] = <<"ruff", "yamllint">>
  /\ Targets["policy"] = <<"opa_test", "opa_policy", "opa_plan">>
  /\ Targets["ci"] = <<"lint", "actionlint", "helpers", "policy", "markdownlint",
                       "docs", "adr", "manifest", "contract">>
  /\ Targets["verify"] = <<"ci", "integration">>
BY DEF Targets

\* Steps are one target deep, "ci" is two and "verify" three.
LEMMA Children ==
  /\ \A t \in DOMAIN Targets : Targets[t] \in Seq(Named)
  /\ \A t \in {"lint", "policy"} : \A i \in DOMAIN Targets[t] : Targets[t][i] \in DOMAIN Steps
  /\ \A i \in DOMAIN Targets["ci"] : Targets["ci"][i] \in DOMAIN Steps \cup {"lint", "policy"}
  /\ \A i \in DOMAIN Targets["verify"] : Targets["verify"][i] \in DOMAIN Steps \cup {"ci"}
<1>1. /\ Targets["lint"] \in Seq(DOMAIN Steps)
      /\ Targets["policy"] \in Seq(DOMAIN Steps)
  BY TargetLists, StepNames
<1>2. Targets["ci"] \in Seq(DOMAIN Steps \cup {"lint", "policy"})
  BY TargetLists, StepNames
<1>3. Targets["verify"] \in Seq(DOMAIN Steps \cup {"ci"})
  BY TargetLists, StepNames
<1>4. \A t \in DOMAIN Targets : Targets[t] \in Seq(Named)
  BY <1>1, <1>2, <1>3, TargetNames DEF Named
<1> QED
  BY <1>1, <1>2, <1>3, <1>4

\* The recursive definition of Below says what it means: the nested targets are
\* at most three deep, so that a function built in three steps satisfies it.
LEMMA BelowEquation ==
  Below = [name \in Named |->
             IF name \in DOMAIN Steps THEN {name}
             ELSE UNION {Below[Targets[name][i]] : i \in DOMAIN Targets[name]}]
<1> DEFINE Unfold(f) ==
      [name \in Named |->
         IF name \in DOMAIN Steps THEN {name}
         ELSE UNION {f[Targets[name][i]] : i \in DOMAIN Targets[name]}]
    B0 == [name \in Named |-> {name}]
    B1 == Unfold(B0)
    B2 == Unfold(B1)
    B3 == Unfold(B2)
    B4 == Unfold(B3)
<1>a. \A name \in Named : name \in DOMAIN Steps \/ name \in {"lint", "policy", "ci", "verify"}
  BY TargetNames DEF Named
<1>b. DOMAIN Steps \cap DOMAIN Targets = {}
  BY StepNames, TargetNames
<1>s. \A f, n : n \in DOMAIN Steps => Unfold(f)[n] = {n}
  BY DEF Named
<1>t. \A f : \A n \in DOMAIN Targets :
        Unfold(f)[n] = UNION {f[Targets[n][i]] : i \in DOMAIN Targets[n]}
  BY <1>b DEF Named
<1> HIDE DEF Unfold
<1>u. ASSUME NEW f, NEW g, NEW n \in DOMAIN Targets,
             \A i \in DOMAIN Targets[n] : f[Targets[n][i]] = g[Targets[n][i]]
      PROVE  Unfold(f)[n] = Unfold(g)[n]
  <2>1. {f[Targets[n][i]] : i \in DOMAIN Targets[n]} = {g[Targets[n][i]] : i \in DOMAIN Targets[n]}
    BY <1>u
  <2>2. Unfold(f)[n] = UNION {f[Targets[n][i]] : i \in DOMAIN Targets[n]}
    BY <1>t
  <2>3. Unfold(g)[n] = UNION {g[Targets[n][i]] : i \in DOMAIN Targets[n]}
    BY <1>t
  <2> QED
    BY <2>1, <2>2, <2>3
<1>0. \A n \in DOMAIN Steps : B0[n] = {n} /\ B1[n] = {n} /\ B2[n] = {n} /\ B3[n] = {n}
  BY <1>s DEF Named
<1> HIDE DEF B0, B1, B2, B3
<1>1. ASSUME NEW n \in {"lint", "policy"}
      PROVE  B1[n] = B2[n] /\ B2[n] = B3[n] /\ B3[n] = B4[n]
  <2>0. n \in DOMAIN Targets /\ \A i \in DOMAIN Targets[n] : Targets[n][i] \in DOMAIN Steps
    BY Children, TargetNames
  <2>1. \A i \in DOMAIN Targets[n] : /\ B0[Targets[n][i]] = B1[Targets[n][i]]
                                    /\ B1[Targets[n][i]] = B2[Targets[n][i]]
                                    /\ B2[Targets[n][i]] = B3[Targets[n][i]]
    <3> TAKE i \in DOMAIN Targets[n]
    <3>1. Targets[n][i] \in DOMAIN Steps
      BY <2>0
    <3> QED
      BY <3>1, <1>0
  <2>2. Unfold(B0)[n] = Unfold(B1)[n]
    BY <2>0, <2>1, <1>u
  <2>3. Unfold(B1)[n] = Unfold(B2)[n]
    BY <2>0, <2>1, <1>u
  <2>4. Unfold(B2)[n] = Unfold(B3)[n]
    BY <2>0, <2>1, <1>u
  <2> QED
    BY <2>2, <2>3, <2>4 DEF B1, B2, B3
<1>2. B2["ci"] = B3["ci"] /\ B3["ci"] = B4["ci"]
  <2>0. "ci" \in DOMAIN Targets
    BY TargetNames
  <2>1. \A i \in DOMAIN Targets["ci"] :
          /\ B1[Targets["ci"][i]] = B2[Targets["ci"][i]]
          /\ B2[Targets["ci"][i]] = B3[Targets["ci"][i]]
    <3> SUFFICES ASSUME NEW i \in DOMAIN Targets["ci"]
                 PROVE  /\ B1[Targets["ci"][i]] = B2[Targets["ci"][i]]
                        /\ B2[Targets["ci"][i]] = B3[Targets["ci"][i]]
      OBVIOUS
    <3>1. CASE Targets["ci"][i] \in DOMAIN Steps
      BY <3>1, <1>0
    <3>2. CASE Targets["ci"][i] \in {"lint", "policy"}
      BY <3>2, <1>1
    <3> QED
      BY <3>1, <3>2, Children
  <2>2. Unfold(B1)["ci"] = Unfold(B2)["ci"]
    BY <2>0, <2>1, <1>u
  <2>3. Unfold(B2)["ci"] = Unfold(B3)["ci"]
    BY <2>0, <2>1, <1>u
  <2> QED
    BY <2>2, <2>3 DEF B2, B3
<1>3. B3["verify"] = B4["verify"]
  <2>0. "verify" \in DOMAIN Targets
    BY TargetNames
  <2>1. \A i \in DOMAIN Targets["verify"] : B2[Targets["verify"][i]] = B3[Targets["verify"][i]]
    <3> SUFFICES ASSUME NEW i \in DOMAIN Targets["verify"]
                 PROVE  B2[Targets["verify"][i]] = B3[Targets["verify"][i]]
      OBVIOUS
    <3>1. CASE Targets["verify"][i] \in DOMAIN Steps
      BY <3>1, <1>0
    <3>2. CASE Targets["verify"][i] = "ci"
      BY <3>2, <1>2
    <3> QED
      BY <3>1, <3>2, Children
  <2>2. Unfold(B2)["verify"] = Unfold(B3)["verify"]
    BY <2>0, <2>1, <1>u
  <2> QED
    BY <2>2 DEF B3
<1>4. \A n \in Named : B3[n] = B4[n]
  BY <1>a, <1>s, <1>0, <1>1, <1>2, <1>3
<1>5. B3 = Unfold(B3)
  BY <1>4 DEF Unfold, B3
<1>6. Below = CHOOSE f : f = Unfold(f)
  BY DEF Below, Unfold, Named
<1>7. Below = Unfold(Below)
  BY <1>5, <1>6
<1> QED
  BY <1>7 DEF Unfold

\* Below a step there is nothing but the step.
LEMMA BelowAStep == \A s \in DOMAIN Steps : Below[s] = {s}
BY BelowEquation DEF Named

\* Below a target there is what is below its children.
LEMMA BelowATarget ==
  ASSUME NEW t \in DOMAIN Targets
  PROVE  Below[t] = UNION {Below[Targets[t][i]] : i \in DOMAIN Targets[t]}
<1>1. t \in Named /\ t \notin DOMAIN Steps
  BY StepNames, TargetNames DEF Named
<1> QED
  BY <1>1, BelowEquation

----------------------------------------------------------------------------
\* Sequences

\* The positions of a list and of its tail.
LEMMA TailFacts ==
  ASSUME NEW S, NEW q \in Seq(S), q # <<>>
  PROVE  /\ Head(q) \in S /\ Head(q) = q[1] /\ 1 \in DOMAIN q
         /\ Tail(q) \in Seq(S)
         /\ \A i \in DOMAIN Tail(q) : i \in Nat \ {0} /\ i + 1 \in DOMAIN q /\ Tail(q)[i] = q[i + 1]
         /\ \A i \in DOMAIN q : i \in Nat /\ (i # 1 => i - 1 \in DOMAIN Tail(q) /\ Tail(q)[i - 1] = q[i])
OBVIOUS

\* The positions of two lists put together, by length.
LEMMA ConcatParts ==
  ASSUME NEW S, NEW p \in Seq(S), NEW q \in Seq(S)
  PROVE  /\ p \o q \in Seq(S) /\ Len(p \o q) = Len(p) + Len(q)
         /\ \A i \in 1..Len(p) : (p \o q)[i] = p[i]
         /\ \A i \in 1..Len(q) : (p \o q)[i + Len(p)] = q[i]
OBVIOUS

\* The positions of two lists put together, by domain.
LEMMA ConcatFacts ==
  ASSUME NEW S, NEW p \in Seq(S), NEW q \in Seq(S)
  PROVE  /\ p \o q \in Seq(S)
         /\ \A i \in DOMAIN p : i \in DOMAIN (p \o q) /\ (p \o q)[i] = p[i]
         /\ \A i \in DOMAIN q : i + Len(p) \in DOMAIN (p \o q) /\ (p \o q)[i + Len(p)] = q[i]
         /\ \A i \in DOMAIN (p \o q) :
              \/ i \in DOMAIN p
              \/ i \in Nat /\ i - Len(p) \in DOMAIN q
OBVIOUS

----------------------------------------------------------------------------
\* The steps

\* The steps, one by one.
LEMMA StepLists ==
  /\ Steps["ruff"] = <<Install("ruff"), Run("ruff")>>
  /\ Steps["yamllint"] = <<Install("yamllint"), Run("yamllint")>>
  /\ Steps["actionlint"] = <<Run("actionlint")>>
  /\ Steps["shellcheck"] = <<Run("shellcheck")>>
  /\ Steps["markdownlint"] = <<Run("markdownlint")>>
  /\ Steps["privileged"] = <<Install("pyyaml"), Run("privileged"), Run("privileged tests")>>
  /\ Steps["opa_test"] = <<Run("opa test")>>
  /\ Steps["opa_policy"] = <<Install("pyyaml"), Run("opa input"), Run("opa hygiene")>>
  /\ Steps["opa_plan"] = <<Run("fixtures"), Run("safe plan"), Run("bad plan")>>
  /\ Steps["manifest"] = <<Run("manifest")>>
  /\ Steps["contract_shape"] = <<Install("pyyaml"), Import("pyyaml"), Run("contract shape")>>
  /\ Steps["contract_tests"] = <<Install("pyyaml"), Run("contract tests")>>
  /\ Steps["docs"] = <<Run("docs")>>
  /\ Steps["adr"] = <<Run("adr")>>
  /\ Steps["integration"] = <<Run("integration")>>
  /\ Steps["helpers"] = (<<Run("shellcheck")>> \o <<Run("run blocks"), Run("callers")>>)
                           \o <<Install("pyyaml"), Run("privileged"), Run("privileged tests")>>
  /\ Steps["contract"] = <<Install("pyyaml"), Import("pyyaml"), Run("contract shape")>>
                            \o <<Run("contract"), Run("contract tests")>>
BY DEF Steps, Shellcheck, Privileged, ContractShape

\* What installing, importing and running are as items.
LEMMA Operations ==
  /\ \A p \in Package : /\ Install(p) \in Item /\ Install(p).do = "install" /\ Install(p).what = p
                        /\ Import(p) \in Item /\ Import(p).do = "import" /\ Import(p).what = p
                        /\ Demand(Install(p)) = {} /\ Demand(Import(p)) = {p}
  /\ \A c \in Command : /\ Run(c) \in Item /\ Run(c).do = "run" /\ Run(c).what = c
                        /\ Demand(Run(c)) = Depends(c)
BY DEF Item, Do, Install, Import, Run, Demand

\* The packages that the commands need.
LEMMA PackagesNeeded ==
  /\ Depends("ruff") = {"ruff"} /\ Depends("yamllint") = {"yamllint"}
  /\ \A c \in {"privileged", "privileged tests", "contract", "contract tests"} :
       Depends(c) = {"pyyaml"}
  /\ \A c \in {"actionlint", "shellcheck", "markdownlint", "run blocks", "callers",
               "opa test", "opa input", "opa hygiene", "fixtures", "safe plan", "bad plan",
               "manifest", "contract shape", "docs", "adr", "integration"} :
       Depends(c) \cap Package = {}
BY DEF Depends, Package

\* A list of operations in which each package is installed before it is used.
Orderly(q) ==
  /\ q \in Seq(Item)
  /\ \A i \in DOMAIN q :
       /\ q[i].do \in {"install", "import", "run"}
       /\ \A n \in Demand(q[i]) \cap Package :
            \E j \in 1..(i - 1) : q[j].do = "install" /\ q[j].what = n

Plain(t) == t \in Item /\ t.do = "run" /\ Demand(t) \cap Package = {}
Gives(t, p) == t \in Item /\ t.do = "install" /\ t.what = p /\ Demand(t) = {}
Uses(t, p) == t \in Item /\ t.do \in {"import", "run"} /\ Demand(t) \cap Package \subseteq {p}

\* Short lists that are in order.
LEMMA OrderlyLists ==
  /\ \A a : Plain(a) => Orderly(<<a>>)
  /\ \A a, b : Plain(a) /\ Plain(b) => Orderly(<<a, b>>)
  /\ \A a, b, c : Plain(a) /\ Plain(b) /\ Plain(c) => Orderly(<<a, b, c>>)
  /\ \A p, a, b : Gives(a, p) /\ Uses(b, p) => Orderly(<<a, b>>)
  /\ \A p, a, b, c : Gives(a, p) /\ Uses(b, p) /\ Uses(c, p) => Orderly(<<a, b, c>>)
<1>1. ASSUME NEW a, Plain(a) PROVE Orderly(<<a>>)
  BY <1>1 DEF Plain, Orderly
<1>2. ASSUME NEW a, NEW b, Plain(a), Plain(b) PROVE Orderly(<<a, b>>)
  BY <1>2 DEF Plain, Orderly
<1>3. ASSUME NEW a, NEW b, NEW c, Plain(a), Plain(b), Plain(c) PROVE Orderly(<<a, b, c>>)
  BY <1>3 DEF Plain, Orderly
<1>4. ASSUME NEW p, NEW a, NEW b, Gives(a, p), Uses(b, p) PROVE Orderly(<<a, b>>)
  BY <1>4 DEF Gives, Uses, Orderly
<1>5. ASSUME NEW p, NEW a, NEW b, NEW c, Gives(a, p), Uses(b, p), Uses(c, p)
      PROVE  Orderly(<<a, b, c>>)
  BY <1>5 DEF Gives, Uses, Orderly
<1> QED
  BY <1>1, <1>2, <1>3, <1>4, <1>5

\* Lists in order put together are in order; what follows an installation may use it.
LEMMA OrderlyConcat ==
  /\ \A p, q : Orderly(p) /\ Orderly(q) => Orderly(p \o q)
  /\ \A p, n, a, b : Orderly(p) /\ p # <<>> /\ Gives(p[1], n) /\ Uses(a, n) /\ Uses(b, n)
                       => Orderly(p \o <<a, b>>)
<1>1. ASSUME NEW p, NEW q, Orderly(p), \A i \in DOMAIN q : q[i].do \in {"install", "import", "run"},
             q \in Seq(Item),
             \A i \in DOMAIN q : \A n \in Demand(q[i]) \cap Package :
               \/ \E j \in DOMAIN p : p[j].do = "install" /\ p[j].what = n
               \/ \E j \in 1..(i - 1) : q[j].do = "install" /\ q[j].what = n
      PROVE  Orderly(p \o q)
  <2>1. p \in Seq(Item)
    BY <1>1 DEF Orderly
  <2> DEFINE r == p \o q
  <2>2. /\ r \in Seq(Item)
        /\ \A i \in DOMAIN p : i \in DOMAIN r /\ r[i] = p[i]
        /\ \A i \in DOMAIN q : i + Len(p) \in DOMAIN r /\ r[i + Len(p)] = q[i]
        /\ \A i \in DOMAIN r : i \in DOMAIN p \/ (i \in Nat /\ i - Len(p) \in DOMAIN q)
    BY <1>1, <2>1, ConcatFacts
  <2> HIDE DEF r
  <2>3. ASSUME NEW i \in DOMAIN r
        PROVE  /\ r[i].do \in {"install", "import", "run"}
               /\ \A n \in Demand(r[i]) \cap Package :
                    \E j \in 1..(i - 1) : r[j].do = "install" /\ r[j].what = n
    <3>1. CASE i \in DOMAIN p
      <4>1. r[i] = p[i]
        BY <3>1, <2>2
      <4>2. \A j \in 1..(i - 1) : r[j] = p[j]
        BY <3>1, <2>1, <2>2
      <4> QED
        BY <3>1, <4>1, <4>2, <1>1 DEF Orderly
    <3>2. CASE i \in Nat /\ i - Len(p) \in DOMAIN q
      <4> DEFINE k == i - Len(p)
      <4>1. k \in DOMAIN q /\ k \in Nat /\ i = k + Len(p) /\ Len(p) \in Nat
        <5>1. Len(p) \in Nat
          BY <2>1
        <5>2. k \in DOMAIN q /\ i \in Nat
          BY <3>2
        <5>3. k \in Nat
          <6>1. q \in Seq(Item)
            BY <1>1
          <6> QED
            BY <5>2, <6>1
        <5> QED
          BY <5>1, <5>2, <5>3
      <4>2. r[i] = q[k]
        BY <4>1, <2>2
      <4>3. \A j \in 1..(k - 1) : j + Len(p) \in 1..(i - 1) /\ r[j + Len(p)] = q[j]
        BY <4>1, <2>2, <1>1
      <4>4. \A j \in DOMAIN p : j \in 1..(i - 1) /\ r[j] = p[j]
        BY <4>1, <2>1, <2>2, <1>1
      <4> HIDE DEF k
      <4>5. q[k].do \in {"install", "import", "run"}
        BY <4>1, <1>1
      <4>6. ASSUME NEW n \in Demand(q[k]) \cap Package
            PROVE  \E j \in 1..(i - 1) : r[j].do = "install" /\ r[j].what = n
        <5>1. \/ \E j \in DOMAIN p : p[j].do = "install" /\ p[j].what = n
              \/ \E j \in 1..(k - 1) : q[j].do = "install" /\ q[j].what = n
          BY <4>1, <1>1
        <5> QED
          BY <5>1, <4>3, <4>4
      <4> QED
        BY <4>2, <4>5, <4>6
    <3> QED
      BY <3>1, <3>2, <2>2
  <2>4. Orderly(r)
    BY <2>2, <2>3 DEF Orderly
  <2> QED
    BY <2>4 DEF r
<1>2. ASSUME NEW p, NEW q, Orderly(p), Orderly(q) PROVE Orderly(p \o q)
  <2>1. /\ \A i \in DOMAIN q : q[i].do \in {"install", "import", "run"}
        /\ q \in Seq(Item)
        /\ \A i \in DOMAIN q : \A n \in Demand(q[i]) \cap Package :
             \E j \in 1..(i - 1) : q[j].do = "install" /\ q[j].what = n
    BY <1>2 DEF Orderly
  <2> QED
    BY <1>1, <1>2, <2>1
<1>3. ASSUME NEW p, NEW n, NEW a, NEW b, Orderly(p), p # <<>>, Gives(p[1], n), Uses(a, n), Uses(b, n)
      PROVE  Orderly(p \o <<a, b>>)
  <2> DEFINE q == <<a, b>>
  <2>1. 1 \in DOMAIN p /\ p[1].do = "install" /\ p[1].what = n
    BY <1>3 DEF Orderly, Gives
  <2>2. q \in Seq(Item) /\ \A i \in DOMAIN q : q[i].do \in {"install", "import", "run"}
    BY <1>3 DEF Uses
  <2>3. \A i \in DOMAIN q : Demand(q[i]) \cap Package \subseteq {n}
    BY <1>3 DEF Uses
  <2> HIDE DEF q
  <2>4. Orderly(p \o q)
    BY <1>1, <1>3, <2>1, <2>2, <2>3
  <2> QED
    BY <2>4 DEF q
<1> QED
  BY <1>2, <1>3

\* The operations of the steps.
LEMMA OperationsOrderly ==
  /\ \A c \in {"actionlint", "shellcheck", "markdownlint", "run blocks", "callers",
               "opa test", "opa input", "opa hygiene", "fixtures", "safe plan", "bad plan",
               "manifest", "contract shape", "docs", "adr", "integration"} : Plain(Run(c))
  /\ \A p \in Package : Gives(Install(p), p) /\ Uses(Import(p), p)
  /\ Uses(Run("ruff"), "ruff") /\ Uses(Run("yamllint"), "yamllint")
  /\ \A c \in {"privileged", "privileged tests", "contract", "contract tests", "contract shape",
               "opa input", "opa hygiene"} :
       Uses(Run(c), "pyyaml")
<1>c. \A c \in Command : Run(c) \in Item /\ Run(c).do = "run" /\ Demand(Run(c)) = Depends(c)
  BY Operations
<1>1. ASSUME NEW c \in {"actionlint", "shellcheck", "markdownlint", "run blocks", "callers",
               "opa test", "opa input", "opa hygiene", "fixtures", "safe plan", "bad plan",
               "manifest", "contract shape", "docs", "adr", "integration"}
      PROVE  Plain(Run(c))
  <2>1. c \in Command
    BY DEF Command
  <2>2. Depends(c) \cap Package = {}
    BY PackagesNeeded
  <2> QED
    BY <1>c, <2>1, <2>2 DEF Plain
<1>2. \A p \in Package : Gives(Install(p), p) /\ Uses(Import(p), p)
  BY Operations DEF Gives, Uses
<1>3. ASSUME NEW p, NEW c \in Command, Depends(c) \cap Package \subseteq {p}
      PROVE  Uses(Run(c), p)
  BY <1>3, <1>c DEF Uses
<1>4. "ruff" \in Command /\ "yamllint" \in Command
  BY DEF Command
<1>5. Uses(Run("ruff"), "ruff") /\ Uses(Run("yamllint"), "yamllint")
  BY <1>3, <1>4, PackagesNeeded
<1>6. ASSUME NEW c \in {"privileged", "privileged tests", "contract", "contract tests",
                        "contract shape", "opa input", "opa hygiene"}
      PROVE  Uses(Run(c), "pyyaml")
  <2>1. c \in Command
    BY DEF Command
  <2>2. Depends(c) \cap Package \subseteq {"pyyaml"}
    <3>1. CASE c \in {"privileged", "privileged tests", "contract", "contract tests"}
      BY <3>1, PackagesNeeded
    <3>2. CASE c \in {"contract shape", "opa input", "opa hygiene"}
      BY <3>2, PackagesNeeded
    <3> QED
      BY <3>1, <3>2
  <2> QED
    BY <1>3, <2>1, <2>2
<1> QED
  BY <1>1, <1>2, <1>5, <1>6

\* A step installs the packages it needs.
LEMMA StepsOrderly == \A s \in DOMAIN Steps : Orderly(Steps[s])
<1> USE OperationsOrderly, OrderlyLists, StepLists
<1>p. {"pyyaml", "ruff", "yamllint"} \subseteq Package
  BY DEF Package
<1>1. Orderly(Steps["ruff"]) /\ Orderly(Steps["yamllint"])
  BY <1>p
<1>2. \A s \in {"actionlint", "shellcheck", "markdownlint", "opa_test", "manifest", "docs",
                "adr", "integration"} : Orderly(Steps[s])
  OBVIOUS
<1>3. Orderly(Steps["privileged"]) /\ Orderly(Steps["contract_tests"])
  BY <1>p
<1>4. Orderly(Steps["opa_policy"]) /\ Orderly(Steps["opa_plan"])
  BY <1>p
<1>5. Orderly(Steps["contract_shape"])
  BY <1>p
<1>6. Orderly(Steps["helpers"])
  BY <1>3, OrderlyConcat
<1>7. Orderly(Steps["contract"])
  <2> DEFINE p == <<Install("pyyaml"), Import("pyyaml"), Run("contract shape")>>
  <2>1. Orderly(p) /\ p # <<>> /\ Gives(p[1], "pyyaml")
    BY <1>5, <1>p
  <2>2. Steps["contract"] = p \o <<Run("contract"), Run("contract tests")>>
    OBVIOUS
  <2> HIDE DEF p
  <2> QED
    BY <2>1, <2>2, OrderlyConcat
<1> QED
  BY <1>1, <1>2, <1>3, <1>4, <1>5, <1>6, <1>7, StepNames

\* Short lists of members of a set.
LEMMA Tuples ==
  ASSUME NEW S
  PROVE  /\ \A a \in S : <<a>> \in Seq(S)
         /\ \A a, b \in S : <<a, b>> \in Seq(S)
         /\ \A a, b, c \in S : <<a, b, c>> \in Seq(S)
         /\ \A p, q \in Seq(S) : p \o q \in Seq(S)
OBVIOUS

\* Only the contract steps import anything.
LEMMA StepImports ==
  ASSUME NEW s \in DOMAIN Steps, NEW i \in DOMAIN Steps[s], Steps[s][i].do = "import"
  PROVE  Steps[s][i].what = "pyyaml" /\ s \in {"contract_shape", "contract"}
<1> DEFINE NoImport == {t \in Item : t.do # "import"}
           OfPyyaml == {t \in Item : t.do = "import" => t.what = "pyyaml"}
<1>1. (\A p \in Package : Install(p) \in NoImport) /\ \A c \in Command : Run(c) \in NoImport
  BY Operations
<1>2. (\A p \in Package : Install(p) \in OfPyyaml) /\ \A c \in Command : Run(c) \in OfPyyaml
  BY Operations
<1>3. "pyyaml" \in Package /\ "ruff" \in Package /\ "yamllint" \in Package
  BY DEF Package
<1>4. Import("pyyaml") \in OfPyyaml
  BY Operations, <1>3
<1>5. \A q : q \in Seq(NoImport) => \A k \in DOMAIN q : q[k].do # "import"
  OBVIOUS
<1>6. \A q : q \in Seq(OfPyyaml) => \A k \in DOMAIN q : q[k].do = "import" => q[k].what = "pyyaml"
  OBVIOUS
<1> HIDE DEF NoImport, OfPyyaml
<1> DEFINE Tame == NoImport \cap OfPyyaml
<1>7. \A c \in Command : Run(c) \in Tame
  BY <1>1, <1>2
<1> HIDE DEF Tame
<1>8. /\ Run("ruff") \in Tame
      /\ Run("yamllint") \in Tame
      /\ Run("actionlint") \in Tame
      /\ Run("shellcheck") \in Tame
      /\ Run("markdownlint") \in Tame
      /\ Run("run blocks") \in Tame
      /\ Run("callers") \in Tame
      /\ Run("privileged") \in Tame
      /\ Run("privileged tests") \in Tame
      /\ Run("opa test") \in Tame
      /\ Run("opa input") \in Tame
      /\ Run("opa hygiene") \in Tame
      /\ Run("fixtures") \in Tame
      /\ Run("safe plan") \in Tame
      /\ Run("bad plan") \in Tame
      /\ Run("manifest") \in Tame
      /\ Run("contract shape") \in Tame
      /\ Run("contract") \in Tame
      /\ Run("contract tests") \in Tame
      /\ Run("docs") \in Tame
      /\ Run("adr") \in Tame
      /\ Run("integration") \in Tame
  BY <1>7 DEF Command
<1>t. /\ Install("pyyaml") \in Tame /\ Install("ruff") \in Tame /\ Install("yamllint") \in Tame
      /\ Import("pyyaml") \in OfPyyaml
  BY <1>1, <1>2, <1>3, <1>4 DEF Tame
<1>9. CASE s \in {"contract_shape", "contract"}
  <2>1. /\ Install("pyyaml") \in OfPyyaml /\ Run("contract shape") \in OfPyyaml
        /\ Run("contract") \in OfPyyaml /\ Run("contract tests") \in OfPyyaml
    BY <1>8, <1>t DEF Tame
  <2>2. <<Install("pyyaml"), Import("pyyaml"), Run("contract shape")>> \in Seq(OfPyyaml)
    BY <1>t, <2>1, Tuples
  <2>3. <<Run("contract"), Run("contract tests")>> \in Seq(OfPyyaml)
    BY <2>1, Tuples
  <2>4. Steps["contract_shape"] \in Seq(OfPyyaml)
    BY <2>2, StepLists
  <2>5. Steps["contract"] \in Seq(OfPyyaml)
    BY <2>2, <2>3, StepLists, Tuples
  <2> QED
    BY <2>4, <2>5, <1>6, <1>9
<1>10. CASE s \notin {"contract_shape", "contract"}
  <2>1. Steps["helpers"] \in Seq(Tame)
    <3>1. /\ <<Run("shellcheck")>> \in Seq(Tame)
          /\ <<Run("run blocks"), Run("callers")>> \in Seq(Tame)
      BY <1>8, Tuples
    <3>2. <<Install("pyyaml"), Run("privileged"), Run("privileged tests")>> \in Seq(Tame)
      BY <1>8, <1>t, Tuples
    <3>3. <<Run("shellcheck")>> \o <<Run("run blocks"), Run("callers")>> \in Seq(Tame)
      BY <3>1, Tuples
    <3>4. Steps["helpers"] = (<<Run("shellcheck")>> \o <<Run("run blocks"), Run("callers")>>)
                           \o <<Install("pyyaml"), Run("privileged"), Run("privileged tests")>>
      BY StepLists
    <3> QED
      BY <3>2, <3>3, <3>4, Tuples
  <2>2. /\ <<Install("ruff"), Run("ruff")>> \in Seq(Tame)
        /\ <<Install("yamllint"), Run("yamllint")>> \in Seq(Tame)
        /\ <<Install("pyyaml"), Run("contract tests")>> \in Seq(Tame)
    BY <1>8, <1>t, Tuples
  <2>3. /\ <<Install("pyyaml"), Run("privileged"), Run("privileged tests")>> \in Seq(Tame)
        /\ <<Install("pyyaml"), Run("opa input"), Run("opa hygiene")>> \in Seq(Tame)
        /\ <<Run("fixtures"), Run("safe plan"), Run("bad plan")>> \in Seq(Tame)
    BY <1>8, <1>t, Tuples
  <2>4. /\ <<Run("actionlint")>> \in Seq(Tame) /\ <<Run("shellcheck")>> \in Seq(Tame)
        /\ <<Run("markdownlint")>> \in Seq(Tame) /\ <<Run("opa test")>> \in Seq(Tame)
        /\ <<Run("manifest")>> \in Seq(Tame) /\ <<Run("docs")>> \in Seq(Tame)
        /\ <<Run("adr")>> \in Seq(Tame) /\ <<Run("integration")>> \in Seq(Tame)
    BY <1>8, Tuples
  <2>5. Steps[s] \in Seq(Tame)
    BY <1>10, <2>1, <2>2, <2>3, <2>4, StepNames, StepLists
  <2>6. \A k \in DOMAIN Steps[s] : Steps[s][k] \in Tame
    BY <2>5
  <2> QED
    BY <2>6 DEF Tame, NoImport
<1> QED
  BY <1>9, <1>10

----------------------------------------------------------------------------
\* What items of todo stand for

\* What an item is about depends on its kind.
LEMMA KindsOfItems ==
  ASSUME NEW t \in Item
  PROVE  /\ t.do \in {"fetch", "apt", "execute", "install", "import", "run"}
         /\ t.do = "fetch" => t.what \in Range(Fetched)
         /\ t.do = "apt" => t.what = "shellcheck"
         /\ t.do = "execute" => t.what \in Named
         /\ t.do \in {"install", "import"} => t.what \in Package
         /\ t.do = "run" => t.what \in Command
BY DEF Item, Named

\* A name stands for an item.
LEMMA ExecuteIsItem ==
  ASSUME NEW n \in Named
  PROVE  Execute(n) \in Item /\ Execute(n).do = "execute" /\ Execute(n).what = n
BY DEF Execute, Do, Item, Named

\* The children of a target owe what the target owes, and nothing else.
LEMMA OwedByTarget ==
  ASSUME NEW t \in DOMAIN Targets
  PROVE  /\ ExecuteAll(Targets[t]) \in Seq(Item)
         /\ DOMAIN ExecuteAll(Targets[t]) = DOMAIN Targets[t]
         /\ \A i \in DOMAIN Targets[t] :
              /\ ExecuteAll(Targets[t])[i] = Execute(Targets[t][i])
              /\ Targets[t][i] \in Named
              /\ Below[Targets[t][i]] \subseteq Below[t]
              /\ Owed(Execute(Targets[t][i])) \subseteq Owed(Execute(t))
         /\ \A c \in Owed(Execute(t)) : \E i \in DOMAIN Targets[t] : c \in Owed(Execute(Targets[t][i]))
<1>1. Targets[t] \in Seq(Named)
  BY Children
<1>2. \A i \in DOMAIN Targets[t] : Targets[t][i] \in Named
  BY <1>1
<1>3. \A i \in DOMAIN Targets[t] : Below[Targets[t][i]] \subseteq Below[t]
  BY BelowATarget
<1>4. t \in Named
  BY DEF Named
<1>5. \A n \in Named : Owed(Execute(n)) = UNION {CommandsOf(s) : s \in Below[n]}
  BY ExecuteIsItem DEF Owed
<1>6. ExecuteAll(Targets[t]) \in Seq(Item)
  BY <1>1, <1>2, ExecuteIsItem DEF ExecuteAll
<1>7. \A c \in Owed(Execute(t)) : \E i \in DOMAIN Targets[t] : c \in Owed(Execute(Targets[t][i]))
  BY <1>2, <1>4, <1>5, BelowATarget
<1>8. \A i \in DOMAIN Targets[t] : Owed(Execute(Targets[t][i])) \subseteq Owed(Execute(t))
  BY <1>2, <1>3, <1>4, <1>5
<1> QED
  BY <1>2, <1>3, <1>6, <1>7, <1>8 DEF ExecuteAll

\* The operations of a step owe what the step owes.
LEMMA OwedByStep ==
  ASSUME NEW s \in DOMAIN Steps
  PROVE  /\ Owed(Execute(s)) = CommandsOf(s)
         /\ \A c \in CommandsOf(s) : \E i \in DOMAIN Steps[s] : c \in Owed(Steps[s][i])
         /\ \A i \in DOMAIN Steps[s] : Owed(Steps[s][i]) \subseteq CommandsOf(s)
         /\ \A i \in DOMAIN Steps[s] : Steps[s][i].do = "run" => Steps[s][i].what \in CommandsOf(s)
<1>1. s \in Named /\ Below[s] = {s}
  BY BelowAStep DEF Named
<1>2. Owed(Execute(s)) = CommandsOf(s)
  BY <1>1, ExecuteIsItem DEF Owed
<1>3. \A i \in DOMAIN Steps[s] : Steps[s][i].do \in {"install", "import", "run"}
  BY StepsOrderly DEF Orderly
<1> QED
  BY <1>2, <1>3 DEF Owed, CommandsOf

----------------------------------------------------------------------------
\* The inductive invariant

\* What only depends on the setup stays.
LEMMA SetupStays ==
  ASSUME UNCHANGED setup
  PROVE  /\ Asked' = Asked /\ Provided' = Provided
         /\ \A c : Passes(c)' <=> Passes(c)
         /\ \A t : Belongs(t)' <=> Belongs(t)
         /\ Caused' <=> Caused
<1>1. Asked' = Asked /\ Provided' = Provided
  BY DEF Asked, Provided
<1>2. \A c : Passes(c)' <=> Passes(c)
  BY DEF Passes, OpaPlanDenies
<1>3. \A t : Belongs(t)' <=> Belongs(t)
  BY <1>1 DEF Belongs
<1>4. Caused' <=> Caused
  BY <1>1, <1>2 DEF Caused
<1> QED
  BY <1>1, <1>2, <1>3, <1>4

\* The invariant holds at the start: a job fetches and installs what its target
\* needs before it runs it, a call by hand starts with the target alone.
LEMMA InitIInv == Init => IInv
<1> SUFFICES ASSUME Init PROVE IInv
  OBVIOUS
<1> USE DEF Init
<1>1. IsSetup(setup)
  BY SetupsAssumption
<1>2. setup.has \subseteq Package \cup Executable /\ setup.target \in Named
      /\ setup.job \in {"none", "verify", "helpers"}
  BY <1>1 DEF IsSetup, Named
<1>3. "verify" \in Named /\ "helpers" \in Named
  BY StepNames, TargetNames DEF Named
<1>4. Asked \in Named /\ Execute(Asked) \in Item /\ Execute(Asked).do = "execute"
      /\ Execute(Asked).what = Asked
  BY <1>2, <1>3, ExecuteIsItem DEF Asked
<1>5. Owed(Execute(Asked)) = UNION {CommandsOf(s) : s \in Below[Asked]}
  BY <1>4 DEF Owed
<1>6. Demand(Execute(Asked)) \cap Package = {} /\ Belongs(Execute(Asked))
  <2>1. ASSUME NEW t, t.do = "execute" PROVE Demand(t) \cap Package = {}
    <3>1. Demand(t) = (UNION {Depends(c) : c \in Owed(t)}) \ Package
      BY <2>1 DEF Demand
    <3> QED
      BY <3>1
  <2>2. \A t : t.do = "execute" /\ t.what = Asked => Belongs(t)
    BY DEF Belongs
  <2> QED
    BY <1>4, <2>1, <2>2
<1> DEFINE Shell == Do("apt", "shellcheck")
           Fetches == [k \in DOMAIN Fetched |-> Do("fetch", Fetched[k])]
<1>7. Shell \in Item /\ Shell.do = "apt" /\ Shell.what = "shellcheck" /\ Demand(Shell) = {}
  BY DEF Item, Do, Demand
<1>8. Fetched \in Seq(Range(Fetched)) /\ Len(Fetched) = 5
  BY DEF Fetched, Range
<1>9. /\ Fetches \in Seq(Item) /\ Len(Fetches) = 5 /\ DOMAIN Fetches = 1..5
      /\ \A k \in 1..5 : /\ Fetches[k].do = "fetch" /\ Fetches[k].what = Fetched[k]
                         /\ Demand(Fetches[k]) = {}
  <2>1. DOMAIN Fetched = 1..5 /\ \A k \in 1..5 : Fetched[k] \in Range(Fetched)
    BY <1>8 DEF Range
  <2>2. \A x \in Range(Fetched) : /\ Do("fetch", x) \in Item /\ Do("fetch", x).do = "fetch"
                                  /\ Do("fetch", x).what = x /\ Demand(Do("fetch", x)) = {}
    BY DEF Do, Item, Demand
  <2>3. DOMAIN Fetches = 1..5 /\ \A k \in 1..5 : Fetches[k] = Do("fetch", Fetched[k])
    BY <2>1
  <2>4. Fetches = [k \in 1..5 |-> Fetches[k]]
    BY <2>1
  <2> HIDE DEF Fetches
  <2>5. Fetches \in Seq(Item) /\ Len(Fetches) = 5
    BY <2>1, <2>2, <2>3, <2>4
  <2> QED
    BY <2>1, <2>2, <2>3, <2>5
<1>10. ASSUME todo \in Seq(Item),
              NEW k \in DOMAIN todo, todo[k] = Execute(Asked),
              \A i \in DOMAIN todo : i # k => Demand(todo[i]) = {} /\ Belongs(todo[i]),
              \A n \in Demand(Execute(Asked)) \cap Provided :
                \/ n \in has
                \/ \E j \in 1..(k - 1) : todo[j].do \in {"fetch", "apt", "install"} /\ todo[j].what = n
       PROVE  IInv
  <2>1. TypeOK
    BY <1>1, <1>2, <1>10 DEF TypeOK
  <2>2. NothingLost
    BY <1>5, <1>10 DEF NothingLost
  <2>3. PassedRightly
    BY DEF PassedRightly
  <2>4. AllBelong
    BY <1>6, <1>10 DEF AllBelong
  <2>5. Supplied
    BY <1>10 DEF Supplied
  <2> QED
    BY <2>1, <2>2, <2>3, <2>4, <2>5 DEF IInv
<1>11. CASE setup.job = "verify"
  <2> DEFINE Rest == <<Shell, Execute("verify")>>
  <2>1. Asked = "verify"
    BY <1>11 DEF Asked
  <2>2. Rest \in Seq(Item) /\ Len(Rest) = 2 /\ Rest[1] = Shell /\ Rest[2] = Execute(Asked)
    BY <1>4, <1>7, <2>1
  <2>3. todo = Fetches \o Rest
    BY <1>11 DEF Program
  <2> HIDE DEF Fetches, Rest, Shell
  <2>4. /\ todo \in Seq(Item) /\ DOMAIN todo = 1..7
        /\ \A i \in 1..5 : todo[i] = Fetches[i]
        /\ todo[6] = Shell /\ todo[7] = Execute(Asked)
    <3>1. Fetches \in Seq(Item) /\ Len(Fetches) = 5
      BY <1>9
    <3>c. /\ Fetches \o Rest \in Seq(Item) /\ Len(Fetches \o Rest) = Len(Fetches) + Len(Rest)
          /\ \A i \in 1..Len(Fetches) : (Fetches \o Rest)[i] = Fetches[i]
          /\ \A i \in 1..Len(Rest) : (Fetches \o Rest)[i + Len(Fetches)] = Rest[i]
      <4>1. \A p, q \in Seq(Item) :
              /\ p \o q \in Seq(Item) /\ Len(p \o q) = Len(p) + Len(q)
              /\ \A i \in 1..Len(p) : (p \o q)[i] = p[i]
              /\ \A i \in 1..Len(q) : (p \o q)[i + Len(p)] = q[i]
        BY ConcatParts
      <4> QED
        BY <4>1, <3>1, <2>2, Zenon
    <3>2. /\ todo \in Seq(Item) /\ Len(todo) = 5 + 2
          /\ \A i \in 1..5 : todo[i] = Fetches[i]
          /\ \A i \in 1..2 : todo[i + 5] = Rest[i]
      <4> HIDE DEF Init
      <4> QED
        BY <3>1, <3>c, <2>2, <2>3
    <3> QED
      BY <2>2, <3>2
  <2>5. \A i \in DOMAIN todo : i # 7 => Demand(todo[i]) = {} /\ Belongs(todo[i])
    BY <1>7, <1>9, <1>11, <2>4 DEF Belongs
  <2>6. Provided \subseteq has \cup {Fetched[i] : i \in 1..5} \cup {"shellcheck"} \cup Package
    BY <1>8, <1>11 DEF Provided, Range
  <2>7. ASSUME NEW n \in Demand(Execute(Asked)) \cap Provided, n \notin has
        PROVE  \E j \in 1..6 : todo[j].do \in {"fetch", "apt", "install"} /\ todo[j].what = n
    <3>1. n \in {Fetched[i] : i \in 1..5} \/ n = "shellcheck"
      BY <1>6, <2>6, <2>7
    <3> QED
      BY <3>1, <1>7, <1>9, <2>4
  <2> QED
    BY <1>10, <2>4, <2>5, <2>7
<1>12. CASE setup.job = "helpers"
  <2>1. Asked = "helpers"
    BY <1>12 DEF Asked
  <2>2. todo = <<Shell, Execute(Asked)>>
    BY <1>12, <2>1 DEF Program
  <2> HIDE DEF Shell
  <2>3. /\ todo \in Seq(Item) /\ DOMAIN todo = 1..2 /\ todo[1] = Shell /\ todo[2] = Execute(Asked)
    BY <1>4, <1>7, <2>2
  <2>4. \A i \in DOMAIN todo : i # 2 => Demand(todo[i]) = {} /\ Belongs(todo[i])
    BY <1>7, <1>12, <2>3 DEF Belongs
  <2>5. Provided \subseteq has \cup {"shellcheck"} \cup Package
    BY <1>12 DEF Provided
  <2>6. ASSUME NEW n \in Demand(Execute(Asked)) \cap Provided, n \notin has
        PROVE  \E j \in 1..1 : todo[j].do \in {"fetch", "apt", "install"} /\ todo[j].what = n
    BY <1>6, <1>7, <2>3, <2>5, <2>6
  <2> QED
    BY <1>10, <2>3, <2>4, <2>6
<1>13. CASE setup.job = "none"
  <2>1. Asked = setup.target /\ Provided = has
    BY <1>13 DEF Asked, Provided
  <2>2. todo = <<Execute(Asked)>>
    BY <1>13, <2>1 DEF Program
  <2>3. todo \in Seq(Item) /\ DOMAIN todo = {1} /\ todo[1] = Execute(Asked)
    BY <1>4, <2>2
  <2> QED
    BY <1>10, <2>1, <2>3
<1> QED
  BY <1>2, <1>11, <1>12, <1>13

\* A step that fails.
LEMMA FailStep ==
  ASSUME IInv, UNCHANGED <<setup, todo, has, done>>, exit' = "nonzero", Caused
  PROVE  IInv'
<1>1. TypeOK' /\ NothingLost'
  BY DEF IInv, TypeOK, NothingLost
<1>2. PassedRightly'
  BY SetupStays DEF IInv, PassedRightly, Blind
<1>3. AllBelong'
  BY SetupStays DEF IInv, AllBelong
<1>4. Supplied'
  BY SetupStays DEF IInv, Supplied
<1> QED
  BY <1>1, <1>2, <1>3, <1>4, SetupStays DEF IInv

\* The parts of the invariant that do not look at todo.
LEMMA StateStep ==
  ASSUME IInv, UNCHANGED <<setup, exit>>, todo' \in Seq(Item),
         has \subseteq has', has' \subseteq Package \cup Executable,
         done \subseteq done', done' \subseteq Command,
         has' \cap setup.corrupt \subseteq setup.has,
         setup.job = "none" => UNCHANGED has,
         \A c \in done' \ done : \/ Passes(c) /\ Depends(c) \subseteq has
                                 \/ Blind(c) /\ setup.job = "none"
  PROVE  TypeOK' /\ PassedRightly' /\ (exit' = "nonzero" => Caused')
<1>1. TypeOK'
  BY DEF IInv, TypeOK
<1>2. PassedRightly'
  <2>1. ASSUME NEW c \in done'
        PROVE  \/ Passes(c) /\ Depends(c) \subseteq has'
               \/ setup.job = "none" /\ Blind(c) /\ has' = has
    BY <2>1 DEF IInv, PassedRightly
  <2> QED
    BY <2>1, SetupStays DEF IInv, PassedRightly, Blind
<1>3. exit' = "nonzero" => Caused'
  BY SetupStays DEF IInv
<1> QED
  BY <1>1, <1>2, <1>3

\* A step that does what todo asks for next.
LEMMA GoStep ==
  ASSUME IInv, exit = "none", todo # <<>>, UNCHANGED setup, Go,
         has \subseteq has', has' \subseteq Package \cup Executable,
         done \subseteq done', done' \subseteq Command,
         has' \cap setup.corrupt \subseteq setup.has,
         setup.job = "none" => UNCHANGED has,
         \A c \in done' \ done : \/ Passes(c) /\ Depends(c) \subseteq has
                                 \/ Blind(c) /\ setup.job = "none",
         Owed(todo[1]) \subseteq done',
         todo[1].do \in {"fetch", "apt", "install"} /\ todo[1].what \in Provided
           => todo[1].what \in has'
  PROVE  IInv'
<1>1. /\ todo \in Seq(Item) /\ 1 \in DOMAIN todo /\ todo' = Tail(todo) /\ todo' \in Seq(Item)
      /\ \A i \in DOMAIN todo' : i \in Nat \ {0} /\ i + 1 \in DOMAIN todo /\ todo'[i] = todo[i + 1]
      /\ \A i \in DOMAIN todo : i \in Nat /\ (i # 1 => i - 1 \in DOMAIN todo' /\ todo'[i - 1] = todo[i])
  BY TailFacts DEF IInv, TypeOK, Go
<1>2. exit' = "none"
  BY DEF Go
<1>3. TypeOK' /\ PassedRightly' /\ (exit' = "nonzero" => Caused')
  BY <1>1, StateStep DEF Go
<1>4. NothingLost'
  <2>1. ASSUME NEW s \in Below[Asked], NEW c \in CommandsOf(s), c \notin done'
        PROVE  \E k \in DOMAIN todo' : c \in Owed(todo'[k])
    <3>1. PICK i \in DOMAIN todo : c \in Owed(todo[i])
      BY <2>1 DEF IInv, NothingLost
    <3>2. i # 1
      BY <2>1, <3>1
    <3> QED
      BY <1>1, <3>1, <3>2
  <2> QED
    BY <1>2, <2>1, SetupStays DEF NothingLost
<1>5. AllBelong'
  BY <1>1, SetupStays DEF IInv, AllBelong
<1>6. Supplied'
  <2>1. ASSUME NEW k \in DOMAIN todo', NEW n \in Demand(todo'[k]) \cap Provided, n \notin has'
        PROVE  \E m \in 1..(k - 1) : /\ todo'[m].do \in {"fetch", "apt", "install"}
                                     /\ todo'[m].what = n
    <3>1. k + 1 \in DOMAIN todo /\ n \in Demand(todo[k + 1]) \cap Provided /\ n \notin has
      BY <1>1, <2>1
    <3>2. PICK j \in 1..((k + 1) - 1) : todo[j].do \in {"fetch", "apt", "install"} /\ todo[j].what = n
      BY <3>1 DEF IInv, Supplied
    <3>3. j # 1
      BY <2>1, <3>2
    <3>4. j - 1 \in 1..(k - 1) /\ j \in DOMAIN todo
      <4>1. DOMAIN todo = 1..Len(todo) /\ Len(todo) \in Nat /\ k \in Nat
        BY <1>1
      <4>2. j \in Nat /\ 1 <= j /\ j <= k
        BY <3>2, <4>1
      <4> QED
        BY <3>1, <3>3, <4>1, <4>2
    <3>5. todo'[j - 1] = todo[j]
      BY <1>1, <3>3, <3>4
    <3> QED
      BY <3>2, <3>4, <3>5
  <2> QED
    BY <2>1, SetupStays DEF Supplied
<1> QED
  BY <1>3, <1>4, <1>5, <1>6 DEF IInv

Comes(q, k, n) ==
  \E m \in 1..(k - 1) : q[m].do \in {"fetch", "apt", "install"} /\ q[m].what = n

\* A step that puts the parts of a target or of a step in its place.
LEMMA ExpandStep ==
  ASSUME IInv, exit = "none", todo # <<>>, todo[1].do = "execute",
         UNCHANGED <<setup, has, done, exit>>,
         NEW new \in Seq(Item), todo' = new \o Tail(todo),
         \A c \in Owed(todo[1]) : \E i \in DOMAIN new : c \in Owed(new[i]),
         \A i \in DOMAIN new : Belongs(new[i]),
         \A i \in DOMAIN new : \A n \in Demand(new[i]) :
           \/ n \in Demand(todo[1])
           \/ \E j \in 1..(i - 1) : new[j].do = "install" /\ new[j].what = n
  PROVE  IInv'
<1> DEFINE rest == Tail(todo)
<1>1. /\ todo \in Seq(Item) /\ 1 \in DOMAIN todo /\ rest \in Seq(Item)
      /\ \A i \in DOMAIN rest : i \in Nat \ {0} /\ i + 1 \in DOMAIN todo /\ rest[i] = todo[i + 1]
      /\ \A i \in DOMAIN todo : i \in Nat /\ (i # 1 => i - 1 \in DOMAIN rest /\ rest[i - 1] = todo[i])
  BY TailFacts DEF IInv, TypeOK
<1> HIDE DEF rest
<1>2. todo' = new \o rest
  BY DEF rest
<1>3. /\ todo' \in Seq(Item)
      /\ \A i \in DOMAIN new : i \in DOMAIN todo' /\ todo'[i] = new[i]
      /\ \A i \in DOMAIN rest : i + Len(new) \in DOMAIN todo' /\ todo'[i + Len(new)] = rest[i]
      /\ \A i \in DOMAIN todo' : i \in DOMAIN new \/ (i \in Nat /\ i - Len(new) \in DOMAIN rest)
  <2>1. \A p, q \in Seq(Item) :
         /\ p \o q \in Seq(Item)
         /\ \A i \in DOMAIN p : i \in DOMAIN (p \o q) /\ (p \o q)[i] = p[i]
         /\ \A i \in DOMAIN q : i + Len(p) \in DOMAIN (p \o q) /\ (p \o q)[i + Len(p)] = q[i]
         /\ \A i \in DOMAIN (p \o q) : i \in DOMAIN p \/ (i \in Nat /\ i - Len(p) \in DOMAIN q)
    BY ConcatFacts
  <2>2. /\ new \o rest \in Seq(Item)
        /\ \A i \in DOMAIN new : i \in DOMAIN (new \o rest) /\ (new \o rest)[i] = new[i]
        /\ \A i \in DOMAIN rest :
             i + Len(new) \in DOMAIN (new \o rest) /\ (new \o rest)[i + Len(new)] = rest[i]
        /\ \A i \in DOMAIN (new \o rest) :
             i \in DOMAIN new \/ (i \in Nat /\ i - Len(new) \in DOMAIN rest)
    <3>1. new \in Seq(Item) /\ rest \in Seq(Item)
      BY <1>1
    <3> QED
      BY <2>1, <3>1, Zenon
  <2> QED
    BY <1>2, <2>2, Zenon
<1>l. Len(new) \in Nat /\ DOMAIN new = 1..Len(new)
  OBVIOUS
<1>4. TypeOK' /\ PassedRightly' /\ (exit' = "nonzero" => Caused')
  BY <1>3, StateStep DEF IInv, TypeOK, PassedRightly
<1>5. NothingLost'
  <2>1. ASSUME NEW s \in Below[Asked], NEW c \in CommandsOf(s), c \notin done
        PROVE  \E k \in DOMAIN todo' : c \in Owed(todo'[k])
    <3>1. PICK i \in DOMAIN todo : c \in Owed(todo[i])
      BY <2>1 DEF IInv, NothingLost
    <3>2. CASE i = 1
      BY <1>3, <3>1, <3>2
    <3>3. CASE i # 1
      <4>1. i - 1 \in DOMAIN rest /\ c \in Owed(rest[i - 1])
        BY <1>1, <3>1, <3>3
      <4> QED
        BY <1>3, <4>1
    <3> QED
      BY <3>2, <3>3
  <2> QED
    BY <2>1, SetupStays DEF NothingLost
<1>6. AllBelong'
  <2>1. ASSUME NEW k \in DOMAIN todo' PROVE Belongs(todo'[k])
    <3>1. CASE k \in DOMAIN new
      BY <1>3, <3>1
    <3>2. CASE k \in Nat /\ k - Len(new) \in DOMAIN rest
      <4>1. PICK i \in DOMAIN rest : i = k - Len(new)
        BY <3>2
      <4>2. k = i + Len(new) /\ i + 1 \in DOMAIN todo /\ rest[i] = todo[i + 1]
        BY <1>1, <1>l, <3>2, <4>1
      <4>3. Belongs(todo[i + 1])
        BY <4>2 DEF IInv, AllBelong
      <4> QED
        BY <1>3, <4>2, <4>3
    <3> QED
      BY <1>3, <3>1, <3>2
  <2> QED
    BY <2>1, SetupStays DEF AllBelong
<1>7. \A k \in DOMAIN todo' : \A n \in Demand(todo'[k]) \cap Provided :
        n \in has \/ Comes(todo', k, n)
  <2>1. ASSUME NEW k \in DOMAIN todo', NEW n \in Demand(todo'[k]) \cap Provided, n \notin has
        PROVE  Comes(todo', k, n)
    <3>1. CASE k \in DOMAIN new
      <4>1. n \notin Demand(todo[1])
        BY <1>1, <2>1 DEF IInv, Supplied
      <4>2. PICK j \in 1..(k - 1) : new[j].do = "install" /\ new[j].what = n
        BY <1>3, <2>1, <3>1, <4>1
      <4>3. j \in DOMAIN new
        BY <1>l, <3>1, <4>2
      <4> QED
        BY <1>3, <4>2, <4>3 DEF Comes
    <3>2. CASE k \in Nat /\ k - Len(new) \in DOMAIN rest
      <4>1. PICK i \in DOMAIN rest : i = k - Len(new)
        BY <3>2
      <4>2. /\ i \in Nat /\ k = i + Len(new) /\ i + 1 \in DOMAIN todo
            /\ rest[i] = todo[i + 1] /\ todo'[k] = rest[i]
        BY <1>1, <1>3, <1>l, <3>2, <4>1
      <4>3. PICK j \in 1..((i + 1) - 1) : todo[j].do \in {"fetch", "apt", "install"} /\ todo[j].what = n
        BY <2>1, <4>2 DEF IInv, Supplied
      <4>4. j # 1
        BY <4>3
      <4>5. j \in DOMAIN todo /\ j - 1 \in Nat /\ j - 1 \in DOMAIN rest /\ rest[j - 1] = todo[j]
        <5>1. j \in DOMAIN todo
          <6>1. DOMAIN todo = 1..Len(todo) /\ Len(todo) \in Nat
            BY <1>1
          <6> QED
            BY <4>2, <4>3, <6>1
        <5> QED
          BY <1>1, <4>3, <4>4, <5>1
      <4>6. (j - 1) + Len(new) \in 1..(k - 1)
        BY <1>l, <4>2, <4>3, <4>4
      <4>7. todo'[(j - 1) + Len(new)] = rest[j - 1]
        BY <1>3, <4>5
      <4> QED
        BY <4>3, <4>5, <4>6, <4>7 DEF Comes
    <3> QED
      BY <1>3, <3>1, <3>2
  <2> QED
    BY <2>1
<1>8. Supplied'
  <2>1. Provided' = Provided /\ has' = has
    BY SetupStays
  <2>2. \A k \in DOMAIN todo' : \A n \in Demand(todo'[k]) \cap Provided' :
          n \in has' \/ Comes(todo', k, n)
    BY <1>7, <2>1, Zenon
  <2> QED
    BY <2>2, Zenon DEF Supplied, Comes
<1> QED
  BY <1>4, <1>5, <1>6, <1>8 DEF IInv

\* What comes first in todo is an item that belongs there, and gets what it needs.
LEMMA FirstItem ==
  ASSUME IInv, NEW kind, At(kind)
  PROVE  /\ exit = "none" /\ todo # <<>> /\ todo \in Seq(Item) /\ Tail(todo) \in Seq(Item)
         /\ Head(todo) = todo[1] /\ todo[1] \in Item /\ todo[1].do = kind
         /\ Belongs(todo[1]) /\ Demand(todo[1]) \cap Provided \subseteq has
<1>1. /\ exit = "none" /\ todo # <<>> /\ todo \in Seq(Item) /\ Head(todo).do = kind
  BY DEF At, IInv, TypeOK
<1>2. Tail(todo) \in Seq(Item) /\ Head(todo) = todo[1] /\ todo[1] \in Item /\ 1 \in DOMAIN todo
  BY <1>1, TailFacts
<1>3. Belongs(todo[1])
  BY <1>2 DEF IInv, AllBelong
<1>4. Demand(todo[1]) \cap Provided \subseteq has
  BY <1>2 DEF IInv, Supplied
<1> QED
  BY <1>1, <1>2, <1>3, <1>4

\* What the kinds of items owe and demand.
LEMMA OwedAndDemanded ==
  ASSUME NEW t
  PROVE  /\ t.do = "run" => Owed(t) = {t.what} /\ Demand(t) = Depends(t.what)
         /\ t.do = "import" => Owed(t) = {} /\ Demand(t) = {t.what}
         /\ t.do \in {"fetch", "apt", "install"} => Owed(t) = {} /\ Demand(t) = {}
         /\ t.do = "execute" => /\ Owed(t) = UNION {CommandsOf(s) : s \in Below[t.what]}
                                /\ Demand(t) = (UNION {Depends(c) : c \in Owed(t)}) \ Package
<1>1. t.do = "run" => Owed(t) = {t.what} /\ Demand(t) = Depends(t.what)
  BY DEF Owed, Demand
<1>2. t.do = "import" => Owed(t) = {} /\ Demand(t) = {t.what}
  BY DEF Owed, Demand
<1>3. t.do \in {"fetch", "apt", "install"} => Owed(t) = {} /\ Demand(t) = {}
  BY DEF Owed, Demand
<1>4. t.do = "execute" => Owed(t) = UNION {CommandsOf(s) : s \in Below[t.what]}
  BY DEF Owed
<1>5. t.do = "execute" => Demand(t) = (UNION {Depends(c) : c \in Owed(t)}) \ Package
  BY DEF Demand
<1> QED
  BY <1>1, <1>2, <1>3, <1>4, <1>5

\* A target is replaced by its children: what it owed, they owe.
LEMMA EnterTargetKeeps == IInv /\ EnterTarget => IInv'
<1> SUFFICES ASSUME IInv, EnterTarget PROVE IInv'
  OBVIOUS
<1> DEFINE t == todo[1].what
           new == ExecuteAll(Targets[t])
<1>1. /\ exit = "none" /\ todo # <<>> /\ todo \in Seq(Item) /\ Tail(todo) \in Seq(Item)
      /\ Head(todo) = todo[1] /\ todo[1] \in Item /\ todo[1].do = "execute"
      /\ Belongs(todo[1])
  BY FirstItem DEF EnterTarget
<1>2. t \in DOMAIN Targets /\ todo' = new \o Tail(todo) /\ UNCHANGED <<setup, has, done, exit>>
  BY <1>1 DEF EnterTarget
<1> HIDE DEF t
<1>3. t \in Named /\ Owed(todo[1]) = Owed(Execute(t)) /\ Below[t] \subseteq Below[Asked]
  <2>1. t \in Named
    BY <1>2 DEF Named
  <2>2. Below[t] \subseteq Below[Asked]
    BY <1>1 DEF Belongs, t
  <2>3. Owed(todo[1]) = Owed(Execute(t))
    BY <2>1, <1>1, ExecuteIsItem DEF Owed, t
  <2> QED
    BY <2>1, <2>2, <2>3
<1>4. /\ new \in Seq(Item) /\ DOMAIN new = DOMAIN Targets[t]
      /\ \A c \in Owed(todo[1]) : \E i \in DOMAIN new : c \in Owed(new[i])
      /\ \A i \in DOMAIN new : /\ new[i].do = "execute" /\ Below[new[i].what] \subseteq Below[t]
                               /\ Owed(new[i]) \subseteq Owed(todo[1])
  BY <1>2, <1>3, OwedByTarget, ExecuteIsItem
<1> HIDE DEF new
<1>5. \A i \in DOMAIN new : Belongs(new[i])
  BY <1>3, <1>4 DEF Belongs
<1>6. ASSUME NEW i \in DOMAIN new, NEW n \in Demand(new[i]) PROVE n \in Demand(todo[1])
  BY <1>1, <1>4, OwedAndDemanded
<1> QED
  BY <1>1, <1>2, <1>4, <1>5, <1>6, ExpandStep

\* A step is replaced by its operations, which install what they use.
LEMMA EnterStepKeeps == IInv /\ EnterStep => IInv'
<1> SUFFICES ASSUME IInv, EnterStep PROVE IInv'
  OBVIOUS
<1> DEFINE s == todo[1].what
           new == Steps[s]
<1>1. /\ exit = "none" /\ todo # <<>> /\ todo \in Seq(Item) /\ Tail(todo) \in Seq(Item)
      /\ Head(todo) = todo[1] /\ todo[1] \in Item /\ todo[1].do = "execute"
      /\ Belongs(todo[1])
  BY FirstItem DEF EnterStep
<1>2. s \in DOMAIN Steps /\ todo' = new \o Tail(todo) /\ UNCHANGED <<setup, has, done, exit>>
  BY <1>1 DEF EnterStep
<1> HIDE DEF s
<1>3. s \in Below[Asked] /\ Owed(todo[1]) = CommandsOf(s)
  <2>1. s \in Below[Asked]
    BY <1>1, <1>2, BelowAStep DEF Belongs, s
  <2>2. Owed(todo[1]) = CommandsOf(s)
    BY <1>1, <1>2, BelowAStep DEF Owed, s
  <2> QED
    BY <2>1, <2>2
<1>4. new \in Seq(Item) /\ Orderly(new)
  BY <1>2, StepsOrderly DEF Orderly
<1>5. /\ \A c \in CommandsOf(s) : \E i \in DOMAIN new : c \in Owed(new[i])
      /\ \A i \in DOMAIN new : Owed(new[i]) \subseteq CommandsOf(s)
      /\ \A i \in DOMAIN new : new[i].do = "run" => new[i].what \in CommandsOf(s)
  BY <1>2, OwedByStep
<1>6. \A i \in DOMAIN new : new[i].do = "import" =>
        new[i].what = "pyyaml" /\ s \in {"contract_shape", "contract"}
  BY <1>2, StepImports
<1> HIDE DEF new
<1>7. ASSUME NEW i \in DOMAIN new PROVE Belongs(new[i])
  <2>1. new[i].do \in {"install", "import", "run"}
    BY <1>4 DEF Orderly
  <2> QED
    BY <2>1, <1>3, <1>5, <1>6 DEF Belongs
<1>8. ASSUME NEW i \in DOMAIN new, NEW n \in Demand(new[i])
      PROVE  \/ n \in Demand(todo[1])
             \/ \E j \in 1..(i - 1) : new[j].do = "install" /\ new[j].what = n
  <2>1. CASE n \in Package
    BY <2>1, <1>4 DEF Orderly
  <2>2. CASE n \notin Package
    <3>1. new[i].do \in {"install", "import", "run"}
      BY <1>4 DEF Orderly
    <3>2. new[i].do # "import"
      <4>1. new[i].do = "import" => Demand(new[i]) = {"pyyaml"}
        BY <1>6, OwedAndDemanded
      <4> QED
        BY <4>1, <2>2 DEF Package
    <3>3. new[i].do = "run" /\ n \in Depends(new[i].what) /\ new[i].what \in CommandsOf(s)
      BY <3>1, <3>2, <1>5, OwedAndDemanded
    <3> QED
      BY <3>3, <2>2, <1>1, <1>3, OwedAndDemanded
  <2> QED
    BY <2>1, <2>2
<1> QED
  BY <1>1, <1>2, <1>3, <1>4, <1>5, <1>7, <1>8, ExpandStep

\* What is fetched verifies or fails; nothing else can be corrupt.
LEMMA Corruptible ==
  ASSUME TypeOK
  PROVE  /\ setup.corrupt \subseteq Range(Fetched) /\ Range(Fetched) \subseteq Executable
         /\ "shellcheck" \in Executable /\ "shellcheck" \notin setup.corrupt
         /\ Package \cap setup.corrupt = {}
         /\ setup.job \in {"none", "verify", "helpers"} /\ setup.network \in BOOLEAN
<1>1. Range(Fetched) = {"actionlint", "markdownlint", "tflint", "terraform-docs", "opa"}
  <2>1. DOMAIN Fetched = 1..5 /\ Fetched[1] = "actionlint" /\ Fetched[2] = "markdownlint"
        /\ Fetched[3] = "tflint" /\ Fetched[4] = "terraform-docs" /\ Fetched[5] = "opa"
    BY DEF Fetched
  <2> QED
    BY <2>1 DEF Range
<1>2. /\ setup.corrupt \subseteq Range(Fetched) /\ setup.network \in BOOLEAN
      /\ setup.job \in {"none", "verify", "helpers"}
  BY DEF TypeOK, IsSetup
<1> QED
  BY <1>1, <1>2 DEF Executable, Package

\* A download that verifies provides its tool; another one ends the run.
LEMMA FetchToolKeeps == IInv /\ FetchTool => IInv'
<1> SUFFICES ASSUME IInv, FetchTool PROVE IInv'
  OBVIOUS
<1> DEFINE x == todo[1].what
<1>1. /\ exit = "none" /\ todo # <<>> /\ Head(todo) = todo[1] /\ todo[1] \in Item
      /\ todo[1].do = "fetch" /\ Belongs(todo[1])
  BY FirstItem DEF FetchTool
<1>2. setup.job = "verify" /\ x \in Range(Fetched) /\ Owed(todo[1]) = {}
  BY <1>1, KindsOfItems, OwedAndDemanded DEF Belongs
<1>3. UNCHANGED <<setup, done>>
  BY DEF FetchTool
<1>t. TypeOK /\ has \subseteq Package \cup Executable /\ has \cap setup.corrupt \subseteq setup.has
      /\ done \subseteq Command
  BY DEF IInv, TypeOK, PassedRightly
<1> HIDE DEF x
<1>4. CASE x \in setup.corrupt
  <2>1. Fail /\ UNCHANGED has
    BY <1>1, <1>4 DEF FetchTool, x
  <2>2. Caused
    BY <1>2, <1>4 DEF Caused
  <2> QED
    BY <1>3, <2>1, <2>2, FailStep DEF Fail
<1>5. CASE x \notin setup.corrupt
  <2>1. Go /\ has' = has \cup {x}
    BY <1>1, <1>5 DEF FetchTool, x
  <2>2. has' \subseteq Package \cup Executable /\ has' \cap setup.corrupt \subseteq setup.has
    BY <1>2, <1>5, <1>t, <2>1, Corruptible
  <2> QED
    BY <1>1, <1>2, <1>3, <1>t, <2>1, <2>2, GoStep DEF x
<1> QED
  BY <1>4, <1>5

\* The package of the distribution provides shellcheck, or the network is down.
LEMMA AptInstallKeeps == IInv /\ AptInstall => IInv'
<1> SUFFICES ASSUME IInv, AptInstall PROVE IInv'
  OBVIOUS
<1>1. /\ exit = "none" /\ todo # <<>> /\ Head(todo) = todo[1] /\ todo[1] \in Item
      /\ todo[1].do = "apt" /\ Belongs(todo[1])
  BY FirstItem DEF AptInstall
<1>2. setup.job # "none" /\ todo[1].what = "shellcheck" /\ Owed(todo[1]) = {}
  BY <1>1, KindsOfItems, OwedAndDemanded DEF Belongs
<1>3. UNCHANGED <<setup, done>>
  BY DEF AptInstall
<1>t. TypeOK /\ has \subseteq Package \cup Executable /\ has \cap setup.corrupt \subseteq setup.has
      /\ done \subseteq Command
  BY DEF IInv, TypeOK, PassedRightly
<1>4. CASE ~setup.network
  <2>1. Fail /\ UNCHANGED has
    BY <1>4 DEF AptInstall
  <2>2. Caused
    BY <1>2, <1>4 DEF Caused
  <2> QED
    BY <1>3, <2>1, <2>2, FailStep DEF Fail
<1>5. CASE setup.network
  <2>1. Go /\ has' = has \cup {"shellcheck"}
    BY <1>1, <1>2, <1>5 DEF AptInstall
  <2>2. has' \subseteq Package \cup Executable /\ has' \cap setup.corrupt \subseteq setup.has
    BY <1>t, <2>1, Corruptible
  <2> QED
    BY <1>1, <1>2, <1>3, <1>t, <2>1, <2>2, GoStep
<1> QED
  BY <1>4, <1>5

\* In a job a package is installed, or the network is down; by hand nothing is.
LEMMA InstallPackageKeeps == IInv /\ InstallPackage => IInv'
<1> SUFFICES ASSUME IInv, InstallPackage PROVE IInv'
  OBVIOUS
<1> DEFINE x == todo[1].what
<1>1. /\ exit = "none" /\ todo # <<>> /\ Head(todo) = todo[1] /\ todo[1] \in Item
      /\ todo[1].do = "install"
  BY FirstItem DEF InstallPackage
<1>2. x \in Package /\ Owed(todo[1]) = {}
  BY <1>1, KindsOfItems, OwedAndDemanded
<1>3. UNCHANGED <<setup, done>>
  BY DEF InstallPackage
<1>t. TypeOK /\ has \subseteq Package \cup Executable /\ has \cap setup.corrupt \subseteq setup.has
      /\ setup.has \subseteq has /\ done \subseteq Command
  BY DEF IInv, TypeOK, PassedRightly
<1> HIDE DEF x
<1>4. CASE setup.job = "none"
  <2>1. Go /\ has' = has
    BY <1>4 DEF InstallPackage
  <2>2. x \in Provided => x \in has'
    BY <1>4, <1>t, <2>1 DEF Provided
  <2> QED
    BY <1>1, <1>2, <1>3, <1>t, <2>1, <2>2, GoStep DEF x
<1>5. CASE setup.job # "none" /\ setup.network
  <2>1. Go /\ has' = has \cup {x}
    BY <1>1, <1>5 DEF InstallPackage, x
  <2>2. has' \subseteq Package \cup Executable /\ has' \cap setup.corrupt \subseteq setup.has
    BY <1>2, <1>t, <2>1, Corruptible
  <2> QED
    BY <1>1, <1>2, <1>3, <1>5, <1>t, <2>1, <2>2, GoStep DEF x
<1>6. CASE setup.job # "none" /\ ~setup.network
  <2>1. Fail /\ UNCHANGED has
    BY <1>6 DEF InstallPackage
  <2>2. Caused
    BY <1>6 DEF Caused
  <2> QED
    BY <1>3, <2>1, <2>2, FailStep DEF Fail
<1> QED
  BY <1>4, <1>5, <1>6

\* Only the contract steps import a package, and only they end for want of one.
LEMMA ImportPackageKeeps == IInv /\ ImportPackage => IInv'
<1> SUFFICES ASSUME IInv, ImportPackage PROVE IInv'
  OBVIOUS
<1>1. /\ exit = "none" /\ todo # <<>> /\ Head(todo) = todo[1] /\ todo[1] \in Item
      /\ todo[1].do = "import" /\ Belongs(todo[1]) /\ Demand(todo[1]) \cap Provided \subseteq has
  BY FirstItem DEF ImportPackage
<1>2. /\ todo[1].what = "pyyaml" /\ {"contract_shape", "contract"} \cap Below[Asked] # {}
      /\ Owed(todo[1]) = {} /\ Demand(todo[1]) = {"pyyaml"}
  BY <1>1, OwedAndDemanded DEF Belongs
<1>3. UNCHANGED <<setup, has, done>>
  BY DEF ImportPackage
<1>t. has \subseteq Package \cup Executable /\ has \cap setup.corrupt \subseteq setup.has
      /\ done \subseteq Command
  BY DEF IInv, TypeOK, PassedRightly
<1>4. CASE "pyyaml" \in has
  <2>1. Go
    BY <1>1, <1>2, <1>4 DEF ImportPackage
  <2> QED
    BY <1>1, <1>2, <1>3, <1>t, <2>1, GoStep
<1>5. CASE "pyyaml" \notin has
  <2>1. Fail
    BY <1>1, <1>2, <1>5 DEF ImportPackage
  <2>2. "pyyaml" \notin Provided
    BY <1>1, <1>2, <1>5
  <2>3. Caused
    BY <1>2, <2>2 DEF Caused
  <2> QED
    BY <1>3, <2>1, <2>3, FailStep DEF Fail
<1> QED
  BY <1>4, <1>5

\* A command that passes is done; one that does not is the cause of the end.
LEMMA RunCommandKeeps == IInv /\ RunCommand => IInv'
<1> SUFFICES ASSUME IInv, RunCommand PROVE IInv'
  OBVIOUS
<1> DEFINE c == todo[1].what
<1>1. /\ exit = "none" /\ todo # <<>> /\ Head(todo) = todo[1] /\ todo[1] \in Item
      /\ todo[1].do = "run" /\ Belongs(todo[1]) /\ Demand(todo[1]) \cap Provided \subseteq has
  BY FirstItem DEF RunCommand
<1>2. c \in Command /\ Owed(todo[1]) = {c} /\ Demand(todo[1]) = Depends(c)
  BY <1>1, KindsOfItems, OwedAndDemanded
<1>3. UNCHANGED <<setup, has>>
  BY DEF RunCommand
<1>4. PICK s \in Below[Asked] : c \in CommandsOf(s)
  BY <1>1 DEF Belongs
<1>t. has \subseteq Package \cup Executable /\ has \cap setup.corrupt \subseteq setup.has
      /\ done \subseteq Command
  BY DEF IInv, TypeOK, PassedRightly
<1> HIDE DEF c
<1>b. c = "privileged" /\ setup.job # "none" => Depends(c) \subseteq has
  <2>1. ASSUME c = "privileged", setup.job # "none" PROVE "pyyaml" \in Provided /\ Depends(c) = {"pyyaml"}
    <3>1. setup.job \in {"none", "verify", "helpers"}
      BY DEF IInv, TypeOK, IsSetup
    <3> QED
      BY <2>1, <3>1, PackagesNeeded DEF Provided, Package
  <2> QED
    BY <1>1, <1>2, <2>1
<1>5. CASE Blind(c) \/ (Depends(c) \subseteq has /\ Passes(c))
  <2>1. Go /\ done' = done \cup {c}
    BY <1>1, <1>5 DEF RunCommand, c
  <2>2. todo[1].do \notin {"fetch", "apt", "install"}
    BY <1>1
  <2>3. \/ Passes(c) /\ Depends(c) \subseteq has
        \/ Blind(c) /\ setup.job = "none"
    <3>1. ASSUME Blind(c), setup.job # "none" PROVE FALSE
      <4>1. c = "privileged" /\ "pyyaml" \notin has
        BY <3>1 DEF Blind
      <4>2. Depends(c) = {"pyyaml"}
        BY <4>1, PackagesNeeded
      <4> QED
        BY <1>b, <3>1, <4>1, <4>2
    <3> QED
      BY <1>5, <3>1
  <2>4. \A d \in done' \ done : \/ Passes(d) /\ Depends(d) \subseteq has
                                \/ Blind(d) /\ setup.job = "none"
    BY <2>1, <2>3
  <2>5. done \subseteq done' /\ done' \subseteq Command /\ Owed(todo[1]) \subseteq done'
    BY <1>2, <1>t, <2>1
  <2> QED
    BY <1>1, <1>3, <1>t, <2>1, <2>2, <2>4, <2>5, GoStep
<1>6. CASE ~(Blind(c) \/ (Depends(c) \subseteq has /\ Passes(c)))
  <2>1. Fail /\ UNCHANGED done
    BY <1>1, <1>6 DEF RunCommand, c
  <2>2. ~Passes(c) \/ ~(Depends(c) \subseteq Provided)
    BY <1>1, <1>2, <1>6
  <2>3. Caused
    BY <1>4, <2>2 DEF Caused
  <2> QED
    BY <1>3, <2>1, <2>3, FailStep DEF Fail
<1> QED
  BY <1>5, <1>6

\* The end comes when nothing is left.
LEMMA SucceedKeeps == IInv /\ Succeed => IInv'
<1> SUFFICES ASSUME IInv, Succeed PROVE IInv'
  OBVIOUS
<1>1. exit = "none" /\ todo = <<>> /\ exit' = "zero" /\ UNCHANGED <<setup, todo, has, done>>
  BY DEF Succeed
<1>2. TypeOK' /\ NothingLost'
  BY <1>1 DEF IInv, TypeOK, NothingLost, Asked
<1>3. PassedRightly' /\ AllBelong' /\ Supplied'
  BY <1>1, SetupStays DEF IInv, PassedRightly, Blind, AllBelong, Supplied
<1> QED
  BY <1>1, <1>2, <1>3 DEF IInv

\* Every step keeps the invariant.
LEMMA NextKeepsIInv == IInv /\ [Next]_vars => IInv'
<1> SUFFICES ASSUME IInv, [Next]_vars PROVE IInv'
  OBVIOUS
<1>1. CASE UNCHANGED vars
  <2>1. UNCHANGED <<setup, todo, has, done, exit>>
    BY <1>1 DEF vars
  <2>2. TypeOK' /\ NothingLost'
    BY <2>1 DEF IInv, TypeOK, NothingLost, Asked
  <2>3. PassedRightly' /\ AllBelong' /\ Supplied' /\ (exit' = "nonzero" => Caused')
    BY <2>1, SetupStays DEF IInv, PassedRightly, Blind, AllBelong, Supplied
  <2> QED
    BY <2>2, <2>3 DEF IInv
<1> QED
  BY <1>1, EnterTargetKeeps, EnterStepKeeps, FetchToolKeeps, AptInstallKeeps, InstallPackageKeeps,
     ImportPackageKeeps, RunCommandKeeps, SucceedKeeps DEF Next

\* Whatever the setup, todo never loses a command, whatever is in it belongs there and
\* gets what it needs, what is done has passed, and a run only fails for a reason.
THEOREM GatesInvariant == Spec => []IInv
BY InitIInv, NextKeepsIInv, PTL DEF Spec

----------------------------------------------------------------------------
\* What verify runs

\* What is below a child is below its target.
LEMMA ChildBelow ==
  ASSUME NEW t \in DOMAIN Targets, NEW i \in DOMAIN Targets[t]
  PROVE  Below[Targets[t][i]] \subseteq Below[t]
BY BelowATarget

\* The steps below "verify".
LEMMA StepsOfVerify ==
  {"ruff", "yamllint", "actionlint", "helpers", "opa_test", "opa_policy", "opa_plan",
   "markdownlint", "docs", "adr", "manifest", "contract", "integration"} \subseteq Below["verify"]
<1>1. /\ {"ruff", "yamllint", "actionlint", "helpers", "opa_test", "opa_policy", "opa_plan",
          "markdownlint", "docs", "adr", "manifest", "contract", "integration"} \subseteq DOMAIN Steps
      /\ {"lint", "policy", "ci", "verify"} \subseteq DOMAIN Targets
  BY StepNames, TargetNames
<1>2. Below["ruff"] \cup Below["yamllint"] \subseteq Below["lint"]
  <2>1. /\ 1 \in DOMAIN Targets["lint"] /\ Targets["lint"][1] = "ruff"
        /\ 2 \in DOMAIN Targets["lint"] /\ Targets["lint"][2] = "yamllint"
    BY TargetLists
  <2> QED
    BY <1>1, <2>1, ChildBelow
<1>3. Below["opa_test"] \cup Below["opa_policy"] \cup Below["opa_plan"] \subseteq Below["policy"]
  <2>1. /\ 1 \in DOMAIN Targets["policy"] /\ Targets["policy"][1] = "opa_test"
        /\ 2 \in DOMAIN Targets["policy"] /\ Targets["policy"][2] = "opa_policy"
        /\ 3 \in DOMAIN Targets["policy"] /\ Targets["policy"][3] = "opa_plan"
    BY TargetLists
  <2> QED
    BY <1>1, <2>1, ChildBelow
<1>4. /\ Below["lint"] \cup Below["actionlint"] \cup Below["helpers"] \cup Below["policy"]
           \subseteq Below["ci"]
      /\ Below["markdownlint"] \cup Below["docs"] \cup Below["adr"] \cup Below["manifest"]
           \cup Below["contract"] \subseteq Below["ci"]
  <2>1. /\ 1 \in DOMAIN Targets["ci"] /\ Targets["ci"][1] = "lint"
        /\ 2 \in DOMAIN Targets["ci"] /\ Targets["ci"][2] = "actionlint"
        /\ 3 \in DOMAIN Targets["ci"] /\ Targets["ci"][3] = "helpers"
        /\ 4 \in DOMAIN Targets["ci"] /\ Targets["ci"][4] = "policy"
        /\ 5 \in DOMAIN Targets["ci"] /\ Targets["ci"][5] = "markdownlint"
        /\ 6 \in DOMAIN Targets["ci"] /\ Targets["ci"][6] = "docs"
        /\ 7 \in DOMAIN Targets["ci"] /\ Targets["ci"][7] = "adr"
        /\ 8 \in DOMAIN Targets["ci"] /\ Targets["ci"][8] = "manifest"
        /\ 9 \in DOMAIN Targets["ci"] /\ Targets["ci"][9] = "contract"
    BY TargetLists
  <2> QED
    BY <1>1, <2>1, ChildBelow
<1>5. Below["ci"] \cup Below["integration"] \subseteq Below["verify"]
  <2>1. /\ 1 \in DOMAIN Targets["verify"] /\ Targets["verify"][1] = "ci"
        /\ 2 \in DOMAIN Targets["verify"] /\ Targets["verify"][2] = "integration"
    BY TargetLists
  <2> QED
    BY <1>1, <2>1, ChildBelow
<1> QED
  BY <1>1, <1>2, <1>3, <1>4, <1>5, BelowAStep

Has(q, t) == \E i \in DOMAIN q : q[i] = t

\* What a short list has.
LEMMA HasMember ==
  /\ \A a : Has(<<a>>, a)
  /\ \A a, b : Has(<<a, b>>, a) /\ Has(<<a, b>>, b)
  /\ \A a, b, c : Has(<<a, b, c>>, a) /\ Has(<<a, b, c>>, b) /\ Has(<<a, b, c>>, c)
<1>1. ASSUME NEW a PROVE Has(<<a>>, a)
  <2>1. 1 \in DOMAIN <<a>> /\ <<a>>[1] = a
    OBVIOUS
  <2> QED
    BY <2>1 DEF Has
<1>2. ASSUME NEW a, NEW b PROVE Has(<<a, b>>, a) /\ Has(<<a, b>>, b)
  <2>1. 1 \in DOMAIN <<a, b>> /\ <<a, b>>[1] = a /\ 2 \in DOMAIN <<a, b>> /\ <<a, b>>[2] = b
    OBVIOUS
  <2> QED
    BY <2>1 DEF Has
<1>3. ASSUME NEW a, NEW b, NEW c
      PROVE  Has(<<a, b, c>>, a) /\ Has(<<a, b, c>>, b) /\ Has(<<a, b, c>>, c)
  <2>1. /\ 1 \in DOMAIN <<a, b, c>> /\ <<a, b, c>>[1] = a
        /\ 2 \in DOMAIN <<a, b, c>> /\ <<a, b, c>>[2] = b
        /\ 3 \in DOMAIN <<a, b, c>> /\ <<a, b, c>>[3] = c
    OBVIOUS
  <2> QED
    BY <2>1 DEF Has
<1> QED
  BY <1>1, <1>2, <1>3

\* Two lists put together have what either has.
LEMMA HasConcat ==
  ASSUME NEW p \in Seq(Item), NEW q \in Seq(Item), NEW t, Has(p, t) \/ Has(q, t)
  PROVE  Has(p \o q, t)
<1> DEFINE r == p \o q
<1>1. /\ \A i \in DOMAIN p : i \in DOMAIN r /\ r[i] = p[i]
      /\ \A i \in DOMAIN q : i + Len(p) \in DOMAIN r /\ r[i + Len(p)] = q[i]
  BY ConcatFacts
<1> HIDE DEF r
<1>2. Has(r, t)
  BY <1>1 DEF Has
<1> QED
  BY <1>2 DEF r

\* Where the commands are run.
LEMMA Runs ==
  ASSUME NEW c \in Command, NEW s, Has(Steps[s], Run(c))
  PROVE  c \in CommandsOf(s)
BY Operations DEF CommandsOf, Has

\* "verify" runs every command of the program.
LEMMA VerifyRunsAll == \A c \in Command : \E s \in Below["verify"] : c \in CommandsOf(s)
<1>1. /\ Has(Steps["ruff"], Run("ruff")) /\ Has(Steps["yamllint"], Run("yamllint"))
      /\ Has(Steps["actionlint"], Run("actionlint"))
      /\ Has(Steps["markdownlint"], Run("markdownlint"))
      /\ Has(Steps["docs"], Run("docs")) /\ Has(Steps["adr"], Run("adr"))
      /\ Has(Steps["manifest"], Run("manifest"))
      /\ Has(Steps["integration"], Run("integration"))
  BY StepLists, HasMember
<1>2. /\ Has(Steps["opa_test"], Run("opa test"))
      /\ Has(Steps["opa_policy"], Run("opa input"))
      /\ Has(Steps["opa_policy"], Run("opa hygiene"))
      /\ Has(Steps["opa_plan"], Run("fixtures"))
      /\ Has(Steps["opa_plan"], Run("safe plan"))
      /\ Has(Steps["opa_plan"], Run("bad plan"))
  BY StepLists, HasMember
<1>3. \A c \in {"shellcheck", "run blocks", "callers", "privileged", "privileged tests"} :
        Has(Steps["helpers"], Run(c))
  <2> DEFINE p == <<Run("shellcheck")>>
             q == <<Run("run blocks"), Run("callers")>>
             r == <<Install("pyyaml"), Run("privileged"), Run("privileged tests")>>
  <2>1. p \in Seq(Item) /\ q \in Seq(Item) /\ r \in Seq(Item) /\ p \o q \in Seq(Item)
    BY OperationsOrderly, Operations, Tuples DEF Package, Command
  <2>2. /\ Has(p, Run("shellcheck")) /\ Has(q, Run("run blocks")) /\ Has(q, Run("callers"))
        /\ Has(r, Run("privileged")) /\ Has(r, Run("privileged tests"))
    BY HasMember
  <2>3. Steps["helpers"] = (p \o q) \o r
    BY StepLists
  <2> HIDE DEF p, q, r
  <2> QED
    BY <2>1, <2>2, <2>3, HasConcat
<1>4. \A c \in {"contract shape", "contract", "contract tests"} : Has(Steps["contract"], Run(c))
  <2> DEFINE p == <<Install("pyyaml"), Import("pyyaml"), Run("contract shape")>>
             q == <<Run("contract"), Run("contract tests")>>
  <2>1. p \in Seq(Item) /\ q \in Seq(Item)
    BY OperationsOrderly, Operations, Tuples DEF Package, Command
  <2>2. /\ Has(p, Run("contract shape")) /\ Has(q, Run("contract"))
        /\ Has(q, Run("contract tests"))
    BY HasMember
  <2>3. Steps["contract"] = p \o q
    BY StepLists
  <2> HIDE DEF p, q
  <2> QED
    BY <2>1, <2>2, <2>3, HasConcat
<1>5. /\ "ruff" \in CommandsOf("ruff") /\ "yamllint" \in CommandsOf("yamllint")
      /\ "actionlint" \in CommandsOf("actionlint")
      /\ "markdownlint" \in CommandsOf("markdownlint")
      /\ "docs" \in CommandsOf("docs") /\ "adr" \in CommandsOf("adr")
      /\ "manifest" \in CommandsOf("manifest")
      /\ "integration" \in CommandsOf("integration")
  BY <1>1, Runs DEF Command
<1>6. /\ "opa test" \in CommandsOf("opa_test")
      /\ "opa input" \in CommandsOf("opa_policy") /\ "opa hygiene" \in CommandsOf("opa_policy")
      /\ "fixtures" \in CommandsOf("opa_plan") /\ "safe plan" \in CommandsOf("opa_plan")
      /\ "bad plan" \in CommandsOf("opa_plan")
  BY <1>2, Runs DEF Command
<1>7. \A c \in {"shellcheck", "run blocks", "callers", "privileged", "privileged tests"} :
        c \in CommandsOf("helpers")
  BY <1>3, Runs DEF Command
<1>8. \A c \in {"contract shape", "contract", "contract tests"} : c \in CommandsOf("contract")
  BY <1>4, Runs DEF Command
<1> QED
  BY <1>5, <1>6, <1>7, <1>8, StepsOfVerify DEF Command

----------------------------------------------------------------------------

\* The steps with the privileged scan in them have its tests in them, too.
LEMMA ScansAreTested ==
  ASSUME NEW s \in DOMAIN Steps, "privileged" \in CommandsOf(s)
  PROVE  "privileged tests" \in CommandsOf(s)
<1> DEFINE Other == {t \in Item : ~(t.do = "run" /\ t.what = "privileged")}
<1>1. /\ \A p \in Package : Install(p) \in Other /\ Import(p) \in Other
      /\ \A c \in Command \ {"privileged"} : Run(c) \in Other
  BY Operations
<1>2. \A q : q \in Seq(Other) => \A k \in DOMAIN q : ~(q[k].do = "run" /\ q[k].what = "privileged")
  OBVIOUS
<1> HIDE DEF Other
<1>3. /\ Install("pyyaml") \in Other /\ Import("pyyaml") \in Other
      /\ Install("ruff") \in Other /\ Install("yamllint") \in Other
  BY <1>1 DEF Package
<1>4. /\ Run("ruff") \in Other /\ Run("yamllint") \in Other /\ Run("actionlint") \in Other
      /\ Run("shellcheck") \in Other /\ Run("markdownlint") \in Other
      /\ Run("opa test") \in Other /\ Run("opa input") \in Other /\ Run("opa hygiene") \in Other
      /\ Run("fixtures") \in Other /\ Run("safe plan") \in Other /\ Run("bad plan") \in Other
      /\ Run("manifest") \in Other /\ Run("contract shape") \in Other /\ Run("contract") \in Other
      /\ Run("contract tests") \in Other /\ Run("docs") \in Other /\ Run("adr") \in Other
      /\ Run("integration") \in Other
  BY <1>1 DEF Command
<1>5. CASE s \notin {"helpers", "privileged"}
  <2>1. /\ <<Install("ruff"), Run("ruff")>> \in Seq(Other)
        /\ <<Install("yamllint"), Run("yamllint")>> \in Seq(Other)
        /\ <<Install("pyyaml"), Run("contract tests")>> \in Seq(Other)
    BY <1>3, <1>4, Tuples
  <2>2. /\ <<Install("pyyaml"), Run("opa input"), Run("opa hygiene")>> \in Seq(Other)
        /\ <<Run("fixtures"), Run("safe plan"), Run("bad plan")>> \in Seq(Other)
        /\ <<Install("pyyaml"), Import("pyyaml"), Run("contract shape")>> \in Seq(Other)
        /\ <<Run("contract"), Run("contract tests")>> \in Seq(Other)
    BY <1>3, <1>4, Tuples
  <2>3. /\ <<Run("actionlint")>> \in Seq(Other) /\ <<Run("shellcheck")>> \in Seq(Other)
        /\ <<Run("markdownlint")>> \in Seq(Other) /\ <<Run("opa test")>> \in Seq(Other)
        /\ <<Run("manifest")>> \in Seq(Other) /\ <<Run("docs")>> \in Seq(Other)
        /\ <<Run("adr")>> \in Seq(Other) /\ <<Run("integration")>> \in Seq(Other)
    BY <1>4, Tuples
  <2>4. Steps["contract"] \in Seq(Other)
    BY <2>2, StepLists, Tuples
  <2>5. Steps[s] \in Seq(Other)
    BY <1>5, <2>1, <2>2, <2>3, <2>4, StepNames, StepLists
  <2> QED
    BY <1>2, <2>5 DEF CommandsOf
<1>6. CASE s = "privileged"
  <2>1. Has(Steps["privileged"], Run("privileged tests"))
    BY StepLists, HasMember
  <2> QED
    BY <1>6, <2>1, Runs DEF Command
<1>7. CASE s = "helpers"
  <2> DEFINE p == <<Run("shellcheck")>> \o <<Run("run blocks"), Run("callers")>>
             r == <<Install("pyyaml"), Run("privileged"), Run("privileged tests")>>
  <2>1. p \in Seq(Item) /\ r \in Seq(Item)
    BY OperationsOrderly, Operations, Tuples DEF Package, Command
  <2>2. Has(r, Run("privileged tests"))
    BY HasMember
  <2>3. Steps["helpers"] = p \o r
    BY StepLists
  <2> HIDE DEF p, r
  <2>4. Has(Steps["helpers"], Run("privileged tests"))
    BY <2>1, <2>2, <2>3, HasConcat
  <2> QED
    BY <1>7, <2>4, Runs DEF Command
<1> QED
  BY <1>5, <1>6, <1>7

\* At the bottom there are steps.
LEMMA BelowAreSteps == \A n \in Named : Below[n] \subseteq DOMAIN Steps
<1>1. \A n \in DOMAIN Steps : Below[n] \subseteq DOMAIN Steps
  BY BelowAStep
<1>2. ASSUME NEW n \in DOMAIN Targets,
             \A i \in DOMAIN Targets[n] : Below[Targets[n][i]] \subseteq DOMAIN Steps
      PROVE  Below[n] \subseteq DOMAIN Steps
  BY <1>2, BelowATarget
<1>3. \A n \in {"lint", "policy"} : Below[n] \subseteq DOMAIN Steps
  <2> SUFFICES ASSUME NEW n \in {"lint", "policy"} PROVE Below[n] \subseteq DOMAIN Steps
    OBVIOUS
  <2>1. n \in DOMAIN Targets
    BY TargetNames
  <2>2. \A i \in DOMAIN Targets[n] : Targets[n][i] \in DOMAIN Steps
    BY Children
  <2> QED
    BY <1>1, <1>2, <2>1, <2>2
<1>4. Below["ci"] \subseteq DOMAIN Steps
  <2>1. \A i \in DOMAIN Targets["ci"] : Targets["ci"][i] \in DOMAIN Steps \cup {"lint", "policy"}
    BY Children
  <2>2. \A i \in DOMAIN Targets["ci"] : Below[Targets["ci"][i]] \subseteq DOMAIN Steps
    BY <1>1, <1>3, <2>1
  <2> QED
    BY <1>2, <2>2, TargetNames
<1>5. Below["verify"] \subseteq DOMAIN Steps
  <2>1. \A i \in DOMAIN Targets["verify"] : Targets["verify"][i] \in DOMAIN Steps \cup {"ci"}
    BY Children
  <2>2. \A i \in DOMAIN Targets["verify"] : Below[Targets["verify"][i]] \subseteq DOMAIN Steps
    BY <1>1, <1>4, <2>1
  <2> QED
    BY <1>2, <2>2, TargetNames
<1> QED
  BY <1>1, <1>3, <1>4, <1>5, TargetNames DEF Named

\* Exit code 0: all that was asked for has run, and passed.
LEMMA ZeroIsPassed ==
  ASSUME IInv, exit = "zero"
  PROVE  \A s \in Below[Asked] : \A c \in CommandsOf(s) :
           c \in done /\ Passes(c) /\ Depends(c) \subseteq has
<1>1. todo = <<>>
  BY DEF IInv, NothingLost
<1>2. UNION {Owed(todo[i]) : i \in DOMAIN todo} = {}
  BY <1>1
<1>3. \A s \in Below[Asked] :
        CommandsOf(s) \subseteq done \cup UNION {Owed(todo[i]) : i \in DOMAIN todo}
  BY DEF IInv, NothingLost
<1>4. \A s \in Below[Asked] : CommandsOf(s) \subseteq done
  BY <1>2, <1>3
<1>5. ASSUME NEW s \in Below[Asked], NEW c \in CommandsOf(s)
      PROVE  c \in done /\ Passes(c) /\ Depends(c) \subseteq has
  <2>1. c \in done
    BY <1>4, <1>5
  <2>2. ASSUME Blind(c) PROVE FALSE
    <3>1. c = "privileged" /\ "pyyaml" \notin has
      BY <2>2 DEF Blind
    <3>2. s \in DOMAIN Steps
      <4>1. Asked \in Named
        BY TargetNames, StepNames DEF IInv, TypeOK, IsSetup, Asked, Named
      <4> QED
        BY <1>5, <4>1, BelowAreSteps
    <3>3. "privileged tests" \in done
      BY <1>4, <1>5, <3>1, <3>2, ScansAreTested
    <3>4. Depends("privileged tests") = {"pyyaml"} /\ ~Blind("privileged tests")
      BY PackagesNeeded DEF Blind
    <3>5. Depends("privileged tests") \subseteq has
      BY <3>3, <3>4 DEF IInv, PassedRightly
    <3> QED
      BY <3>1, <3>4, <3>5
  <2> QED
    BY <2>1, <2>2 DEF IInv, PassedRightly
<1> QED
  BY <1>5

\* When a command passes, one by one.
LEMMA PassingSays ==
  /\ Passes("opa test") <=> "opa test" \notin setup.broken /\ setup.policies = {"hygiene", "plan"}
  /\ Passes("opa hygiene") <=> "opa hygiene" \notin setup.broken \/ "hygiene" \notin setup.policies
  /\ Passes("fixtures") <=> setup.fixtures
  /\ Passes("safe plan") <=> OpaPlanDenies(setup.safe) = {}
  /\ Passes("bad plan") <=> OpaPlanDenies(setup.bad) = setup.expected
  /\ Passes("privileged tests") <=> PrivilegedTests(setup.tests) = 0
  /\ Passes("contract tests") <=> ContractTests(setup.tests) = 0
  /\ \A c \in (Command \ Computed) \ {"opa test", "opa hygiene"} :
       Passes(c) <=> c \notin setup.broken
BY DEF Passes, Command, Computed

\* ZeroMeansEveryGate follows from the invariant.
LEMMA ZeroIsEveryGate == IInv => ZeroMeansEveryGate
BY ZeroIsPassed DEF ZeroMeansEveryGate

\* VerifyMeansClean follows: every command is below "verify", so each has passed; with
\* both policies live their answers are what the rules say.
LEMMA ZeroIsClean == IInv => VerifyMeansClean
<1> SUFFICES ASSUME IInv, exit = "zero", Asked = "verify"
             PROVE  /\ setup.broken = {} /\ setup.fixtures
                    /\ setup.policies = {"hygiene", "plan"}
                    /\ Denials(BuildInput(setup.safe)) = {}
                    /\ Denials(BuildInput(setup.bad)) = setup.expected
  BY DEF VerifyMeansClean
<1>1. \A c \in Command : Passes(c)
  BY ZeroIsPassed, VerifyRunsAll
<1>2. setup.fixtures /\ setup.policies = {"hygiene", "plan"}
  BY <1>1, PassingSays DEF Command
<1>3. OpaPlanDenies(setup.safe) = {} /\ OpaPlanDenies(setup.bad) = setup.expected
  BY <1>1, PassingSays DEF Command
<1>4. \A p : OpaPlanDenies(p) = Denials(BuildInput(p))
  BY <1>2 DEF OpaPlanDenies
<1>5. setup.broken \subseteq Command \ Computed
  BY DEF IInv, TypeOK, IsSetup
<1>6. \A c \in Command \ Computed : c \notin setup.broken
  BY <1>1, <1>2, PassingSays
<1>7. setup.broken = {}
  BY <1>5, <1>6
<1> QED
  BY <1>2, <1>3, <1>4, <1>7

\* PolicyIsLive follows: denials were expected and came, so that something gave them.
LEMMA LivePolicy == IInv => PolicyIsLive
<1> SUFFICES ASSUME IInv, exit = "zero", setup.expected # {}
             PROVE  /\ "opa_plan" \in Below[Asked] => "plan" \in setup.policies
                    /\ {"opa_test", "opa_policy"} \subseteq Below[Asked] =>
                         "hygiene" \in setup.policies
  BY DEF PolicyIsLive
<1>1. "bad plan" \in CommandsOf("opa_plan") /\ "opa test" \in CommandsOf("opa_test")
  <2>1. Has(Steps["opa_plan"], Run("bad plan")) /\ Has(Steps["opa_test"], Run("opa test"))
    BY StepLists, HasMember
  <2> QED
    BY <2>1, Runs DEF Command
<1>2. ASSUME "opa_plan" \in Below[Asked] PROVE "plan" \in setup.policies
  <2>1. OpaPlanDenies(setup.bad) # {}
    BY <1>1, <1>2, ZeroIsPassed, PassingSays
  <2> QED
    BY <2>1 DEF OpaPlanDenies
<1>3. ASSUME "opa_test" \in Below[Asked] PROVE "hygiene" \in setup.policies
  BY <1>1, <1>3, ZeroIsPassed, PassingSays
<1> QED
  BY <1>2, <1>3

\* GatesUseVerifiedTools follows from what done and has are.
LEMMA VerifiedTools == IInv => GatesUseVerifiedTools
<1> SUFFICES ASSUME IInv, NEW c \in done
             PROVE  Depends(c) \cap setup.corrupt \subseteq setup.has
  BY DEF GatesUseVerifiedTools
<1>1. Depends("privileged") \cap setup.corrupt = {}
  <2>1. setup.corrupt \cap {"pyyaml"} = {}
    BY Corruptible DEF IInv, Package
  <2> QED
    BY <2>1, PackagesNeeded
<1> QED
  BY <1>1 DEF IInv, PassedRightly, Blind

\* What a suite that an exit code 0 vouches for went through.
LEMMA TestedSuites ==
  ASSUME IInv, NEW u \in Tested
  PROVE  RegisteredRulesWork(setup.tests, u) /\ Reports(setup.tests, u)
<1> DEFINE x == setup.tests
           commands == UNION {CommandsOf(s) : s \in Below[Asked]}
<1>1. IsTests(x)
  BY DEF IInv, TypeOK, IsSetup
<1>2. exit = "zero" /\ u \in Suite
      /\ CASE u = "privileged" -> "privileged tests" \in commands
           [] u = "contract" -> "contract tests" \in commands
           [] OTHER -> "contract tests" \in commands /\ HasCallerCheck(x)
  BY DEF Tested
<1>3. \A c \in commands : Passes(c)
  BY <1>2, ZeroIsPassed
<1> HIDE DEF commands
<1>4. x.validator[u] # Absent /\ RunsPass(x, u)
  <2>1. CASE u = "privileged"
    <3>1. PrivilegedTests(x) = 0
      BY <1>2, <1>3, <2>1, PassingSays
    <3> QED
      BY <2>1, <3>1, PrivilegedExit
  <2>2. CASE u = "contract"
    <3>1. ContractTests(x) = 0
      BY <1>2, <1>3, <2>2, PassingSays
    <3> QED
      BY <2>2, <3>1, ContractExit
  <2>3. CASE u = "consumer"
    <3>1. ContractTests(x) = 0 /\ HasCallerCheck(x)
      BY <1>2, <1>3, <2>3, PassingSays
    <3> QED
      BY <2>3, <3>1, ContractExit DEF HasCallerCheck
  <2> QED
    BY <1>2, <2>1, <2>2, <2>3 DEF Suite
<1> HIDE DEF x
<1>5. RegisteredRulesWork(x, u) /\ Reports(x, u)
  BY <1>1, <1>2, <1>4, PassingRuns
<1> QED
  BY <1>5 DEF x

----------------------------------------------------------------------------
\* The reasons of a failure

\* The input tells all that the policies judge: no counted resource, whose
\* configuration build_plan_input.py looks up under an address that it does not
\* have, and no encryption that the plan leaves as it is and that is left out.
ToldInFull(plan) ==
  \A c \in plan.changes :
    c.managed => ~c.address.index /\ (c.address.type = "encryption" => c.action # "no-op")

\* A compliant plan of which the input tells all is not denied.
LEMMA CompliantIsNotDenied ==
  ASSUME NEW plan \in Plan, Compliant(plan), ToldInFull(plan)
  PROVE  Denials(BuildInput(plan)) = {}
<1> DEFINE input == BuildInput(plan)
           n(c) == Normalize(c, plan.modules)
<1>1. \A r \in input : \E c \in plan.changes : IncludeResource(c) /\ r = n(c)
  BY DEF BuildInput
<1>2. \A c \in plan.changes : IncludeResource(c) => n(c) \in input
  BY DEF BuildInput
<1>3. ASSUME NEW c \in plan.changes, c.managed
      PROVE  ConfigOf(plan, c) = n(c).config
  <2>1. c.address \in Address
    BY DEF Plan, Change
  <2>2. c.address.index = FALSE
    BY <1>3, <2>1 DEF ToldInFull, Address
  <2>3. [c.address EXCEPT !.index = FALSE] = c.address
    BY <2>1, <2>2 DEF Address
  <2> QED
    BY <2>3 DEF ConfigOf, Normalize
<1>4. \A c : n(c).address = c.address /\ n(c).values = PlannedValues(c)
  BY DEF Normalize
<1> HIDE DEF n, input
<1>5. ASSUME NEW c \in plan.changes, IncludeResource(c)
      PROVE  LET r == n(c) IN
             /\ r.address.type = "bucket" =>
                  /\ r.values.inline \/ HasEncryption(r, input)
                  /\ r.config.prevent
                  /\ r.values.tagged
             /\ r.address.type = "group" => ~r.values.open /\ r.values.tagged
             /\ r.address.type = "rule" => ~r.values.open
             /\ r.address.type = "policy" => ~r.values.wildcard
  <2>1. Touched(c) /\ c.managed
    BY <1>5 DEF IncludeResource, Touched
  <2>2. /\ c.address.type = "bucket" =>
             /\ PlannedValues(c).inline \/ \E e \in plan.changes : Encrypts(plan, e, c)
             /\ ConfigOf(plan, c).prevent
             /\ PlannedValues(c).tagged
        /\ c.address.type = "group" => ~PlannedValues(c).open /\ PlannedValues(c).tagged
        /\ c.address.type = "rule" => ~PlannedValues(c).open
        /\ c.address.type = "policy" => ~PlannedValues(c).wildcard
    BY <2>1 DEF Compliant
  <2>3. ASSUME NEW e \in plan.changes, Encrypts(plan, e, c) PROVE HasEncryption(n(c), input)
    <3>1. e.managed /\ e.address.type = "encryption" /\ e.action \notin {"delete", "forget"}
      BY <2>3 DEF Encrypts, Stays
    <3>2. IncludeResource(e)
      BY <3>1 DEF ToldInFull, IncludeResource
    <3>3. n(e) \in input /\ n(e).address.type = "encryption"
      BY <1>2, <1>4, <3>1, <3>2
    <3>4. ConfigOf(plan, e) = n(e).config
      BY <1>3, <3>1
    <3>5. \/ n(c).address.name \in n(e).config.refers
          \/ n(e).values.bucket = BucketName(n(c))
      BY <1>4, <2>3, <3>4 DEF Encrypts, BucketName
    <3> QED
      BY <3>3, <3>5 DEF HasEncryption
  <2> QED
    BY <1>3, <1>4, <2>1, <2>2, <2>3
<1>6. \A r \in input :
        /\ r.address.type = "bucket" =>
             /\ r.values.inline \/ HasEncryption(r, input)
             /\ r.config.prevent
             /\ r.values.tagged
        /\ r.address.type = "group" => ~r.values.open /\ r.values.tagged
        /\ r.address.type = "rule" => ~r.values.open
        /\ r.address.type = "policy" => ~r.values.wildcard
  BY <1>1, <1>5
<1>7. Denials(input) = {}
  BY <1>6 DEF Denials
<1> QED
  BY <1>7 DEF input

\* What does not pass is objectionable; harnesses pass suites that are in order.
LEMMA FailingIsObjectionable ==
  ASSUME TypeOK, ToldInFull(setup.safe), NEW c \in Command, ~Passes(c)
  PROVE  Objectionable(c)
<1> DEFINE x == setup.tests
<1>1. CASE c = "safe plan"
  <2>1. OpaPlanDenies(setup.safe) # {}
    BY <1>1, PassingSays
  <2>2. Denials(BuildInput(setup.safe)) # {}
    BY <2>1 DEF OpaPlanDenies
  <2>3. setup.safe \in Plan
    BY DEF TypeOK, IsSetup
  <2>4. ~Compliant(setup.safe)
    BY <2>2, <2>3, CompliantIsNotDenied
  <2> QED
    BY <1>1, <2>4 DEF Objectionable
<1>2. CASE c = "privileged tests"
  <2>1. PrivilegedTests(x) # 0
    BY <1>2, PassingSays
  <2>2. ASSUME InOrder(x, "privileged") PROVE FALSE
    <3>1. x.validator["privileged"] # Absent /\ x.fixtures["privileged"] # Absent
      BY <2>2 DEF InOrder
    <3>2. RunsPass(x, "privileged")
      BY <2>2, OrderedRuns DEF Suite
    <3> QED
      BY <2>1, <3>1, <3>2, PrivilegedExit
  <2> QED
    BY <1>2, <2>2 DEF Objectionable
<1>3. CASE c = "contract tests"
  <2>1. ContractTests(x) # 0
    BY <1>3, PassingSays
  <2>2. ASSUME x.contract, x.toolsRule, InOrder(x, "contract"),
               HasCallerCheck(x) => InOrder(x, "consumer")
        PROVE  FALSE
    <3>1. x.validator["contract"] # Absent /\ ~DiscoveryFails(x.fixtures["contract"])
      BY <2>2 DEF InOrder
    <3>2. RunsPass(x, "contract")
      BY <2>2, OrderedRuns DEF Suite
    <3>3. HasCallerCheck(x) => ~DiscoveryFails(x.fixtures["consumer"]) /\ RunsPass(x, "consumer")
      BY <2>2, OrderedRuns DEF InOrder, Suite
    <3> QED
      BY <2>1, <2>2, <3>1, <3>2, <3>3, ContractExit
  <2> QED
    BY <1>3, <2>2 DEF Objectionable
<1>4. CASE c = "bad plan"
  <2>1. OpaPlanDenies(setup.bad) # setup.expected
    BY <1>4, PassingSays
  <2> QED
    BY <1>4, <2>1 DEF Objectionable, OpaPlanDenies
<1>5. CASE c \in {"fixtures", "opa test"}
  BY <1>5, PassingSays DEF Objectionable
<1>6. CASE c \notin {"safe plan", "privileged tests", "contract tests", "bad plan",
                     "fixtures", "opa test"}
  <2>1. c \in setup.broken
    BY <1>6, PassingSays DEF Computed
  <2> QED
    BY <1>6, <2>1 DEF Objectionable
<1> QED
  BY <1>1, <1>2, <1>3, <1>4, <1>5, <1>6

\* Steps run commands.
LEMMA CommandsAreCommands == \A s \in DOMAIN Steps : CommandsOf(s) \subseteq Command
BY StepsOrderly DEF CommandsOf, Orderly, Item

\* FailureHasACause follows from the invariant for such plans.
LEMMA FailuresHaveCauses == IInv /\ ToldInFull(setup.safe) => FailureHasACause
<1> SUFFICES ASSUME IInv, ToldInFull(setup.safe), exit = "nonzero"
             PROVE  FailureHasACause
  BY DEF FailureHasACause
<1>1. Caused /\ Asked \in Named
  <2>1. Caused
    BY DEF IInv
  <2>2. Asked \in Named
    BY StepNames, TargetNames DEF IInv, TypeOK, IsSetup, Asked, Named
  <2> QED
    BY <2>1, <2>2
<1>2. \A c \in Command : ~Passes(c) => Objectionable(c)
  BY FailingIsObjectionable DEF IInv
<1>3. \A s \in Below[Asked] : CommandsOf(s) \subseteq Command
  BY <1>1, BelowAreSteps, CommandsAreCommands
<1> QED
  BY <1>1, <1>2, <1>3 DEF Caused, FailureHasACause

----------------------------------------------------------------------------
\* verify.py returns 0 only when every command of every step below the target has run
\* and passed.
THEOREM ZeroMeansEveryGateAlways == Spec => []ZeroMeansEveryGate
BY GatesInvariant, ZeroIsEveryGate, PTL

\* The target "verify" returns 0 only when nothing that any step looks at is wrong.
THEOREM VerifyMeansCleanAlways == Spec => []VerifyMeansClean
BY GatesInvariant, ZeroIsClean, PTL

\* A policy that OPA does not find never passes for one without objections.
THEOREM PolicyIsLiveAlways == Spec => []PolicyIsLive
BY GatesInvariant, LivePolicy, PTL

\* No gate of the job runs with a tool whose download did not verify.
THEOREM VerifiedToolsAlways == Spec => []GatesUseVerifiedTools
BY GatesInvariant, VerifiedTools, PTL

\* A harness that returns 0 has seen every registered rule at work, whatever the
\* validators and the fixtures are.
THEOREM RegisteredRulesAlways == Spec => []RegisteredRulesAreChecked
<1>1. IInv => RegisteredRulesAreChecked
  BY TestedSuites DEF RegisteredRulesAreChecked
<1> QED
  BY <1>1, GatesInvariant, PTL

\* Nor has it taken a traceback for a refusal where something is registered.
THEOREM TracebackAlways == Spec => []TracebackIsNoRefusal
<1>1. IInv => TracebackIsNoRefusal
  BY TestedSuites DEF TracebackIsNoRefusal
<1> QED
  BY <1>1, GatesInvariant, PTL

\* A run that fails has a cause, for every setup whose safe plan is told in full: the
\* plans that the policies are known to misjudge are left out.
THEOREM FailureCauseAlways == Spec => [](ToldInFull(setup.safe) => FailureHasACause)
<1>1. IInv => (ToldInFull(setup.safe) => FailureHasACause)
  BY FailuresHaveCauses
<1> QED
  BY <1>1, GatesInvariant, PTL
=============================================================================
