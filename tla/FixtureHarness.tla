--------------------------- MODULE FixtureHarness ---------------------------
(***************************************************************************)
(* tools/run_contract_tests.py and tools/run_privileged_workflow_tests.py: *)
(* validators are run on good checkouts and on bad ones, and must accept   *)
(* the former and refuse the latter for the reasons that are registered.   *)
(* Each script does all its runs whatever comes out and then returns one   *)
(* exit code, so it is a function of what it finds.                        *)
(*                                                                         *)
(* A checkout is a function from some paths to texts.  A validator is its  *)
(* rules and what may be wrong with it, which the harness is to notice.    *)
(* A marker is the set of rules whose [FAIL] lines it matches.             *)
(***************************************************************************)
EXTENDS SequencesExt

CONSTANTS
  Path,
  Pruned,   \* what only a template has: tools/, policies/, reusable workflows
  Ignored,  \* .git, .venv and the caches
  Text,
  BadName,  \* the fixture names that begin with bad-
  Absent,   \* no such file or directory
  MalformedEntry  \* the [FAIL] line for an entry of the contract without a path

Suite == {"consumer", "contract", "privileged"}

\* A text that a file may not have, or a file that must not be missing.
Rule == [path : Path, allowed : SUBSET Text, needed : BOOLEAN]

Validator ==
  [rules      : SUBSET Rule,
   overlooked : SUBSET Rule,  \* those it does not check
   raises     : SUBSET Rule,  \* those it raises at when they are broken
   malformed  : {"reported", "ignored", "raised"},  \* an entry without a path
   tells      : BOOLEAN]      \* by its exit code that something has failed

ASSUME NamesAssumption == "good" \notin BadName /\ MalformedEntry \notin Rule

IsCheckout(t) == DOMAIN t \subseteq Path /\ Range(t) \subseteq Text

\* What the two scripts find.
IsTests(x) ==
  /\ x.validator \in [Suite -> Validator \cup {Absent}]
  /\ x.contract \in BOOLEAN   \* is the file there
  /\ x.toolsRule \in BOOLEAN  \* does it have the line to insert before
  /\ IsCheckout(x.repo)       \* the template
  /\ \A u \in Suite :
       x.fixtures[u] = Absent \/ \A f \in DOMAIN x.fixtures[u] : IsCheckout(x.fixtures[u][f])

----------------------------------------------------------------------------
\* A validator

Broken(r, t) == IF r.path \in DOMAIN t THEN t[r.path] \notin r.allowed ELSE r.needed

\* What it prints and returns for a checkout; with a malformed entry in the
\* contract or not.  Without any workflows it refuses to work.  Validators print
\* last, so one that raises has printed nothing.
Answer(v, t, malformed) ==
  LET hits == {r \in v.rules \ v.overlooked : Broken(r, t)}
      raised == hits \cap v.raises # {} \/ (malformed /\ v.malformed = "raised")
      entry == IF malformed /\ v.malformed = "reported" THEN {MalformedEntry} ELSE {}
      fails == IF raised THEN {} ELSE hits \cup entry
  IN  IF DOMAIN t = {}
      THEN [code |-> 2, fails |-> {}]
      ELSE [code |-> IF raised \/ (v.tells /\ fails # {}) THEN 1 ELSE 0,
            fails |-> fails]

----------------------------------------------------------------------------
\* Fixtures and markers

Registered(x, suite, f) ==
  IF f \in DOMAIN x.markers[suite] THEN x.markers[suite][f] ELSE {}

\* Mutant: nobody looks for the markers.
MissingNone(fails, markers) == {}

Missing(fails, markers) == {m \in markers : m \cap fails = {}}

DiscoveryFails(fixtures) ==
  \/ fixtures = Absent
  \/ "good" \notin DOMAIN fixtures
  \/ DOMAIN fixtures \cap BadName = {}
  \/ ~ DOMAIN fixtures \subseteq BadName \cup {"good"}

\* The files of a fixture, copied over those that are there.
Overlay(base, fixture) ==
  [p \in DOMAIN base \cup DOMAIN fixture |->
     IF p \in DOMAIN fixture THEN fixture[p] ELSE base[p]]

\* The fixture, over what of the template a runner has as well: what only a
\* template has is removed first.
Prepare(repo, fixture) ==
  Overlay(Restrict(repo, DOMAIN repo \ (Ignored \cup Pruned)), fixture)

\* The checkout a validator is run on.
Subject(x, suite, f) ==
  IF suite = "contract" THEN Prepare(x.repo, x.fixtures[suite][f])
  ELSE IF f \in DOMAIN x.fixtures[suite] THEN x.fixtures[suite][f]
  ELSE <<>>

RunFixture(x, suite, f) ==
  LET answer == Answer(x.validator[suite], Subject(x, suite, f), FALSE)
  IN  IF f = "good"
      THEN answer.code = 0
      ELSE /\ IF suite = "privileged" THEN answer.code = 1 ELSE answer.code # 0
           /\ Missing(answer.fails, Registered(x, suite, f)) = {}

\* Mutant: any exit code but 0 will do.
MalformedByCode(x) ==
  /\ x.toolsRule
  /\ Answer(x.validator["contract"], Subject(x, "contract", "good"), TRUE).code # 0

\* The good fixture against a contract with a malformed entry.
RunMalformed(x) ==
  LET answer == Answer(x.validator["contract"], Subject(x, "contract", "good"), TRUE)
  IN  x.toolsRule /\ answer.code # 0 /\ MalformedEntry \in answer.fails

----------------------------------------------------------------------------
\* The exit codes

HasCallerCheck(x) == x.validator["consumer"] # Absent

ContractTests(x) ==
  IF \/ x.validator["contract"] = Absent
     \/ ~ x.contract
     \/ HasCallerCheck(x) /\ DiscoveryFails(x.fixtures["consumer"])
     \/ DiscoveryFails(x.fixtures["contract"])
  THEN 2
  ELSE LET fail == \/ /\ HasCallerCheck(x)
                      /\ \E f \in DOMAIN x.fixtures["consumer"] : ~RunFixture(x, "consumer", f)
                   \/ \E f \in DOMAIN x.fixtures["contract"] : ~RunFixture(x, "contract", f)
                   \/ ~RunMalformed(x)
       IN  IF fail THEN 1 ELSE 0

PrivilegedNames == {"good", "bad", "reusable-bad"}

PrivilegedTests(x) ==
  IF x.validator["privileged"] = Absent \/ x.fixtures["privileged"] = Absent THEN 2
  ELSE IF \A f \in PrivilegedNames : RunFixture(x, "privileged", f) THEN 0 ELSE 1

----------------------------------------------------------------------------
\* What the exit codes should say

BadOf(x, suite) ==
  IF suite = "privileged" THEN PrivilegedNames \ {"good"}
  ELSE DOMAIN x.fixtures[suite] \cap BadName

\* The checkout that a fixture stands for, path by path: of the template it has
\* what every runner has.
Runner(x, suite, f) ==
  LET own == IF f \in DOMAIN x.fixtures[suite] THEN x.fixtures[suite][f] ELSE <<>>
      base == IF suite = "contract"
              THEN {p \in DOMAIN x.repo : p \notin Ignored /\ p \notin Pruned}
              ELSE {}
  IN  [p \in base \cup DOMAIN own |-> IF p \in DOMAIN own THEN own[p] ELSE x.repo[p]]

Checks(v, r) == r \in v.rules /\ r \notin v.overlooked

\* Something is looked for in what the validator prints.  Where only exit codes
\* count, one that raises at each bad fixture and never tells of a failure passes.
LooksAtOutput(x, suite) ==
  suite = "contract" \/ \E f \in BadOf(x, suite) : Registered(x, suite, f) # {}

\* Each marker of a bad fixture stands for a rule that the validator checks and
\* that a runner with this fixture breaks; one with the good fixture breaks none.
RegisteredRulesWork(x, suite) ==
  LET v == x.validator[suite]
  IN  /\ \A f \in BadOf(x, suite) : \A m \in Registered(x, suite, f) :
           \E r \in m : Checks(v, r) /\ Broken(r, Runner(x, suite, f))
      /\ LooksAtOutput(x, suite) =>
           \A r \in v.rules : Checks(v, r) => ~Broken(r, Runner(x, suite, "good"))

\* The validator does not raise where it should report, and its code tells.
Reports(x, suite) ==
  LET v == x.validator[suite]
  IN  /\ LooksAtOutput(x, suite) => v.tells
      /\ suite = "contract" => v.malformed = "reported"
      /\ \A f \in BadOf(x, suite), r \in v.raises :
           Registered(x, suite, f) # {} /\ Checks(v, r) => ~Broken(r, Runner(x, suite, f))

Sound(v) ==
  v.overlooked = {} /\ v.raises = {} /\ v.malformed = "reported" /\ v.tells

\* A sound validator, with fixtures that show what they are registered for.
InOrder(x, suite) ==
  LET v == x.validator[suite]
      Breaks(r, f) == r \in v.rules /\ Broken(r, Runner(x, suite, f))
  IN  /\ v # Absent /\ Sound(v)
      /\ x.fixtures[suite] # Absent
      /\ suite # "privileged" => ~DiscoveryFails(x.fixtures[suite])
      /\ \A f \in BadOf(x, suite) \cup {"good"} : DOMAIN Runner(x, suite, f) # {}
      /\ \A r \in v.rules : ~Breaks(r, "good")
      /\ \A f \in BadOf(x, suite) :
           /\ \E r \in v.rules : Breaks(r, f)
           /\ \A m \in Registered(x, suite, f) : \E r \in m : Breaks(r, f)
=============================================================================
