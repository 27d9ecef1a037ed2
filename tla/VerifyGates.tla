---------------------------- MODULE VerifyGates ----------------------------
(***************************************************************************)
(* tools/verify.py, run by hand or as the last step of a job of ci.yaml:   *)
(* a target is expanded into targets and steps, a step into the commands   *)
(* it runs one after the other, and the first that fails ends everything.  *)
(* In the job "terraform runner verify", tools/install_ci_tools.sh comes   *)
(* first.                                                                  *)
(*                                                                         *)
(* Whether a command has something to object to is part of the setup;      *)
(* what it needs to run at all, how the answers of OPA are read, and what  *)
(* the two fixture harnesses make of the validators they test, is          *)
(* modelled.  The checkout does not change while the gates run.            *)
(***************************************************************************)
EXTENDS PlanPolicy, FixtureHarness

CONSTANTS Setups  \* the setups to consider

Package == {"pyyaml", "ruff", "yamllint"}
Executable == {"actionlint", "shellcheck", "markdownlint", "opa", "terraform",
               "tflint", "terraform-docs"}

\* install_ci_tools.sh, in its order; no gate uses the third and the fourth.
Fetched == <<"actionlint", "markdownlint", "tflint", "terraform-docs", "opa">>

\* A command that a gate runs, as the last argument of an operation.
Do(kind, what) == [do |-> kind, what |-> what]

Install(p) == Do("install", p)
Import(p) == Do("import", p)
Run(c) == Do("run", c)

----------------------------------------------------------------------------
\* The steps

Shellcheck == <<Run("shellcheck")>>

\* Mutant: the step counts on PyYAML.
PrivilegedUninstalled == <<Run("privileged"), Run("privileged tests")>>

Privileged == <<Install("pyyaml"), Run("privileged"), Run("privileged tests")>>
ContractShape == <<Install("pyyaml"), Import("pyyaml"), Run("contract shape")>>

Steps ==
  [ruff           |-> <<Install("ruff"), Run("ruff")>>,
   yamllint       |-> <<Install("yamllint"), Run("yamllint")>>,
   actionlint     |-> <<Run("actionlint")>>,
   shellcheck     |-> Shellcheck,
   markdownlint   |-> <<Run("markdownlint")>>,
   helpers        |-> Shellcheck \o <<Run("run blocks"), Run("callers")>> \o Privileged,
   privileged     |-> Privileged,
   opa_test       |-> <<Run("opa test")>>,
   opa_policy     |-> <<Install("pyyaml"), Run("opa input"), Run("opa hygiene")>>,
   opa_plan       |-> <<Run("fixtures"), Run("safe plan"), Run("bad plan")>>,
   manifest       |-> <<Run("manifest")>>,
   contract_shape |-> ContractShape,
   contract       |-> ContractShape \o <<Run("contract"), Run("contract tests")>>,
   contract_tests |-> <<Install("pyyaml"), Run("contract tests")>>,
   docs           |-> <<Run("docs")>>,
   adr            |-> <<Run("adr")>>,
   integration    |-> <<Run("integration")>>]

\* Mutant: the policy target is no longer part of ci.
TargetsWithoutPolicy ==
  [lint   |-> <<"ruff", "yamllint">>,
   policy |-> <<"opa_test", "opa_policy", "opa_plan">>,
   ci     |-> <<"lint", "actionlint", "helpers", "markdownlint", "docs", "adr",
                "manifest", "contract">>,
   verify |-> <<"ci", "integration">>]

Targets ==
  [lint   |-> <<"ruff", "yamllint">>,
   policy |-> <<"opa_test", "opa_policy", "opa_plan">>,
   ci     |-> <<"lint", "actionlint", "helpers", "policy", "markdownlint",
                "docs", "adr", "manifest", "contract">>,
   verify |-> <<"ci", "integration">>]

Command == {"ruff", "yamllint", "actionlint", "shellcheck", "markdownlint",
            "run blocks", "callers", "privileged", "privileged tests",
            "opa test", "opa input", "opa hygiene", "fixtures", "safe plan",
            "bad plan", "manifest", "contract shape", "contract",
            "contract tests", "docs", "adr", "integration"}

\* The commands whose verdict is computed.
Computed == {"fixtures", "safe plan", "bad plan", "privileged tests", "contract tests"}

\* What a command makes use of, and fails without, but for the privileged scan.
\* Its tests run that same scan on workflows it must refuse.
Depends(c) ==
  CASE c \in {"actionlint", "shellcheck", "markdownlint", "ruff", "yamllint"} -> {c}
    [] c \in {"opa test", "opa hygiene", "safe plan", "bad plan"} -> {"opa"}
    [] c \in {"privileged", "privileged tests", "contract", "contract tests"} -> {"pyyaml"}
    [] c = "integration" -> {"terraform"}
    [] OTHER -> {}

IsSetup(s) ==
  /\ s.job \in {"none", "verify", "helpers"}  \* of ci.yaml, none by hand
  /\ s.target \in DOMAIN Targets \cup DOMAIN Steps
  /\ s.has \subseteq Package \cup Executable  \* on the machine
  /\ s.network \in BOOLEAN                    \* installing packages works
  /\ s.corrupt \subseteq Range(Fetched)       \* downloads that do not verify
  /\ s.broken \subseteq Command \ Computed    \* with something to object to
  /\ s.fixtures \in BOOLEAN                   \* the two plan fixtures are there
  /\ s.safe \in Plan
  /\ s.bad \in Plan
  /\ s.policies \subseteq {"hygiene", "plan"}  \* packages that define deny
  /\ s.expected \subseteq [rule : {"encrypt", "port"}, of : Address]
  /\ IsTests(s.tests)                         \* what the fixture harnesses find

ASSUME SetupsAssumption == \A s \in Setups : IsSetup(s)

VARIABLES
  setup,  \* what the run finds
  todo,   \* what is left to do, the innermost first
  has,    \* packages and executables that can be used
  done,   \* the commands that passed
  exit    \* how the run ended, "none" before

vars == <<setup, todo, has, done, exit>>

Item ==
  [do : {"fetch"}, what : Range(Fetched)] \cup [do : {"apt"}, what : {"shellcheck"}]
    \cup [do : {"execute"}, what : DOMAIN Targets \cup DOMAIN Steps]
    \cup [do : {"install", "import"}, what : Package]
    \cup [do : {"run"}, what : Command]

TypeOK ==
  /\ IsSetup(setup)
  /\ todo \in Seq(Item)
  /\ has \subseteq Package \cup Executable
  /\ done \subseteq Command
  /\ exit \in {"none", "zero", "nonzero"}

----------------------------------------------------------------------------

Execute(name) == Do("execute", name)
ExecuteAll(names) == [i \in DOMAIN names |-> Execute(names[i])]

\* The steps of a job, or the command line.
Program(s) ==
  CASE s.job = "verify" -> [i \in DOMAIN Fetched |-> Do("fetch", Fetched[i])]
                             \o <<Do("apt", "shellcheck"), Execute("verify")>>
    [] s.job = "helpers" -> <<Do("apt", "shellcheck"), Execute("helpers")>>
    [] OTHER -> <<Execute(s.target)>>

Init ==
  /\ setup \in Setups
  /\ todo = Program(setup)
  /\ has = setup.has
  /\ done = {}
  /\ exit = "none"

At(kind) == exit = "none" /\ todo # <<>> /\ Head(todo).do = kind

Go == todo' = Tail(todo) /\ exit' = exit
Fail == exit' = "nonzero" /\ todo' = todo

\* Mutant: execute returns after the first child that is a target.
EnterFirstTarget ==
  /\ At("execute")
  /\ Head(todo).what \in DOMAIN Targets
  /\ todo' = ExecuteAll(Targets[Head(todo).what])
  /\ UNCHANGED <<setup, has, done, exit>>

\* execute, for a target and for a step
EnterTarget ==
  /\ At("execute")
  /\ Head(todo).what \in DOMAIN Targets
  /\ todo' = ExecuteAll(Targets[Head(todo).what]) \o Tail(todo)
  /\ UNCHANGED <<setup, has, done, exit>>

EnterStep ==
  /\ At("execute")
  /\ Head(todo).what \in DOMAIN Steps
  /\ todo' = Steps[Head(todo).what] \o Tail(todo)
  /\ UNCHANGED <<setup, has, done, exit>>

\* Mutant: a download that does not match its checksum is installed.
FetchUnverified ==
  /\ At("fetch")
  /\ Go /\ has' = has \cup {Head(todo).what}
  /\ UNCHANGED <<setup, done>>

\* install_ci_tools.sh: download, compare the checksum (npm does it for
\* markdownlint), install.
FetchTool ==
  /\ At("fetch")
  /\ IF Head(todo).what \in setup.corrupt
       THEN Fail /\ UNCHANGED has
       ELSE Go /\ has' = has \cup {Head(todo).what}
  /\ UNCHANGED <<setup, done>>

\* The step "Install ShellCheck".
AptInstall ==
  /\ At("apt")
  /\ IF setup.network THEN Go /\ has' = has \cup {Head(todo).what}
                      ELSE Fail /\ UNCHANGED has
  /\ UNCHANGED <<setup, done>>

\* install: nothing is installed outside of CI.
InstallPackage ==
  /\ At("install")
  /\ IF setup.job = "none" THEN Go /\ UNCHANGED has
     ELSE IF setup.network THEN Go /\ has' = has \cup {Head(todo).what}
     ELSE Fail /\ UNCHANGED has
  /\ UNCHANGED <<setup, done>>

ImportPackage ==
  /\ At("import")
  /\ IF Head(todo).what \in has THEN Go ELSE Fail
  /\ UNCHANGED <<setup, has, done>>

----------------------------------------------------------------------------
\* opa_plan_denies: no answer, for want of a package that defines "deny",
\* counts as no denial.
OpaPlanDenies(plan) ==
  IF "plan" \in setup.policies THEN Denials(BuildInput(plan)) ELSE {}

\* Mutant: expected denials that are missing go unnoticed.
PassesWithMissing(c) ==
  CASE c = "opa test" -> c \notin setup.broken /\ setup.policies = {"hygiene", "plan"}
    [] c = "opa hygiene" -> c \notin setup.broken \/ "hygiene" \notin setup.policies
    [] c = "fixtures" -> setup.fixtures
    [] c = "safe plan" -> OpaPlanDenies(setup.safe) = {}
    [] c = "bad plan" -> OpaPlanDenies(setup.bad) \subseteq setup.expected
    [] c = "privileged tests" -> PrivilegedTests(setup.tests) = 0
    [] c = "contract tests" -> ContractTests(setup.tests) = 0
    [] OTHER -> c \notin setup.broken

\* What a command says when it can run.  opa eval --fail-defined succeeds when
\* there is nothing that defines "deny".
Passes(c) ==
  CASE c = "opa test" -> c \notin setup.broken /\ setup.policies = {"hygiene", "plan"}
    [] c = "opa hygiene" -> c \notin setup.broken \/ "hygiene" \notin setup.policies
    [] c = "fixtures" -> setup.fixtures
    [] c = "safe plan" -> OpaPlanDenies(setup.safe) = {}
    [] c = "bad plan" -> OpaPlanDenies(setup.bad) = setup.expected
    [] c = "privileged tests" -> PrivilegedTests(setup.tests) = 0
    [] c = "contract tests" -> ContractTests(setup.tests) = 0
    [] OTHER -> c \notin setup.broken

\* main of the privileged scan: a file that cannot be loaded is passed over, and
\* without PyYAML that is every file, whatever there is to object to.
Blind(c) == c = "privileged" /\ "pyyaml" \notin has

\* run, capture and run_required_tool: a missing executable ends the run like a
\* failing command does.
RunCommand ==
  /\ At("run")
  /\ LET c == Head(todo).what
     IN  IF Blind(c) \/ (Depends(c) \subseteq has /\ Passes(c))
           THEN Go /\ done' = done \cup {c}
           ELSE Fail /\ UNCHANGED done
  /\ UNCHANGED <<setup, has>>

\* main returns 0.
Succeed ==
  /\ exit = "none" /\ todo = <<>>
  /\ exit' = "zero"
  /\ UNCHANGED <<setup, todo, has, done>>

Next ==
  \/ EnterTarget \/ EnterStep
  \/ FetchTool \/ AptInstall \/ InstallPackage \/ ImportPackage
  \/ RunCommand \/ Succeed

Spec == Init /\ [][Next]_vars

----------------------------------------------------------------------------
(***************************************************************************)
(* Properties                                                              *)
(***************************************************************************)

\* The targets and steps below a name, itself included, and the commands of
\* those that are steps.
Below[name \in DOMAIN Targets \cup DOMAIN Steps] ==
  IF name \in DOMAIN Steps THEN {name}
  ELSE UNION {Below[Targets[name][i]] : i \in DOMAIN Targets[name]}

CommandsOf(step) ==
  {Steps[step][i].what : i \in {j \in DOMAIN Steps[step] : Steps[step][j].do = "run"}}

Asked == IF setup.job = "none" THEN setup.target ELSE setup.job

\* Exit code 0 means that every command of every step below the target has run
\* and passed, however deep the targets are nested, and each with what it uses:
\* a scan that was blind has not made the run a success.
ZeroMeansEveryGate ==
  exit = "zero" =>
    \A s \in Below[Asked] :
      CommandsOf(s) \subseteq done /\ \A c \in CommandsOf(s) : Depends(c) \subseteq has

\* "verify" leaves nothing out: when it exits with 0, nothing that any step of
\* the program looks at has anything wrong with it, whether the step is named
\* in a target or only runs as part of another one.
VerifyMeansClean ==
  exit = "zero" /\ Asked = "verify" =>
    /\ setup.broken = {} /\ setup.fixtures
    /\ setup.policies = {"hygiene", "plan"}
    /\ Denials(BuildInput(setup.safe)) = {}
    /\ Denials(BuildInput(setup.bad)) = setup.expected

\* A policy that OPA does not find never passes for one that has no objection:
\* the plan fixtures notice the one, "opa test" the other.
PolicyIsLive ==
  exit = "zero" /\ setup.expected # {} =>
    /\ "opa_plan" \in Below[Asked] => "plan" \in setup.policies
    /\ {"opa_test", "opa_policy"} \subseteq Below[Asked] =>
         "hygiene" \in setup.policies

\* What the job or the machine provides in the end, when nothing goes wrong.
Provided ==
  setup.has \cup
    CASE setup.job = "verify" -> Range(Fetched) \cup {"shellcheck"} \cup Package
      [] setup.job = "helpers" -> {"shellcheck"} \cup Package
      [] OTHER -> {}

\* What can be wrong with a command.
Objectionable(c) ==
  CASE c = "fixtures" -> ~setup.fixtures
    [] c = "safe plan" -> ~Compliant(setup.safe)
    [] c = "bad plan" -> \/ "plan" \notin setup.policies
                         \/ Denials(BuildInput(setup.bad)) # setup.expected
    [] c = "opa test" -> c \in setup.broken \/ setup.policies # {"hygiene", "plan"}
    [] c = "privileged tests" -> ~InOrder(setup.tests, "privileged")
    [] c = "contract tests" ->
         \/ ~setup.tests.contract \/ ~setup.tests.toolsRule
         \/ ~InOrder(setup.tests, "contract")
         \/ HasCallerCheck(setup.tests) /\ ~InOrder(setup.tests, "consumer")
    [] OTHER -> c \in setup.broken

\* No false alarm: when a run fails, a download or an installation did, or the
\* machine lacks something, or a command below the target has a reason; in CI
\* no step is short of a package, whichever target it is run for.
FailureHasACause ==
  exit = "nonzero" =>
    \/ setup.job # "none" /\ ~setup.network
    \/ setup.job = "verify" /\ setup.corrupt # {}
    \/ \E s \in Below[Asked] :
         \/ s \in {"contract_shape", "contract"} /\ "pyyaml" \notin Provided
         \/ \E c \in CommandsOf(s) :
              Objectionable(c) \/ ~(Depends(c) \subseteq Provided)

\* The rule of terraform_plan.rego:149, "must have server-side encryption
\* configuration", and the others, judged from the whole plan: a plan that keeps
\* them passes as the safe plan, when nothing else is wrong.
CompliantPlanPasses ==
  exit = "nonzero" =>
    \/ ~Compliant(setup.safe)
    \/ \E s \in Below[Asked] : \E c \in CommandsOf(s) \ {"safe plan"} :
         Objectionable(c) \/ ~(Depends(c) \subseteq Provided)

\* The suites of fixtures that an exit code 0 vouches for.
Tested ==
  IF exit # "zero" THEN {}
  ELSE LET commands == UNION {CommandsOf(s) : s \in Below[Asked]}
       IN  {u \in Suite :
              CASE u = "privileged" -> "privileged tests" \in commands
                [] u = "contract" -> "contract tests" \in commands
                [] OTHER -> "contract tests" \in commands /\ HasCallerCheck(setup.tests)}

\* When a target with a fixture harness in it exits with 0, every registered rule
\* of the validators is at work: a rule that got lost in a validator, or a
\* fixture that no longer shows its fault, is noticed, however many other faults
\* the same fixture has.
RegisteredRulesAreChecked == \A u \in Tested : RegisteredRulesWork(setup.tests, u)

\* Nor does a validator with a traceback where it should report pass for one that
\* refuses, at any fixture with something registered or at a malformed entry.
TracebackIsNoRefusal == \A u \in Tested : Reports(setup.tests, u)

\* No gate of the job runs with a tool whose download did not verify.
GatesUseVerifiedTools ==
  \A c \in done : Depends(c) \cap setup.corrupt \subseteq setup.has

----------------------------------------------------------------------------
\* The inductive invariant

\* The commands that an item of todo stands for.
Owed(t) ==
  CASE t.do = "run" -> {t.what}
    [] t.do = "execute" -> UNION {CommandsOf(s) : s \in Below[t.what]}
    [] OTHER -> {}

\* Nothing is lost: what has not passed yet is still to be done.
NothingLost ==
  /\ exit # "nonzero" =>
       \A s \in Below[Asked] :
         CommandsOf(s) \subseteq done \cup UNION {Owed(todo[i]) : i \in DOMAIN todo}
  /\ exit = "zero" => todo = <<>>

\* What has passed had a reason to, or was the blind scan on a machine where
\* nothing is installed; what is there was there or verified.
PassedRightly ==
  /\ \A c \in done : \/ Passes(c) /\ Depends(c) \subseteq has
                     \/ Blind(c) /\ setup.job = "none"
  /\ setup.has \subseteq has
  /\ has \cap setup.corrupt \subseteq setup.has

\* Everything in todo comes from the job or from the target.
Belongs(t) ==
  /\ t.do = "fetch" => setup.job = "verify"
  /\ t.do = "apt" => setup.job # "none"
  /\ t.do = "execute" => Below[t.what] \subseteq Below[Asked]
  /\ t.do = "import" =>
       t.what = "pyyaml" /\ {"contract_shape", "contract"} \cap Below[Asked] # {}
  /\ t.do = "run" => \E s \in Below[Asked] : t.what \in CommandsOf(s)

AllBelong == \A i \in DOMAIN todo : Belongs(todo[i])

\* What an item needs beforehand; a step installs the packages it needs.
Demand(t) ==
  CASE t.do = "run" -> Depends(t.what)
    [] t.do = "import" -> {t.what}
    [] t.do = "execute" -> (UNION {Depends(c) : c \in Owed(t)}) \ Package
    [] OTHER -> {}

\* Of that, what can be had at all is there or comes earlier in todo.
Supplied ==
  \A i \in DOMAIN todo : \A n \in Demand(todo[i]) \cap Provided :
    \/ n \in has
    \/ \E j \in 1..(i - 1) : todo[j].do \in {"fetch", "apt", "install"} /\ todo[j].what = n

\* Why a run can have failed.
Caused ==
  \/ setup.job # "none" /\ ~setup.network
  \/ setup.job = "verify" /\ setup.corrupt # {}
  \/ \E s \in Below[Asked] :
       \/ s \in {"contract_shape", "contract"} /\ "pyyaml" \notin Provided
       \/ \E c \in CommandsOf(s) : ~Passes(c) \/ ~(Depends(c) \subseteq Provided)

\* What all these properties rest on: todo never loses a command, whatever is in
\* it belongs there and gets what it needs, what is done has passed, and a run
\* only fails for a reason.
IInv ==
  /\ TypeOK
  /\ NothingLost
  /\ PassedRightly
  /\ AllBelong
  /\ Supplied
  /\ exit = "nonzero" => Caused
=============================================================================
