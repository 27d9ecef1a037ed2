-------------------------- MODULE RunnerValidation --------------------------
(***************************************************************************)
(* .github/workflows/reusable-terraform-validation.yaml: what a runner     *)
(* repository calls to be validated.  The job "validate" checks the inputs, *)
(* checks out the framework, copies the runner's data over it line by line *)
(* of overlay_paths, checks the runner against the template's contract and *)
(* runs the framework's "make ci" on the assembled tree.  Lint jobs run    *)
(* beside it.                                                              *)
(*                                                                         *)
(* GitHub Actions runs the jobs in parallel, each on a machine of its own, *)
(* ends a job at its first failing step, and can re-run jobs.  A directory *)
(* of the framework is a name; directories inside one another are left     *)
(* out.  What the contract check, the lint tools and "make ci" answer is   *)
(* part of the runner repository's description.                            *)
(***************************************************************************)
EXTENDS Integers, Sequences

CONSTANTS
  Name,         \* file names
  Content,      \* contents of files
  Directory,    \* directories of the framework
  Allowed,      \* terraform/repos, terraform/fixtures/runtime and below
  Source,       \* well-formed paths in the runner repository
  Bad,          \* empty or absolute paths, and those that leave the repository
  LintJob,      \* actionlint, shellcheck, yamllint, ruff, markdownlint
  Validate,     \* the job "validate"
  Requests,     \* the inputs the workflow may be called with
  Runners,      \* the runner repositories that may call it
  MaxAttempts   \* bound: attempts of one workflow run

Place == Directory \X Name
Tree == UNION {[S -> Content] : S \in SUBSET Place}
Files == UNION {[S -> Content] : S \in SUBSET Name}

\* One line of overlay_paths without its comment: what its arrows separate,
\* nothing for a blank line.
Line == Seq(Source \cup Directory \cup Bad)

Request == [mode : {"runner", "contract-and-lint", "full", "unknown"},
            templatePinned  : BOOLEAN,  \* template_ref is a full SHA
            frameworkPinned : BOOLEAN,  \* framework_ref is a full SHA
            framework : BOOLEAN,        \* framework_repo is given
            overlay   : Seq(Line),      \* overlay_paths, empty when not given
            contract  : BOOLEAN,        \* run_contract_check
            lint      : BOOLEAN,        \* run_lint_jobs
            advisory  : BOOLEAN]        \* lint_advisory

\* The runner repository at the checked out commit, with the framework at
\* framework_ref.
Runner == [data      : UNION {[S -> Files] : S \in SUBSET Source},
           framework : Tree,
           contract  : BOOLEAN,         \* check_template_contract.py exits 0
           callers   : BOOLEAN,         \* check_caller_workflows.py exits 0
           linted    : SUBSET LintJob,  \* the lint jobs with nothing to report
           passing   : SUBSET Tree]     \* the trees "make ci" passes on

ASSUME PathsAssumption ==
  /\ Allowed \subseteq Directory
  /\ (Source \cup Directory) \cap Bad = {}
ASSUME JobsAssumption == Validate \notin LintJob
ASSUME CallsAssumption == Requests \subseteq Request /\ Runners \subseteq Runner
ASSUME AttemptsAssumption == MaxAttempts \in Nat \ {0}

Job == LintJob \cup {Validate}

Steps == <<"mode", "template", "checkout", "inputs", "framework", "overlay",
           "tools", "contract", "callers", "ci">>

VARIABLES
  request,  \* the inputs
  runner,   \* the runner repository and the framework
  job,      \* the state of each job
  step,     \* the next step of "validate"
  line,     \* the next line of overlay_paths
  tree,     \* the framework checkout
  attempt   \* the number of this attempt

vars == <<request, runner, job, step, line, tree, attempt>>

TypeOK ==
  /\ request \in Requests
  /\ runner \in Runners
  /\ job \in [Job -> {"queued", "running", "success", "failure", "skipped"}]
  /\ step \in 1..(Len(Steps) + 1)
  /\ line \in 1..(Len(request.overlay) + 1)
  /\ tree \in Tree
  /\ attempt \in 1..MaxAttempts

----------------------------------------------------------------------------

\* The "if" of a lint job.
Wanted(j) == j = Validate \/ request.lint

Init ==
  /\ request \in Requests
  /\ runner \in Runners
  /\ job = [j \in Job |-> IF Wanted(j) THEN "queued" ELSE "skipped"]
  /\ step = 1
  /\ line = 1
  /\ tree = <<>>
  /\ attempt = 1

\* Mutant: continue-on-error on every job.
ToleratedAnywhere(j) == request.advisory

\* continue-on-error
Tolerated(j) == j \in LintJob /\ request.advisory

Concluded == \A j \in Job : job[j] \notin {"queued", "running"}

\* The conclusion of the workflow run.
Green == Concluded /\ \A j \in Job : job[j] = "failure" => Tolerated(j)

StartJob(j) ==
  /\ job[j] = "queued"
  /\ job' = [job EXCEPT ![j] = "running"]
  /\ UNCHANGED <<request, runner, step, line, tree, attempt>>

EndJob(j, result) ==
  /\ job[j] = "running"
  /\ job' = [job EXCEPT ![j] = result]
  /\ UNCHANGED <<request, runner, step, line, tree, attempt>>

LintJobEnds(j) ==
  EndJob(j, IF j \in runner.linted THEN "success" ELSE "failure")

\* Mutant: only the job "validate" has a timeout.
BreakValidate(j) == j = Validate /\ EndJob(j, "failure")

\* A network error, a full disk, a cancellation, or the job's timeout-minutes.
Break(j) == EndJob(j, "failure")

\* A run that is not green is run again, all of it or what has failed, on new
\* machines; the other results stand.
Rerun(jobs) ==
  /\ Concluded /\ ~Green
  /\ attempt < MaxAttempts
  /\ attempt' = attempt + 1
  /\ job' = [j \in Job |-> IF j \in jobs THEN "queued" ELSE job[j]]
  /\ step' = IF Validate \in jobs THEN 1 ELSE step
  /\ line' = IF Validate \in jobs THEN 1 ELSE line
  /\ tree' = IF Validate \in jobs THEN <<>> ELSE tree
  /\ UNCHANGED <<request, runner>>

Rerunnable(jobs) ==
  /\ {j \in Job : job[j] = "failure" /\ ~Tolerated(j)} \subseteq jobs
  /\ jobs \subseteq {j \in Job : Wanted(j)}

----------------------------------------------------------------------------
\* The steps of the job "validate"

At(s) ==
  /\ job[Validate] = "running"
  /\ step <= Len(Steps)
  /\ Steps[step] = s

\* The "if" of a step.
Applies(s) ==
  /\ s \in {"inputs", "framework", "overlay", "tools", "ci"} =>
       request.mode = "runner"
  /\ s \in {"contract", "callers"} => request.contract

SkipStep ==
  /\ \E s \in {Steps[i] : i \in 1..Len(Steps)} : At(s) /\ ~Applies(s)
  /\ step' = step + 1
  /\ UNCHANGED <<request, runner, job, line, tree, attempt>>

\* Validate runner-mode inputs
RunnerInputs ==
  /\ request.framework
  /\ request.frameworkPinned
  /\ request.overlay # <<>>

\* What a step that only looks answers.
Accepts(s) ==
  /\ s = "mode"     => request.mode \in {"runner", "contract-and-lint"}
  /\ s = "template" => request.templatePinned
  /\ s = "inputs"   => RunnerInputs
  /\ s = "contract" => runner.contract
  /\ s = "callers"  => runner.callers
  /\ s = "ci"       => tree \in runner.passing

Looking == {"mode", "template", "checkout", "inputs", "tools", "contract",
            "callers", "ci"}

PassStep ==
  /\ \E s \in Looking : At(s) /\ Applies(s) /\ Accepts(s)
  /\ step' = step + 1
  /\ UNCHANGED <<request, runner, job, line, tree, attempt>>

FailStep ==
  /\ \E s \in Looking : At(s) /\ Applies(s) /\ ~Accepts(s)
  /\ EndJob(Validate, "failure")

CheckOutFramework ==
  /\ At("framework") /\ Applies("framework")
  /\ tree' = runner.framework
  /\ step' = step + 1
  /\ UNCHANGED <<request, runner, job, line, attempt>>

\* The first and the last part of a line, whatever is between two arrows.
From(l) == l[1]
To(l) == l[Len(l)]

\* Mutant: no restriction of the destination.
AcceptableAnywhere(l) ==
  /\ Len(l) >= 2
  /\ From(l) \notin Bad /\ To(l) \in Directory
  /\ From(l) \in DOMAIN runner.data

\* A line that has a source and a destination, passes validate_overlay_path
\* and allowed_overlay_destination, and whose source exists.
Acceptable(l) ==
  /\ Len(l) >= 2
  /\ From(l) \notin Bad /\ To(l) \notin Bad
  /\ To(l) \in Allowed
  /\ From(l) \in DOMAIN runner.data

\* Mutant: a copy leaves files that are there alone.
CopyMissing(t, files, dir) ==
  [p \in DOMAIN t \cup ({dir} \X DOMAIN files) |->
     IF p \in DOMAIN t THEN t[p] ELSE files[p[2]]]

\* cp -a: the files of a directory, or a single file under its own name, over
\* what is in dir.
Copy(t, files, dir) ==
  [p \in DOMAIN t \cup ({dir} \X DOMAIN files) |->
     IF p[1] = dir /\ p[2] \in DOMAIN files THEN files[p[2]] ELSE t[p]]

AtLine ==
  /\ At("overlay") /\ Applies("overlay")
  /\ line <= Len(request.overlay)

ThisLine == request.overlay[line]

BlankLine ==
  /\ AtLine
  /\ ThisLine = <<>>
  /\ line' = line + 1
  /\ UNCHANGED <<request, runner, job, step, tree, attempt>>

\* Mutant: a line that is not acceptable is passed over.
BadLinePassedOver ==
  /\ AtLine
  /\ ThisLine # <<>> /\ ~Acceptable(ThisLine)
  /\ line' = line + 1
  /\ UNCHANGED <<request, runner, job, step, tree, attempt>>

\* exit 1: what earlier lines have copied stays copied.
BadLine ==
  /\ AtLine
  /\ ThisLine # <<>> /\ ~Acceptable(ThisLine)
  /\ EndJob(Validate, "failure")

CopyLine ==
  /\ AtLine
  /\ ThisLine # <<>> /\ Acceptable(ThisLine)
  /\ tree' = Copy(tree, runner.data[From(ThisLine)], To(ThisLine))
  /\ line' = line + 1
  /\ UNCHANGED <<request, runner, job, step, attempt>>

EndOverlay ==
  /\ At("overlay") /\ Applies("overlay")
  /\ line > Len(request.overlay)
  /\ step' = step + 1
  /\ UNCHANGED <<request, runner, job, line, tree, attempt>>

Succeed ==
  /\ step > Len(Steps)
  /\ EndJob(Validate, "success")

----------------------------------------------------------------------------

Next ==
  \/ \E j \in Job : StartJob(j) \/ Break(j)
  \/ \E j \in LintJob : LintJobEnds(j)
  \/ \E jobs \in SUBSET Job : Rerunnable(jobs) /\ Rerun(jobs)
  \/ SkipStep \/ PassStep \/ FailStep \/ CheckOutFramework
  \/ BlankLine \/ BadLine \/ CopyLine \/ EndOverlay \/ Succeed

Spec == Init /\ [][Next]_vars

\* A queued job gets a machine, and no job outlasts its timeout-minutes.  No
\* step has to end by itself, and nobody has to re-run anything.
Fairness == \A j \in Job : WF_vars(StartJob(j)) /\ WF_vars(Break(j))

FairSpec == Spec /\ Fairness

----------------------------------------------------------------------------
(***************************************************************************)
(* Properties                                                              *)
(***************************************************************************)

\* The lines that bring the file at place p.
Bringing(p) ==
  {i \in 1..Len(request.overlay) :
     LET l == request.overlay[i]
     IN  /\ l # <<>> /\ From(l) \in DOMAIN runner.data
         /\ To(l) = p[1] /\ p[2] \in DOMAIN runner.data[From(l)]}

\* The framework with the runner's data over it, said without the steps: the
\* last line that brings a file decides what it holds.
Assembly ==
  LET places == DOMAIN runner.framework
                  \cup {p \in Place : Bringing(p) # {}}
      last(p) == CHOOSE i \in Bringing(p) : \A k \in Bringing(p) : k <= i
  IN  [p \in places |->
         IF Bringing(p) = {} THEN runner.framework[p]
         ELSE runner.data[From(request.overlay[last(p)])][p[2]]]

AllAcceptable ==
  \A i \in 1..Len(request.overlay) :
    request.overlay[i] # <<>> => Acceptable(request.overlay[i])

\* A green run means what its request asked for, told from the request and the
\* repositories alone, whatever was re-run: the contract holds if it was to be
\* checked, the pinned framework with all of the data passes "make ci" in
\* runner mode, and every lint job that was wanted and is not advisory passes.
Valid ==
  /\ request.mode \in {"runner", "contract-and-lint"}
  /\ request.templatePinned
  /\ request.contract => runner.contract /\ runner.callers
  /\ request.mode = "runner" =>
       /\ request.framework /\ request.frameworkPinned
       /\ request.overlay # <<>> /\ AllAcceptable
       /\ Assembly \in runner.passing
  /\ request.lint /\ ~request.advisory => LintJob \subseteq runner.linted

GreenMeansValid == Green => Valid

\* "make ci" runs on the framework with every line applied, later lines over
\* earlier ones, and on nothing that an earlier attempt or a refused line left.
CIRunsOnAssembly ==
  At("ci") /\ Applies("ci") => AllAcceptable /\ tree = Assembly

\* The framework is checked as it was released: at no moment, in no attempt,
\* also when a line is refused after others were copied, does a file outside of
\* the allowed directories differ from the framework's.
FrameworkKept ==
  tree # <<>> =>
    \A p \in Place : p[1] \notin Allowed =>
      /\ p \in DOMAIN tree <=> p \in DOMAIN runner.framework
      /\ p \in DOMAIN tree => tree[p] = runner.framework[p]

\* Whoever calls the workflow gets an answer, also when a tool hangs.
Concludes == ~Concluded ~> Concluded

----------------------------------------------------------------------------
(***************************************************************************)
(* The inductive invariant behind the three safety properties              *)
(***************************************************************************)

Past(s) == \E i \in 1..(step - 1) : Steps[i] = s

\* The framework with the lines before n over it.
Partial(n) ==
  LET before(p) == {i \in Bringing(p) : i < n}
      last(p) == CHOOSE i \in before(p) : \A k \in before(p) : k <= i
  IN  [p \in DOMAIN runner.framework \cup {q \in Place : before(q) # {}} |->
         IF before(p) = {} THEN runner.framework[p]
         ELSE runner.data[From(request.overlay[last(p)])][p[2]]]

\* What the steps behind "validate" have found.
StepsInv ==
  /\ \A s \in Looking : Past(s) /\ Applies(s) => Accepts(s)
  /\ \A i \in 1..(line - 1) :
       request.overlay[i] # <<>> => Acceptable(request.overlay[i])
  /\ ~Past("framework") => tree = <<>> /\ line = 1
  /\ Past("framework") => tree = IF request.mode = "runner" THEN Partial(line)
                                                            ELSE <<>>
  /\ Past("overlay") /\ request.mode = "runner" =>
       line = Len(request.overlay) + 1

JobsInv ==
  /\ \A j \in LintJob : job[j] = "success" => j \in runner.linted
  /\ \A j \in Job : job[j] = "skipped" <=> ~Wanted(j)
  /\ job[Validate] = "success" => step = Len(Steps) + 1
  /\ job[Validate] = "queued" => step = 1

IInv == TypeOK /\ StepsInv /\ JobsInv
=============================================================================
