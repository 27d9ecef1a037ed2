# A formal model of terraform-runner-template

The repository is a template for data-only Terraform "runner" repositories. Its
behaviour is in the Python tools that check a repository (`tools/`), in the
reusable workflow that every runner calls to be validated
(`.github/workflows/reusable-terraform-validation.yaml`), in its own CI and in
the policies under `policies/opa`. This directory models these in TLA+, checks
the models with TLC and proves some of them correct with TLAPS.

To repeat a check: `tlc -config ScanChains.cfg MCPrivilegedScan`; a proof:
`tlapm PrivilegedScanProofs.tla`.

## The system

| Part | State | Operations | Interacts with | What is hard | What makes it correct |
|---|---|---|---|---|---|
| Privileged workflow scanner, `tools/check_privileged_workflows.py` | call stack, chain of callers, cache of results, findings | list files, scan a file, follow a local call, return, report | run by `verify.py` and CI; reads the checkout | recursion over a graph with cycles, a cache filled in the middle of it, three ways to fail | reports exactly what privileged files reach; ends |
| Cross-template drift check, `tools/check_cross_template_drift.py` + its job in `ci.yaml` | mains and pull requests of two templates, a run per concurrency group | fetch and compare a file, fail, conclude; push, merge, re-run | the sibling template's main through the GitHub API | the sibling moves while it is read; runs are cancelled; two symmetric sides | drift does not go unnoticed |
| Integration runner, `tools/ci/run_integration.py` | a workspace that outlasts the run | reset, copy overlay, copy framework, copy sample data, five terraform gates | terraform; a framework checkout | failing or being killed between two file operations | gates see only this run's sources |
| Reusable validation, `reusable-terraform-validation.yaml` | job states, the framework checkout | check inputs, check out, overlay line by line, contract, `make ci`, lint | called by runner repositories; calls the contract validator and the caller check | parallel jobs, advisory jobs, timeouts, re-runs, a list applied half | green means what was asked for |
| Gate runner, `tools/verify.py` | what is left to do, what has passed | targets and steps in order, first failure ends | every tool | OPA answers that look like "no denial" | exit 0 means that every gate passed |
| Fixture harnesses, `tools/run_contract_tests.py`, `tools/run_privileged_workflow_tests.py` | temporary repositories | discover, run, match markers | the validators under test | a fixture that fails for another reason | a bad fixture passes only for its own failure |
| Contract validator, `tools/check_template_contract.py` | results of rules, repository names met so far | path, content, forbidden-path, pinning, inventory and sync rules | `contract/runner-template-contract.yaml`; the template's manifest | exact-case lookup, exceptions, stale pins | a runner passes only when every rule holds |
| Caller check, `tools/check_caller_workflows.py` | results | check each call | the reusable workflow | references to one commit in several places | validator and workflow stay in step |
| Tool installation, `tools/install_ci_tools.sh` | `~/.local/bin` | download, verify, install | GitHub releases | partial installation | nothing unverified is used |
| Policies, `policies/opa/*.rego`, `tools/build_*_input.py` | none | deny rules over plans and over the repository | OPA, `verify.py` | nested modules, unknown values | deny exactly the bad plans |
| Run-block check, `tools/check_workflow_run_blocks.py` | the open block, the blocks found | scan line by line, give blocks to bash | `verify.py` | a block ends by indentation, not by YAML | every script of a step is looked at, whole |
| Manifest and documentation checks, `tools/check_{baseline_manifest,docs_layout,adr_schema}.py` | none | one scan each | `verify.py`; the contract validator reads the same manifest | each sees a part | together, an ADR of the template reaches every runner |
| Automation: auto-merge, ADR sync, release, deploy, drift gate, PR validation | GitHub's queues | triggers and concurrency groups | reusable workflows in other repositories | waiting and cancelled runs | the last state wins |

`PROJECT.json` lists every part with its status and every hazard at its line.

## The modules

| Module | Models |
|---|---|
| `WorkflowGraph` | the data of the scanner: files, calls, steps, findings, reachability |
| `PrivilegedReach` | what the scanner promises, in one step |
| `PrivilegedScan` | how it does it: `main` and `scan_workflow` |
| `PrivilegedScanProofs` | theorems about it |
| `PrivilegedCacheProofs` | theorems about its cache |
| `TemplateDrift` | the drift check, its CI runs, and the two templates it compares |
| `TemplateDriftProofs` | theorems about it |
| `IntegrationRun` | integration runs, one after the other in one workspace |
| `IntegrationRunProofs` | theorems about it |
| `RunnerValidation` | the reusable validation workflow |
| `RunnerValidationProofs` | theorems about it |
| `PlanPolicy` | the plan policy and the input built for it |
| `FixtureHarness` | the two scripts that test the validators on fixtures, as functions of what they find |
| `VerifyGates` | the gate runner, by hand and in the two jobs of CI, over `PlanPolicy` and `FixtureHarness` |
| `VerifyGatesProofs` | theorems about it and about the harnesses |
| `UsesRefs` | the references of `uses:` lines and the three checks of whether they are pinned |
| `RepoTree` | a checkout as the checkers see it |
| `TemplateGates` | the manifest and documentation checks, over `RepoTree` |
| `ContractCheck` | the contract validator, over all of these |
| `ContractCheckProofs` | theorems about it |
| `WorkflowLines` | the lines of a workflow; the caller check and the workflow's own reading of an overlay entry |
| `LineScans` | the run-block check, and the drift check's `strip_regions` |
| `LineScansProofs` | theorems about it |
| `MC*` | instances for TLC |

### PrivilegedScan

The Python call stack is `stack`; a frame holds the file, the job its loop is
at, whether that job's `uses` is dealt with, and the findings so far. `mode` is
the part of the program that runs next. `ListFile`, `EndListing`, `ScanRoot` and
`Report` are `main`; `CacheHit`, `ParseError`, `Crash`, `Enter`, `CallReusable`,
`SkipUses`, `ScanSteps`, `Finish` and `ReturnToCaller` are `scan_workflow`. The
chain check compares the callee with the *callers* of the current file and not
with the file itself, as the code does (line 116 against line 118), so a file
that calls itself is active twice. A missing PyYAML, an unparseable file, a
document that is not made of mappings and one that is a bare scalar fail in the
four places where the code meets them.

Findings are sets: their order, repetitions, job names and wording are left out.
A `uses` is already resolved: paths outside of the checkout are not modelled.

`PrivilegedReach` reports every site of every file that a privileged workflow
reaches in one step. `ImplementsReach` says that the scan does the same:
`PrivilegedReach` with `reported` mapped to the sites of the printed lines.

### TemplateDrift

`main[t]` is the head of a template, `pr[t]` what its open pull request changes,
`run[g]` the latest run of a concurrency group (the pull request's or main's).
`DiffFiles` is one iteration of the script's loop and reads the sibling's main
of that moment. A push or a merge starts a run in place of the one in progress
(`cancel-in-progress`). Whether the check is required for a merge is a
repository setting, so both values are initial states. The content of a file is
a version: what `strip_regions` leaves of it. The sibling is taken to run the
same job, as the header of the script says.

### IntegrationRun

A tree is a function from places (directory, name) to contents, so that the
overlay, the framework's module and the sample data can meet in one place.
`RemoveFile`, `CopyBase` and `CopyModule` handle one file, and `Abort` can end
the run between any two. `Start` begins the next run, with other sources, in
whatever is left. Between runs the sources may change; during one they do not.
What a terraform command leaves behind is external (`Artifacts`): files of the
names the copy holds back, as the constants of lines 15 to 17 anticipate. One
run at a time is modelled.

### RunnerValidation

`request` is the inputs, `runner` the calling repository with the framework at
the pinned commit. `step` and `line` are the positions in the steps of
`validate` and in `overlay_paths`; `tree` is the framework checkout. A line is
the sequence of what its arrows separate: the workflow takes the first and the
last part and ignores what is between (lines 247 and 248). The verdicts of the
contract validator, of the lint tools and of `make ci` on a given tree are
attributes of `runner`, so that the conclusion of the workflow can be compared
with what the request and the repositories say. `Rerun` re-runs any set of jobs
that contains the failed ones, on new machines. Queueing, the conclusion of a
run and re-runs are GitHub's and marked external. Directories inside one another
and copies that clash with a file are left out (the latter is a `Break`).

### VerifyGates and PlanPolicy

`todo` is what is left to do, innermost first: `execute` of `verify.py` expands
a target into its children (`EnterTarget`), and a step into the operations of
its function in their order (`EnterStep`, over the table `Steps`). A step that
calls another step's function has that step's operations in its own. `has` is
what the machine can use, `done` the commands that passed, `exit` the result.
`Depends` is what a command uses and fails without. The privileged scan does not
fail without PyYAML, it passes over every file (`Blind`); what keeps such a scan
from making a run a success is that its tests come next in every step that has
it, and these do fail. `ZeroMeansEveryGate` says so.
`InstallPackage` is `install`, which does nothing outside of CI;
`ImportPackage` the import of PyYAML in `contract_shape`; `RunCommand` is `run`,
`capture` and `run_required_tool`. In the job "terraform runner verify",
`FetchTool` (one tool of `install_ci_tools.sh`) and `AptInstall` come first.

What a gate has to object to is part of `setup`, since most gates have a module
of their own; how the answers of OPA are read is modelled. For the two plan
fixtures the verdict is computed: `BuildInput` is `build_plan_input.py`, and
`Denials` are the deny rules of `terraform_plan.rego`. `Compliant` says what the
messages of the rules say, judged from the whole plan.

The verdicts of the two fixture harnesses are computed too, in `FixtureHarness`:
`ContractTests` and `PrivilegedTests` are the exit codes of the scripts, which
do all their runs whatever comes out of them. A validator is its rules and what
is wrong with it: rules it has lost, rules at which it raises, a malformed entry
it passes over, an exit code that does not tell. `Answer` is what it then prints
and returns, `Prepare` the checkout of a contract fixture as the code makes it,
and `Runner` the one it should be, path by path. A marker is the set of rules
whose lines it matches. `RegisteredRulesAreChecked` and `TracebackIsNoRefusal`
say what a target that exits with 0 vouches for, and `FailureHasACause` that
sound validators and fixtures turn no target red.

### ContractCheck, TemplateGates and UsesRefs

`Program` is the list of checks that `main` performs, in its order; `todo` is
what is left of it. `Start` covers the two exits before the first rule; `Skip`,
`CheckPath`, `CheckContentRule` and `CheckForbiddenPath` apply one rule,
`CheckWorkflowPinning` all references, `CheckInventory` the first inventory file
that is left, with `seen`, the names that earlier files had, and `EndInventory`
the end of that loop. `ReadManifest` picks the list of entries and puts a
`CheckEntry` for each in front. Three things end in a traceback (`crash`) and
lose the report: a path that leads through a file (`Blocked`), a directory with
the name of a workflow (`Unreadable`), and a visibility that is a list or a
mapping (`Unhashable`). A directory with the name of an inventory file is only a
failure, since its read is caught. A checkout is a tree of paths, and a file's
text what the checkers look for in it; a regular expression is the set of texts
it is found in.

`TemplateGates` has the gates of the template itself as predicates, because they
decide once and change nothing. `SyncDriftIsExact` and `AdrsReachRunners` relate
them to the validator, which reads the same manifest under other rules.
`UsesRefs` describes a reference by what the three checks look at: its form, how
many `@` it has, what follows, and quotes.

### LineScans and WorkflowLines

A line has its indentation, whether it begins with a dash, and what it is. `of`
says which key's block scalar it belongs to: what a YAML parser knows, and what
the properties compare with. `IsWorkflow` says which lines are a workflow: a
block scalar follows its key and is deeper than it, nothing that follows is as
deep as its lines, and a step has one script. `PassLine`, `RunLine`,
`OpenBlock`, `TakeLine` and `CloseBlock` are the loops of `collect_run_blocks`,
`ReportBlocks` its `main`. `Script` is what a block becomes when it is dedented
and given to bash, and `Bash` is a constant: any operator that says which
scripts "bash -n" accepts. So nothing rests on how bash parses, and a line can
complete or break what comes before it: the keys behind `- run: |` are at the
indentation the scan takes for the script's, and bash gets them too.
`RunVerdict` says what the exit code then tells. In the instance (`BashOf`) a
line is a command, the first part of one, or wrong. `StripRegion` and `KeepLine`
are `strip_regions` with the pattern tables of the two shared files, `Compare`
is what `diff_files` does with the results; a text is put together from chunks,
so that the properties can tell what is a region: `IsText` asks that a region
has no end anchor before its end, and that no other line is a start anchor with
an end behind it. `Skeleton` is what is outside.

`Findings` is `scan_workflow` of the caller check with its overlay entries, and
`OverlayStepAccepts` the corresponding lines of the reusable workflow: one
splits at the first arrow, the other at the first and at the last. A path is its
kind and how it is written: plain, with backslashes, in quotes, or with a quote
that is not closed. `NormalizeOverlayPath` is what the check makes of it, which
turns backslashes into slashes and keeps quotes; `Trimmed` and `HasOpenQuote`
are what `xargs` does, which takes both away and fails on an open quote.
`OverlayChecksAgree` says that the two agree on entries with one arrow except
for what `xargs` reads otherwise (`Misread`).

## The runs

| Run | Shows | Instance |
|---|---|---|
| `ScanBranching` | bounded recursion, real routes, closure, exact cache, growing cache, termination | 3 files, up to two jobs each, all call graphs |
| `ScanChains` | the inductive invariant; the scan implements `PrivilegedReach` | 4 files with one call each, all kinds of failing files |
| `ScanFlagsAll` (violation) | a privileged file in a cycle is named by no line | as `ScanBranching` |
| `ScanCleanExit` (violation) | without PyYAML the tool exits 0 | as `ScanChains` |
| `DriftReported` | drift is shown by one side, and a required check freezes | 2 files, 2 versions, 3 pushes |
| `DriftEachSide` (violation) | without a schedule one side never sees the drift | 2 files, 2 versions, 2 pushes |
| `IntegrationRuns` | the inductive invariant; gates run on their own run's sources; 0 means verified | 4 names, 1 of them ignored, 2 contents |
| `RunnerValidates` | green means valid; `make ci` sees the assembled tree; the framework's own files stay; a conclusion comes | overlays of up to 2 lines out of 9, every fault of a request or a runner alone, 2 attempts, `validate` and one lint job |
| `VerifyTargets` | the inductive invariant; 0 means that every command below the target passed; a missing policy is noticed; a failure has a cause; a rule lost in a validator, or a traceback in its place, is noticed where a marker is registered | every target and step by hand, both CI jobs, each setup with one thing wrong; plans with a bucket, its encryption and one more resource; for each suite of fixtures 18 sets of them, 6 registrations and 14 validators with up to two faults, over 3 templates |
| `PlanJudged` (violation) | a compliant plan is denied | plans that update a bucket |
| `ContractChecked` | the inductive invariant; the report is exact; mirrored files are compared exactly; ADRs reach runners; three pin checks agree | trees of up to 4 files under all combinations of 5 path, 7 forbidden and 3 content rules; pairs of all references; 3 inventory files, faulty in each way; directories in place of files; manifests broken in each way they can be, ADR trees with and without git |
| `LinesScanned` | the inductive invariant; run blocks are the scripts; the verdict is bash's of each script with what the scan adds to it; overlay checks agree but for `xargs`; the drift check compares what is outside of its regions | two steps of every shape in one file or two; entries with up to two arrows, those with one in every spelling; pairs of texts of up to two chunks that differ in one |

Why the bounds are enough: in the scanner, two ways to reach a file meet with
three files and two calls each (a diamond, a cycle with an entry, a self-call),
and a cached result is served one level above a re-wrapping with a chain of
four. For the drift check, two files are needed for a main that moves between
two fetches, and the third push comes after both templates have changed once.
Integration runs have no counter: all sequences of runs are covered. In the
validation, two lines are enough for a refused line after a copied one and for
an overlap, and the lint jobs are alike, so that one stands for five. The gate
runner stops at the first failure, so that one fault at a time meets every
position; corrupt downloads are combined freely. The checks of the contract
validator share only `failed` and `seen`: two rules of a kind meet in the
repeated path and forbidden rules, and a third inventory file follows a
duplicate that was itself faulty. A line scan carries nothing but the open
block or the region, which a second step or chunk ends or runs into. The
runs of a fixture harness do not touch each other; two rules and a fixture that
breaks both tell a lost rule from one hidden by another.

The `IInv` of each module is a conjunction of the invariant its proof needs; it
contains the type invariant.

### Fairness

* `PrivilegedScan`: weak fairness of the next step, a process that nothing
  waits for.
* `TemplateDrift`: weak fairness of comparing and concluding for each run.
  Nobody has to push, merge or re-run, and nothing is scheduled.
* `RunnerValidation`: a queued job gets a machine, and a running job is ended by
  its `timeout-minutes` if by nothing else. No step has to return.

`CHECK_DEADLOCK FALSE` is set where the system stops: a finished scan, no pushes
left, a concluded validation, a tool that has exited. `IntegrationRuns` checks
deadlock. `VerifyGates`, `ContractCheck` and `LineScans` assume no fairness and
claim no liveness: they are sequential and work off a finite list. Neither does
`IntegrationRun`: all that could keep a run from ending is a terraform command
that does not return, and the script sets no timeout.

## The findings

* `ScanFlagsAll`: the chain check cuts a scan short and the cut result is cached
  for everybody. Of two privileged files that call each other, only one is named.
* `ScanCleanExit`: a missing PyYAML is taken for a file that does not load.
* `DriftEachSide`: the weekly schedule of the docstring does not exist.
* `PlanJudged`: `build_plan_input.py` drops what the plan leaves as it is. A
  bucket that is updated while its encryption configuration stays is then denied
  for want of encryption.

The models also show where checkers are looser or stricter than one another,
which the properties state as exceptions:
the overlay entry with two or more arrows (static and run-time check disagree);
an overlay entry with backslashes in its destination, such as
`repos => terraform\repos`, with a quote that is not closed, or with quotes
around a source that is empty, absolute or leads out (the check passes it, the
workflow refuses it);
a reference with two `@` (the policy rejects it, the validator does not) and one
in quotes (the other way round); the keys after `- run: |` in the same step,
which the run-block check takes for the script, so that a script ending in
`cat x |` passes in front of `shell: bash`; and a fixture with nothing
registered, which passes on any exit code but 0. Two of the three bad consumer
fixtures are such (`run_contract_tests.py:21`), although
`docs/reference/quality-gates.md:24` says that each must fail with documented
markers.

## The proofs

All theorems hold for every value of the constants, under the assumptions named
in the modules. Most only say that the constants have the types the comments
give them. Beyond that:

* every shared file is compared (`FilesAssumption` of `TemplateDrift`), and the
  two templates are different, as are the names of jobs and those of good and bad
  fixtures;
* `IsSetup` of `ContractCheck`: the rules of a contract have the fields that the
  checker reads without asking for them, as an entry without them ends in a
  `KeyError` that is not modelled; the inventory files are among the paths that
  are `Sorted`, and these are different (`SortedAssumption`);
* the required sections of an ADR are different (`RequiredAssumption`);
* what `LineScans` reads is a workflow, or a text whose regions are where its
  chunks say (`ScansAssumption`, by `IsWorkflow` and `IsText`). Comments behind a
  script are left out, and so is a key `run` that is not a script but is in the
  same step as one.

No theorem needs a finite constant.

* `PrivilegedScanProofs`: type correctness, `StackShape`, `RouteIsReal`,
  `ScannedIsClosed` and the refinement. None of these is inductive. `IInv` is
  the invariant of a depth-first search: cached files are finished, files on the
  stack are in progress and wait for the file above them, whatever a finished
  file calls is finished, in progress or about to start (`CompleteInv`), and what
  is found lies in reach of the file it was found for (`SoundInv`). When the
  stack is empty, nothing is in progress, so the cache is closed under calls; it
  contains the privileged files, hence all they reach, and the findings
  collected are their sites. The proof of the invariant has one lemma per action
  and group of conjuncts.
* `TemplateDriftProofs`: type correctness, `DriftIsReported` and
  `RequiredFreezes`. The invariant `Caught` names the witness: the template
  whose main moved last has a run on main that has found a differing file or has
  still to compare one; nothing moves the other main without starting a run
  there. `Frozen` says what a run of a pull request has established while the
  check is required.

* `IntegrationRunProofs`: type correctness, `GatesRunOnAssembly`,
  `ZeroMeansVerified` and `NothingOutside`. The invariant says what the workspace
  holds in each phase: while it is emptied, only less than before; after the
  reset, the overlay's copied part, then the whole overlay with a part of the
  framework over it, and from the sample data on exactly the assembly, with what
  terraform made in this run beside it. That an earlier run was killed does not
  enter: the phase before the reset says nothing of the content.
* `RunnerValidationProofs`: type correctness, `CIRunsOnAssembly`,
  `FrameworkKept` and `GreenMeansValid`. The invariant equates the tree with
  `Partial(line)`, the framework with the lines before the next one over it; a
  lemma says what one more line does to it. The rest records what each step that
  is past has established, and that a job's result survives the re-run of others.
* `PrivilegedCacheProofs`: `CacheIsExact` and `CacheOnlyGrows`. Without a cycle
  the chain check turns no callee away, because the files on the stack reach the
  innermost one (`Chained`); so a finished call has everything its file reaches,
  and an activation has what the calls that returned to it had (`FullInv`). With
  cycles a file is overwritten only by the activation that called it from itself,
  which has taken over the findings with a route and finds the others again
  (`OverwriteInv`).

* `VerifyGatesProofs`: every property of the run `VerifyTargets`. The invariant
  says that what has not passed is still owed by some item of `todo`, an item
  standing for all commands below it (`NothingLost`); that everything in `todo`
  belongs to the target (`AllBelong`); that what an item needs, if it can be had
  at all, is there or comes earlier in `todo` (`Supplied`); and that what is
  done had a reason to pass and what it uses, or was the blind scan on a machine
  where nothing is installed (`PassedRightly`). `EnterTarget` and `EnterStep`
  exchange an item for its parts, and the tables of steps and targets are gone
  through once for what they install. A failure is then a failing command, a
  missing tool or a download. The theorem on causes carries a hypothesis,
  `ToldInFull`: the plan of the safe fixture has neither a counted resource nor
  an encryption that stays as it is. Without it a compliant plan is denied, as
  `PlanJudged` shows. The verdicts of the harnesses enter through lemmas on one
  fixture (what `Answer` prints, and what it prints of the checkout that the
  fixture stands for). A traceback is only noticed where something is
  registered: with nothing registered for a suite, a validator that raises at
  every bad fixture passes (`LooksAtOutput`).
* `ContractCheckProofs`: every property of the run `ContractChecked`. The
  invariant is that the failures found and those that the rest of `todo` owes
  are together the rules that are broken, at every moment (`NothingLost`), so
  that an empty `todo` makes the report exact. Each action finds what its item
  owed. The inventory needs more, since a repeated name is found in the later
  file only: `InOrder` says that the files read come before those to be read,
  and that `seen` has their names; a first file exists because `<` is
  well-founded on the positions. A crash is traced to a check still in `todo`
  that raises (`Raises`). `NoDriftLost` is the same for mirrored files and holds
  for manifests that pass the manifest check. `AdrsReachRunners` then joins what
  the gates of the template say of one ADR with the drift reported for its
  entry; `PinChecksAgree` joins the report with a comparison of the three checks
  on one reference.
* `LineScansProofs`: every property of the run `LinesScanned`. For the run
  blocks, the invariant says that those found are the blocks of lines that look
  like a run key, of every real one so far, and that the lines of the open one
  are `Deeper` than its key all the way. The scan closes it exactly where that
  ends, and by `IsWorkflow` what is deeper than a run key holds no second
  script, so that none is passed over. Nothing is assumed of `Bash`:
  `RunVerdict` follows because the block of a run key is its script with what
  follows it in the step, line for line (`FollowingIsDeeper`,
  `BlockIsAccepted`). For the stripped texts, what is left of a text is a first
  part of its `Skeleton`, and the scan stands at the first line of the next
  chunk (`StrippedSoFar`); the least end anchor behind a start anchor is then
  that of its own chunk. Where chunks begin (`Offset`) is shown by lemmas on
  lists put together, and by induction on their number through the
  well-foundedness of `<`. The proof showed that `Following`, which the
  properties are stated with, ended at a blank line; it no longer does.

Only model-checked: liveness (`Terminates`, `DriftGetsReported`,
`Concludes`), which the prover does not do under fairness. Every invariant that a
passing run checks, and every action property, is a theorem; `FailureHasACause`
is one under the hypothesis named above. Induction over data
is done on positions of a list, through the well-foundedness of `<`; what a
recursive definition computes is claimed by no theorem.

## Not modelled

* Automation (auto-merge, ADR sync, release, deploy): what the repository holds
  of it is a trigger, a concurrency group and a call of a workflow in another
  repository, and the queue is GitHub's.
* The rules of `repo_hygiene.rego` other than on references: each matches a line.
* Terraform, OPA, git, bash, the linters and GitHub are external.
* Logging, formatting of reports and argument parsing.

Abstractions a reader should know of:

* The manifest check compares spellings: a path such as `a/./b`, and a target
  inside another target, are not told apart, there or here. Symbolic links and
  file systems that ignore case are left out.
* A legacy list of synced files (`sync/synced-files.yaml`) takes the place of the
  manifest; the properties about mirrored files are then not claimed.
* ADRs below a subdirectory of a scope are seen by no check.
* A template's ADR may be starter content, which a runner may change.
* Of plans: one stateful and one taggable type, one administrative port, and no
  module prefix in addresses. An index is dropped from no address, so a counted
  bucket has no configuration, as in `build_plan_input.py:75`.
* Of workflows: flow-style `uses`, plain scalars over several lines, scripts in
  quotes, the folding of `>`, an indentation indicator such as `|2`, and a
  comment behind the `|` of a block are left out. A `${{ }}` in a script is not
  told apart from other text.
* Of overlay entries: one kind of quote per entry. Of a source with backslashes,
  the workflow looks for another name than the check has seen; whether it exists
  is left out, as it is for every source.
* `RunnerValidation` has the entries as `xargs` leaves them; what it makes of them
  is in `WorkflowLines`.
* Of the contract check: a contract or a file that is not text, and a pattern
  that is no regular expression.
* Of the drift check's patterns: a text in which a region's start anchor stands
  on a line without its end behind it is covered; one where a line of code
  happens to look like an end anchor inside of a region is not.
* Of the fixture harnesses: a validator that raises has printed nothing yet,
  which is so for all three; a fixture that cannot be copied is left out. The
  harness does not notice a registered fixture that is no longer there.
* Downloads: fetching a tool, looking up its checksum and comparing are one step.

## Plan

What is left, in the order of its worth:

1. Two integration runs of one case at once, which nothing prevents outside CI.
2. `ToolInstall`: the checksum lookup of `install_ci_tools.sh`, and its place
   in the steps of `RunnerValidation`.
3. The composition of `RunnerValidation` with `ContractCheck` and `LineScans` in
   place of the verdicts it takes from `runner`.
4. Proofs about that composition, when it is there: the verdicts of the
   validator and of the line scans carried over to the tree that is deployed.
