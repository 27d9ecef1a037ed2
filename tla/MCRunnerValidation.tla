------------------------- MODULE MCRunnerValidation -------------------------
(***************************************************************************)
(* Instances of RunnerValidation: two sources with a file name in common,  *)
(* one directory the overlay may write to and one it may not, and every    *)
(* overlay of up to two lines out of nine (the refused ones among them).    *)
(***************************************************************************)
EXTENDS RunnerValidation

CONSTANTS validate, ruff

Names == {"a", "b"}
Contents == {"ours", "first", "second"}
Directories == {"repos", "tools"}
Repos == {"repos"}
Sources == {"one", "two", "gone"}
BadPaths == {"bad"}

Data == [s \in {"one", "two"} |->
           IF s = "one" THEN [n \in {"a", "b"} |-> "first"]
                        ELSE [n \in {"a"} |-> "second"]]

Framework == [p \in {<<"repos", "a">>, <<"tools", "a">>} |-> "ours"]

\* What the framework's gates may pass on.
Over(a, b) ==
  [p \in DOMAIN Framework \cup {<<"repos", "b">>} |->
     CASE p = <<"repos", "a">> -> a
       [] p = <<"repos", "b">> -> b
       [] OTHER -> "ours"]

Passings == {{}, {Framework}, {Over("first", "first")},
             {Over("second", "first")}}

OneLine == {<<>>, <<"one">>, <<"one", "repos">>, <<"two", "repos">>,
            <<"one", "tools">>, <<"gone", "repos">>, <<"bad", "repos">>,
            <<"one", "bad">>, <<"two", "one", "repos">>}

Overlays == UNION {[1..n -> OneLine] : n \in 0..2}

Asked(mode, template, ref, repo, overlay, contract, lint, advisory) ==
  [mode |-> mode, templatePinned |-> template, frameworkPinned |-> ref,
   framework |-> repo, overlay |-> overlay, contract |-> contract,
   lint |-> lint, advisory |-> advisory]

\* A request without fault in runner mode with every overlay, every mode and
\* switch with one overlay, and each fault of the other inputs.
SomeRequests ==
  LET one == <<<<"one", "repos">>>>
  IN  {Asked("runner", TRUE, TRUE, TRUE, o, TRUE, TRUE, FALSE) : o \in Overlays}
      \cup {Asked(mode, TRUE, TRUE, TRUE, one, contract, lint, advisory) :
              mode \in {"runner", "contract-and-lint", "full", "unknown"},
              contract \in BOOLEAN, lint \in BOOLEAN, advisory \in BOOLEAN}
      \cup {Asked(mode, template, ref, repo, o, TRUE, TRUE, FALSE) :
              mode \in {"runner", "contract-and-lint"}, template \in BOOLEAN,
              ref \in BOOLEAN, repo \in BOOLEAN, o \in {one, <<>>}}

Fit(contract, callers, linted, passing) ==
  [data |-> Data, framework |-> Framework, contract |-> contract,
   callers |-> callers, linted |-> linted, passing |-> passing]

\* A runner without fault but for what make ci says, and each other fault.
SomeRunners ==
  {Fit(TRUE, TRUE, LintJob, passing) : passing \in Passings}
  \cup {Fit(contract, callers, linted, {Over("first", "first")}) :
          contract \in BOOLEAN, callers \in BOOLEAN, linted \in {{}, LintJob}}
=============================================================================
