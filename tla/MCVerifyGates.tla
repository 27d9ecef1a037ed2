--------------------------- MODULE MCVerifyGates ----------------------------
(***************************************************************************)
(* Setups that differ in one respect from a good one, for every target and *)
(* both jobs; small plans around a bucket, its encryption and a group; and *)
(* fixtures, registrations and validators for the two fixture harnesses.   *)
(***************************************************************************)
EXTENDS VerifyGates

CONSTANTS logs, admin, None

Names == {logs, admin}

Addr(type, name) == [type |-> type, name |-> name, index |-> FALSE]

Plain == [inline |-> FALSE, bucket |-> None, wildcard |-> FALSE, open |-> FALSE,
          tagged |-> TRUE]

Changed(address, action, values) ==
  [address |-> address, managed |-> TRUE, action |-> action,
   before |-> IF action = "create" THEN None ELSE values,
   after |-> IF action \in {"delete", "forget"} THEN None ELSE values]

Bucket(action, values) == Changed(Addr("bucket", logs), action, values)
Group(values) == Changed(Addr("group", admin), "create", values)
Encryption(action, name) ==
  Changed(Addr("encryption", logs), action, [Plain EXCEPT !.bucket = name])

ConfigWith(prevent, refers) ==
  <<[a \in Address |->
       IF a = Addr("bucket", logs) THEN [prevent |-> prevent, refers |-> {}]
       ELSE IF a = Addr("encryption", logs) THEN [prevent |-> FALSE, refers |-> refers]
       ELSE None]>>

PlanOf(changes, prevent, refers) ==
  [changes |-> changes, modules |-> ConfigWith(prevent, refers)]

SafePlan == PlanOf({Bucket("create", Plain), Encryption("create", None)}, TRUE, {logs})

SafePlans ==
  {PlanOf({Bucket(a, [Plain EXCEPT !.inline = i, !.tagged = t]),
           Encryption(a, n), Group([Plain EXCEPT !.open = o])}, p, r) :
     a \in {"create", "replace", "delete"}, i \in BOOLEAN, t \in BOOLEAN,
     n \in {logs, None}, o \in BOOLEAN, p \in BOOLEAN, r \in {{}, {logs}}}

\* The same with one more resource, a policy or a rule, in each way to plan it.
OtherPlans ==
  {[SafePlan EXCEPT !.changes = @ \cup
      {[Changed(Addr(t, admin), a, [Plain EXCEPT !.wildcard = w, !.open = ~w])
          EXCEPT !.managed = (a # "read")]}] :
     t \in {"policy", "rule"}, w \in BOOLEAN,
     a \in {"create", "update", "delete", "no-op", "forget", "read"}}

BadPlan == PlanOf({Bucket("create", Plain), Group([Plain EXCEPT !.open = TRUE])},
                  TRUE, {})

Expectations == {[rule |-> "encrypt", of |-> Addr("bucket", logs)],
                 [rule |-> "port", of |-> Addr("group", admin)]}

BadPlans ==
  {PlanOf({Bucket("create", [Plain EXCEPT !.inline = i]),
           Group([Plain EXCEPT !.open = o])}, p, {}) :
     i \in BOOLEAN, o \in BOOLEAN, p \in BOOLEAN}

----------------------------------------------------------------------------
\* One suite at a time differs from a good one: in its fixtures, in what is
\* registered for them, and in what is wrong with its validator.

Caller == "pr-validation.yaml"
Reusable == "reusable-codeql.yaml"
Cache == ".venv"

Paths == {Caller, Reusable, Cache}
Texts == {"pinned", "tag"}

Pins == [path |-> Caller, allowed |-> {"pinned"}, needed |-> FALSE]
NoReusable == [path |-> Reusable, allowed |-> {}, needed |-> FALSE]
NoCache == [path |-> Cache, allowed |-> {}, needed |-> FALSE]
HasCaller == [path |-> Caller, allowed |-> Texts, needed |-> TRUE]

SoundValidator == [rules |-> {Pins, NoReusable}, overlooked |-> {}, raises |-> {},
                   malformed |-> "reported", tells |-> TRUE]

Validators ==
  {[SoundValidator EXCEPT !.overlooked = rs, !.raises = rt] :
     rs \in {{}, {Pins}, {NoReusable}}, rt \in {{}, {Pins}, {NoReusable}}}
    \cup {[SoundValidator EXCEPT !.malformed = m] : m \in {"ignored", "raised"}}
    \cup {[SoundValidator EXCEPT !.tells = FALSE, !.raises = rt] :
             rt \in {{}, {Pins, NoReusable}}}
    \cup {[SoundValidator EXCEPT !.rules = @ \cup {r}] : r \in {NoCache, HasCaller}}

Clean == Caller :> "pinned"
Tag == Caller :> "tag"
Local == Reusable :> "pinned"

First(u) == IF u = "privileged" THEN "bad" ELSE "bad-tag"
Second(u) == IF u = "privileged" THEN "reusable-bad" ELSE "bad-other"

\* The first bad fixture has both faults, one, the other with and without a
\* caller, or none; the good one may have a fault or be empty.
Suites(u) ==
  {"good" :> Clean @@ First(u) :> b @@ Second(u) :> o :
     b \in {Tag @@ Local, Tag, Clean @@ Local, Local, Clean}, o \in {Local, Tag, <<>>}}
    \cup {"good" :> g @@ First(u) :> Tag @@ Second(u) :> Local : g \in {Local, Tag, <<>>}}

\* Registered are none, each rule, both, one line for either, or the second
\* fixture's.
Registrations(u) ==
  {First(u) :> m : m \in {{}, {{Pins}}, {{NoReusable}}, {{Pins}, {NoReusable}},
                          {{Pins, NoReusable}}}}
    \cup {First(u) :> {{Pins}} @@ Second(u) :> {{NoReusable}}}

SoundTests ==
  [validator |-> [u \in Suite |-> SoundValidator],
   contract  |-> TRUE,
   toolsRule |-> TRUE,
   repo      |-> Clean @@ Local @@ Cache :> "pinned",
   fixtures  |-> [u \in Suite |->
                    "good" :> Clean @@ First(u) :> (Tag @@ Local)
                      @@ Second(u) :> (Clean @@ Local)],
   markers   |-> [u \in Suite |-> First(u) :> {{Pins}, {NoReusable}}]]

\* One suite over a template, the caller check with the contract's in order.
Vary(u, repos) ==
  {[SoundTests EXCEPT !.fixtures[u] = fs, !.markers[u] = m, !.validator[u] = v,
                      !.repo = t] :
     fs \in Suites(u), m \in Registrations(u), v \in Validators, t \in repos}

\* Something is not there, or has another name.
Incomplete ==
  {[SoundTests EXCEPT !.validator[u] = Absent] : u \in Suite}
    \cup {[SoundTests EXCEPT !.contract = FALSE], [SoundTests EXCEPT !.toolsRule = FALSE]}
    \cup {[SoundTests EXCEPT !.fixtures[u] = fs] :
            u \in Suite,
            fs \in {Absent, "good" :> Clean, First("contract") :> Tag,
                    "good" :> Clean @@ First("contract") :> Tag @@ "stray" :> Tag}}

----------------------------------------------------------------------------
Good == [job |-> "none", target |-> "verify", has |-> Package \cup Executable,
         network |-> TRUE, corrupt |-> {}, broken |-> {}, fixtures |-> TRUE,
         safe |-> SafePlan, bad |-> BadPlan, policies |-> {"hygiene", "plan"},
         expected |-> Expectations, tests |-> SoundTests]

Objecting == {{}} \cup {{c} : c \in Command \ Computed}

ByHand ==
  {[Good EXCEPT !.target = t, !.broken = b, !.network = FALSE] :
     t \in DOMAIN Targets \cup DOMAIN Steps, b \in Objecting}
  \cup {[Good EXCEPT !.target = t, !.has = @ \ {h}] :
     t \in DOMAIN Targets \cup DOMAIN Steps, h \in Package \cup Executable}
  \cup {[Good EXCEPT !.target = t, !.has = @ \ {"pyyaml"}, !.broken = {"privileged"}] :
     t \in {"privileged", "helpers", "verify"}}

InJobs ==
  {[Good EXCEPT !.job = j, !.has = {"terraform"}, !.network = n, !.corrupt = c,
                !.broken = b] :
     j \in {"verify", "helpers"}, n \in BOOLEAN, c \in SUBSET Range(Fetched),
     b \in {{}, {"privileged"}, {"contract"}}}

Policies ==
  {[Good EXCEPT !.target = t, !.policies = p, !.broken = b, !.fixtures = f] :
     t \in {"opa_plan", "opa_policy", "policy", "ci", "verify"},
     p \in SUBSET {"hygiene", "plan"}, b \in {{}, {"opa hygiene"}}, f \in BOOLEAN}

Plans ==
  {[Good EXCEPT !.target = t, !.safe = s] : t \in {"opa_plan", "verify"}, s \in SafePlans \cup OtherPlans}
  \cup {[Good EXCEPT !.target = t, !.bad = b] :
          t \in {"opa_plan", "verify"}, b \in BadPlans}

Harnesses ==
  {[Good EXCEPT !.target = "contract_tests", !.tests = x] :
     x \in Vary("consumer", {SoundTests.repo})
            \cup Vary("contract", {SoundTests.repo, Tag @@ Local, Cache :> "tag"})}
  \cup {[Good EXCEPT !.target = "privileged", !.tests = x] :
          x \in Vary("privileged", {SoundTests.repo})}
  \cup {[Good EXCEPT !.target = t, !.tests = x] :
          t \in {"verify", "helpers", "contract", "contract_tests"}, x \in Incomplete}

AllSetups == ByHand \cup InJobs \cup Policies \cup Plans \cup Harnesses

\* A bucket whose encryption or whose own address the input builder loses.
LaterPlans ==
  {[Good EXCEPT !.target = "opa_plan",
                !.safe = PlanOf({Bucket("update", Plain), Encryption(a, n)}, TRUE, {logs})] :
     a \in {"create", "update", "no-op"}, n \in {logs, None}}
=============================================================================
