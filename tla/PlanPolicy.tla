----------------------------- MODULE PlanPolicy -----------------------------
(***************************************************************************)
(* tools/build_plan_input.py and policies/opa/terraform_plan.rego: which   *)
(* denials a Terraform plan produces.                                      *)
(*                                                                         *)
(* A name stands for the part of an address behind the type; a change may  *)
(* be one of the instances of a counted resource, whose address carries an *)
(* index that the configuration's address does not have.  One type stands  *)
(* for the stateful ones, and the attributes are what the rules tell apart. *)
(***************************************************************************)
EXTENDS Integers, Sequences

CONSTANTS Name,     \* names of resources
          NoValue   \* an attribute or an object that is null or unknown

Values == [inline   : BOOLEAN,  \* server_side_encryption_configuration
           bucket   : Name \cup {NoValue},
           wildcard : BOOLEAN,  \* a statement allows * on *
           open     : BOOLEAN,  \* ingress to an admin port from the world
           tagged   : BOOLEAN]  \* all required tags

\* The values of an object that is not there.
NoValues == [inline |-> FALSE, bucket |-> NoValue, wildcard |-> FALSE,
             open |-> FALSE, tagged |-> FALSE]

Address == [type  : {"bucket", "encryption", "policy", "group", "rule"},
            name  : Name,
            index : BOOLEAN]

Change == [address : Address,
           managed : BOOLEAN,
           action  : {"create", "update", "replace", "read", "forget",
                      "delete", "no-op"},
           before  : Values \cup {NoValue},
           after   : Values \cup {NoValue}]

\* What a configuration says of a resource: lifecycle.prevent_destroy, and the
\* buckets that its argument "bucket" refers to.
Config == [prevent : BOOLEAN, refers : SUBSET Name]

\* The resource changes, and the configuration of the modules in the order in
\* which they are walked.
Plan == [changes : SUBSET Change,
         modules : Seq([Address -> Config \cup {NoValue}])]

----------------------------------------------------------------------------
\* build_plan_input.py

PlannedValues(change) ==
  IF change.after # NoValue THEN change.after
  ELSE IF change.before # NoValue THEN change.before
  ELSE NoValues

\* Mutant: what a plan deletes is judged too.
IncludeDeleted(change) == change.managed /\ change.action # "no-op"

IncludeResource(change) ==
  change.managed /\ change.action \notin {"delete", "no-op"}

NoConfig == [prevent |-> FALSE, refers |-> {}]

\* A later module overrides an earlier one that has the same address.
ConfigAt(modules, address) ==
  LET Declaring == {i \in DOMAIN modules : modules[i][address] # NoValue}
  IN  IF Declaring = {} THEN NoConfig
      ELSE modules[CHOOSE i \in Declaring : \A j \in Declaring : j <= i][address]

Normalize(change, modules) ==
  [address |-> change.address,
   values  |-> PlannedValues(change),
   config  |-> ConfigAt(modules, change.address)]

BuildInput(plan) ==
  {Normalize(c, plan.modules) : c \in {d \in plan.changes : IncludeResource(d)}}

----------------------------------------------------------------------------
\* terraform_plan.rego

\* The name under which a bucket is looked for.
BucketName(r) == IF r.values.bucket # NoValue THEN r.values.bucket ELSE r.address.name

\* A reference has no index: it matches every instance.
HasEncryption(r, input) ==
  \E e \in input :
    /\ e.address.type = "encryption"
    /\ r.address.name \in e.config.refers \/ e.values.bucket = BucketName(r)

Denials(input) ==
  LET Deny(rule, P(_)) == {[rule |-> rule, of |-> r.address] : r \in {r \in input : P(r)}}
      Unencrypted(r) == /\ r.address.type = "bucket"
                        /\ ~r.values.inline
                        /\ ~HasEncryption(r, input)
      Wildcard(r) == r.address.type = "policy" /\ r.values.wildcard
      Exposed(r) == r.address.type \in {"group", "rule"} /\ r.values.open
      Destroyable(r) == r.address.type = "bucket" /\ ~r.config.prevent
      Untagged(r) == r.address.type \in {"bucket", "group"} /\ ~r.values.tagged
  IN  Deny("encrypt", Unencrypted) \cup Deny("wildcard", Wildcard)
        \cup Deny("port", Exposed) \cup Deny("prevent", Destroyable)
        \cup Deny("tags", Untagged)

----------------------------------------------------------------------------
(***************************************************************************)
(* What the rules say of a plan, judged from the whole of it: a resource   *)
(* that the plan leaves as it is still exists, and the configuration of a  *)
(* counted resource is that of each instance.                              *)
(***************************************************************************)
Stays(c) == c.managed /\ c.action \notin {"delete", "forget"}
Touched(c) == c.managed /\ c.action \notin {"delete", "no-op"}

ConfigOf(plan, c) ==
  ConfigAt(plan.modules, [c.address EXCEPT !.index = FALSE])

Encrypts(plan, e, c) ==
  /\ e.address.type = "encryption" /\ Stays(e)
  /\ \/ c.address.name \in ConfigOf(plan, e).refers
     \/ PlannedValues(e).bucket = IF PlannedValues(c).bucket # NoValue
                                    THEN PlannedValues(c).bucket ELSE c.address.name

Compliant(plan) ==
  \A c \in {d \in plan.changes : Touched(d)} :
    LET v == PlannedValues(c)
    IN  CASE c.address.type = "bucket" ->
               /\ v.inline \/ \E e \in plan.changes : Encrypts(plan, e, c)
               /\ ConfigOf(plan, c).prevent
               /\ v.tagged
          [] c.address.type = "group" -> ~v.open /\ v.tagged
          [] c.address.type = "rule" -> ~v.open
          [] c.address.type = "policy" -> ~v.wildcard
          [] OTHER -> TRUE
=============================================================================
