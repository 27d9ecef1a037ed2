--------------------------- MODULE ContractCheck ----------------------------
(***************************************************************************)
(* tools/check_template_contract.py: rule after rule of the contract is    *)
(* applied to a checkout, then the pins of its workflows, its inventory,   *)
(* and, next to a checkout of the template, the files it mirrors are       *)
(* checked; what failed is reported in the end.                            *)
(*                                                                         *)
(* The gates of the template (TemplateGates) and the other readers of      *)
(* "uses:" lines (UsesRefs) look at the same trees.                        *)
(***************************************************************************)
EXTENDS TemplateGates

CONSTANTS
  Setups,     \* the setups to consider
  Sorted,     \* the paths an inventory file can have, in the order of sorted()
  ValidName,  \* the keys that REPO_NAME_RE matches
  Glob        \* for the name of a glob pattern, the paths it matches

\* A rule has some of these fields; "applies_to" and "except_types" are sets.
Fields == {"path", "type", "glob", "allow", "file", "pattern", "must_match",
           "applies_to", "except_types"}

RepoType == {"runner", "template"}

\* setup: the contract with its rules, "paths" for the three universal lists
\* and required_paths; the checkout; the template next to it, or NoTemplate.
CONSTANT NoTemplate

IsList(l) == Len(l) \in Nat /\ l = [i \in 1..Len(l) |-> l[i]]

\* Rules that have the fields the checker reads without asking for them.
IsRules(l, fields) ==
  /\ IsList(l)
  /\ \A r \in ToSet(l) : /\ fields \subseteq DOMAIN r /\ DOMAIN r \subseteq Fields
                         /\ "path" \in DOMAIN r => r.path \in Path

IsTemplate(x) ==
  /\ IsTree(x.tree)
  /\ IsList(x.synced)
  /\ x.manifest.is = "object" =>
       \A k \in DOMAIN x.manifest.lists :
         x.manifest.lists[k] = NotAList \/ IsList(x.manifest.lists[k])

\* The files below the two inventory directories, and what has the name of one
\* but is a directory.
InInventory(p) == Len(p) > 2 /\ p[1] = "terraform" /\ p[2] \in {"public", "private"}

InventoryFiles(t) == {p \in DOMAIN t.files \cup t.dirs : InInventory(p) /\ Last(p) \in Yaml}

IsSetup(s) ==
  /\ s.type \in RepoType
  /\ IsTree(s.tree)
  /\ InventoryFiles(s.tree) \subseteq ToSet(Sorted)
  /\ LET block == s.contract.types[s.type]
     IN  /\ IsRules(s.contract.universal, {"path"}) /\ IsRules(block.paths, {"path"})
         /\ IsRules(block.content, {"file", "pattern", "must_match"})
         /\ IsRules(block.forbidden, {})
  /\ s.template # NoTemplate => IsTemplate(s.template)

ASSUME SortedAssumption ==
  IsList(Sorted) /\ \A i, j \in DOMAIN Sorted : i # j => Sorted[i] # Sorted[j]

ASSUME SetupsAssumption == \A s \in Setups : IsSetup(s)

VARIABLES
  setup,   \* what the checker finds
  todo,    \* the checks to come
  seen,    \* the repository names met in the inventory
  failed,  \* the failures found
  exit     \* "none", then "zero", "one", "two", or "crash": a traceback

vars == <<setup, todo, seen, failed, exit>>

Do(check, on) == [do |-> check, on |-> on]
Each(check, s) == [i \in DOMAIN s |-> Do(check, s[i])]

\* A failed RuleResult.
Failure(check, at, what, n) == [check |-> check, at |-> at, what |-> what, line |-> n]

\* The order of main.
Program(s) ==
  LET block == s.contract.types[s.type]
  IN  Each("path", s.contract.universal \o block.paths)
      \o Each("content", block.content)
      \o Each("forbidden", block.forbidden)
      \o (IF s.contract.enforce THEN <<Do("pinning", <<>>)>> ELSE <<>>)
      \o (IF s.type = "runner" THEN <<Do("inventory", InventoryFiles(s.tree))>> ELSE <<>>)
      \o (IF s.template # NoTemplate THEN <<Do("manifest", <<>>)>> ELSE <<>>)

Init ==
  /\ setup \in Setups
  /\ todo = <<Do("start", <<>>)>>
  /\ seen = {} /\ failed = {}
  /\ exit = "none"

----------------------------------------------------------------------------

At(check) == exit = "none" /\ todo # <<>> /\ Head(todo).do = check

On == Head(todo).on

\* The check is over and has found these failures.
Found(failures) ==
  /\ failed' = failed \cup failures
  /\ todo' = Tail(todo)
  /\ UNCHANGED <<setup, seen, exit>>

End(code) == exit' = code /\ UNCHANGED <<setup, todo, seen, failed>>

\* main up to the first rule
Start ==
  /\ At("start")
  /\ IF setup.readable   \* the contract is there, and PyYAML
       THEN /\ todo' = Program(setup)
            /\ UNCHANGED <<setup, seen, failed, exit>>
       ELSE End("two")

\* entry_applies
Applies(rule) ==
  /\ "applies_to" \in DOMAIN rule => setup.type \in rule.applies_to
  /\ "except_types" \in DOMAIN rule => setup.type \notin rule.except_types

Skip ==
  /\ At("path") \/ At("content") \/ At("forbidden")
  /\ ~Applies(On)
  /\ Found({})

\* Where resolve_exact_path lists a file as if it were a directory.
Blocked(path) == \E p \in DOMAIN setup.tree.files : IsStrictPrefix(p, path)

CheckPath ==
  /\ At("path") /\ Applies(On)
  /\ IF Blocked(On.path) THEN End("crash")
     ELSE LET ok == IF "type" \in DOMAIN On /\ On.type = "directory"
                      THEN IsDir(setup.tree, On.path) ELSE IsFile(setup.tree, On.path)
          IN  Found(IF ok THEN {} ELSE {Failure("path", On.path, "", 0)})

CheckContentRule ==
  /\ At("content") /\ Applies(On)
  /\ LET ok == /\ IsFile(setup.tree, On.file)
               /\ (On.pattern \in setup.tree.files[On.file].says) = On.must_match
     IN  Found(IF ok THEN {} ELSE {Failure("content", On.file, On.pattern, 0)})

Malformed(rule) == ("path" \in DOMAIN rule) = ("glob" \in DOMAIN rule)

Allowed(rule) == IF "allow" \in DOMAIN rule THEN rule.allow ELSE {}

CheckForbiddenPath ==
  /\ At("forbidden") /\ Applies(On)
  /\ IF Malformed(On) THEN Found({Failure("forbidden", <<>>, "<malformed-entry>", 0)})
     ELSE IF "path" \in DOMAIN On
       THEN IF Blocked(On.path) THEN End("crash")
            ELSE Found(IF Exists(setup.tree, On.path)
                         THEN {Failure("forbidden", On.path, "", 0)} ELSE {})
       ELSE LET matches == {p \in Glob[On.glob] : Exists(setup.tree, p)} \ Allowed(On)
            IN  Found(IF matches # {} THEN {Failure("forbidden", <<>>, On.glob, 0)} ELSE {})

\* A directory with the name of a workflow, which cannot be read.
Unreadable(t) ==
  \E p \in t.dirs : /\ IsStrictPrefix(Workflows, p) /\ Len(p) = Len(Workflows) + 1
                    /\ Last(p) \in Yaml

CheckWorkflowPinning ==
  /\ At("pinning")
  /\ IF Unreadable(setup.tree) THEN End("crash")
     ELSE IF ~IsDir(setup.tree, Workflows)
       THEN Found({Failure("pinning", Workflows, "", 0)})
     ELSE LET Refused(p) == LET uses == setup.tree.files[p].uses
                            IN  {i \in DOMAIN uses :
                                   ~ClassifyUses(Captured(uses[i]), setup.contract.local)}
          IN  Found(UNION {{Failure("pin", p, "", i) : i \in Refused(p)} :
                             p \in WorkflowFiles(setup.tree)})

Configs(text) == {n \in DOMAIN text.repos : text.repos[n].mapping}

\* Mutant: the names of configurations with something wrong do not count.
CleanNames(text) == {n \in Configs(text) \cap ValidName : text.repos[n].visibility = "ok"}

\* The names of a file that a later file must not have.
NamesSeen(text) == Configs(text) \cap ValidName

\* What is wrong with a file by itself.
FileFailures(p, text) ==
  LET Fail(what, names) == {Failure(what, p, n, 0) : n \in names}
  IN  IF text.yaml # "mapping" THEN {Failure("document", p, text.yaml, 0)}
      ELSE Fail("entry", DOMAIN text.repos \ Configs(text))
             \cup Fail("name", Configs(text) \ ValidName)
             \cup Fail("visibility", {n \in Configs(text) : text.repos[n].visibility = "wrong"})
             \cup Fail("topics", {n \in Configs(text) : ~text.repos[n].topics})

\* What safe_load makes of it: a directory cannot be read.
TextOf(p) == IF IsFile(setup.tree, p) THEN setup.tree.files[p] ELSE [yaml |-> "broken"]

\* Where a value without a hash is looked up in ALLOWED_VISIBILITIES.
Unhashable(text) ==
  /\ text.yaml = "mapping"
  /\ \E n \in Configs(text) : text.repos[n].visibility = "unhashable"

Position(p) == CHOOSE i \in DOMAIN Sorted : Sorted[i] = p

\* Mutant: not sorted, so that the directories come as they are written.
FirstByRoot(files) ==
  CHOOSE p \in files : \A q \in files : p[2] = "private" => q[2] = "private"

\* Files are sorted across the two directories.
First(files) == CHOOSE p \in files : \A q \in files : Position(p) <= Position(q)

\* check_runner_inventory, for the next of the files: the names in one file are
\* different, since the YAML loader keeps the last of equal keys.
CheckInventory ==
  /\ At("inventory") /\ On # {}
  /\ LET p == First(On)
         text == TextOf(p)
         names == IF text.yaml = "mapping" THEN NamesSeen(text) ELSE {}
     IN  IF Unhashable(text) THEN End("crash")
         ELSE /\ failed' = failed \cup FileFailures(p, text)
                            \cup {Failure("duplicate", p, n, 0) : n \in names \cap seen}
              /\ seen' = seen \cup names
              /\ todo' = <<Do("inventory", On \ {p})>> \o Tail(todo)
              /\ UNCHANGED <<setup, exit>>

EndInventory == At("inventory") /\ On = {} /\ Found({})

Drift(at, what) == {Failure("sync_drift", at, what, 0)}

\* check_sync_drift: an older kind of manifest, the template's synced files,
\* comes before the baseline manifest.
ReadManifest ==
  /\ At("manifest")
  /\ LET m == setup.template.manifest
         key == ComparedKey(m)
         Compare(entries) == /\ todo' = Each("entry", entries) \o Tail(todo)
                             /\ UNCHANGED <<setup, seen, failed, exit>>
     IN  IF setup.template.legacy THEN Compare(setup.template.synced)
         ELSE IF m.is # "object" THEN Found(Drift(<<>>, m.is))
         ELSE IF m.version \notin {"1", "2"} THEN Found(Drift(<<>>, "version"))
         ELSE IF key \notin DOMAIN m.lists \/ m.lists[key] = NotAList
           THEN Found(Drift(<<>>, "list"))
         ELSE Compare(m.lists[key])

SourceOf(e) == IF "path" \in DOMAIN e THEN e.path ELSE e.source
TargetOf(e) == IF "path" \in DOMAIN e THEN e.path ELSE e.target

WellFormed(e) == "path" \in DOMAIN e \/ {"source", "target"} \subseteq DOMAIN e

\* Entries that the consumer may change.
Excused(e) ==
  \/ "substitutions" \in DOMAIN e
  \/ "mode" \in DOMAIN e /\ e.mode = "create-if-missing"

CheckEntry ==
  /\ At("entry")
  /\ LET from == setup.template.tree
     IN  Found(CASE ~WellFormed(On) -> Drift(<<>>, "malformed")
                 [] WellFormed(On) /\ Excused(On) -> {}
                 [] OTHER ->
                      IF ~IsFile(from, SourceOf(On)) THEN Drift(TargetOf(On), "no source")
                      ELSE IF ~IsFile(setup.tree, TargetOf(On)) THEN Drift(TargetOf(On), "missing")
                      ELSE IF from.files[SourceOf(On)] # setup.tree.files[TargetOf(On)]
                        THEN Drift(TargetOf(On), "differs")
                      ELSE {})

\* The end of main.
Report ==
  /\ exit = "none" /\ todo = <<>>
  /\ End(IF failed = {} THEN "zero" ELSE "one")

Next ==
  \/ Start \/ Skip \/ CheckPath \/ CheckContentRule \/ CheckForbiddenPath
  \/ CheckWorkflowPinning \/ CheckInventory \/ EndInventory
  \/ ReadManifest \/ CheckEntry \/ Report

Spec == Init /\ [][Next]_vars

----------------------------------------------------------------------------
(***************************************************************************)
(* Properties                                                              *)
(***************************************************************************)

\* The failures that the contract calls for, each judged by itself.
PathFailures(rules) ==
  {Failure("path", r.path, "", 0) :
     r \in {q \in rules :
              /\ Applies(q)
              /\ q.path \notin IF "type" \in DOMAIN q /\ q.type = "directory"
                               THEN setup.tree.dirs ELSE DOMAIN setup.tree.files}}

ContentFailures(rules) ==
  {Failure("content", r.file, r.pattern, 0) :
     r \in {q \in rules :
              /\ Applies(q)
              /\ \/ q.file \notin DOMAIN setup.tree.files
                 \/ q.must_match # (q.pattern \in setup.tree.files[q.file].says)}}

ForbiddenFailures(rules) ==
  {Failure("forbidden", r.path, "", 0) :
     r \in {q \in rules : Applies(q) /\ ~Malformed(q) /\ "path" \in DOMAIN q
                          /\ Exists(setup.tree, q.path)}}
  \cup {Failure("forbidden", <<>>, IF Malformed(r) THEN "<malformed-entry>" ELSE r.glob, 0) :
          r \in {q \in rules :
                   /\ Applies(q)
                   /\ \/ Malformed(q)
                      \/ /\ "glob" \in DOMAIN q
                         /\ \E p \in Glob[q.glob] : Exists(setup.tree, p) /\ p \notin Allowed(q)}}

PinFailures ==
  IF ~setup.contract.enforce THEN {}
  ELSE IF Workflows \notin setup.tree.dirs THEN {Failure("pinning", Workflows, "", 0)}
  ELSE UNION {LET uses == setup.tree.files[p].uses
              IN  {Failure("pin", p, "", i) :
                     i \in {j \in DOMAIN uses : ~ClassifyUses(Captured(uses[j]), setup.contract.local)}} :
              p \in WorkflowFiles(setup.tree)}

Inventory ==
  {p \in DOMAIN setup.tree.files \cup setup.tree.dirs :
     InInventory(p) /\ Last(p) \in Yaml /\ setup.type = "runner"}

Defines(p, n) ==
  LET text == TextOf(p)
  IN  text.yaml = "mapping" /\ n \in DOMAIN text.repos \cap ValidName /\ text.repos[n].mapping

InventoryFailures(files) ==
  (UNION {FileFailures(p, TextOf(p)) : p \in files})
  \cup {f \in [check : {"duplicate"}, at : files, what : RepoName, line : {0}] :
          /\ Defines(f.at, f.what)
          /\ \E p \in Inventory : Position(p) < Position(f.at) /\ Defines(p, f.what)}

\* All of them, those of the mirrored files left out.
Breaches ==
  LET block == setup.contract.types[setup.type]
  IN  PathFailures(ToSet(setup.contract.universal \o block.paths))
        \cup ContentFailures(ToSet(block.content))
        \cup ForbiddenFailures(ToSet(block.forbidden))
        \cup PinFailures \cup InventoryFailures(Inventory)

RuleFailures == {f \in failed : f.check # "sync_drift"}

\* Nothing is left out and nothing invented: a report names exactly the rules
\* that the checkout breaks, every repository name that an earlier file of the
\* inventory has included; exit code 0 means there are none.  Only three things
\* keep the report from being written: a path of a rule that leads through a
\* file, a directory with the name of a workflow where pins are enforced, and a
\* visibility without a hash in the inventory.
ReportIsExact ==
  /\ exit \in {"zero", "one"} =>
       /\ RuleFailures = Breaches
       /\ exit = "zero" <=> failed = {}
  /\ exit = "crash" =>
       LET block == setup.contract.types[setup.type]
       IN  \/ \E r \in ToSet(setup.contract.universal \o block.paths \o block.forbidden) :
                /\ Applies(r) /\ "path" \in DOMAIN r
                /\ \E n \in 1..(Len(r.path) - 1) : IsFile(setup.tree, SubSeq(r.path, 1, n))
           \/ setup.contract.enforce /\ Unreadable(setup.tree)
           \/ \E p \in Inventory \cap DOMAIN setup.tree.files :
                LET text == setup.tree.files[p]
                IN  /\ text.yaml = "mapping"
                    /\ \E n \in DOMAIN text.repos :
                         text.repos[n].mapping /\ text.repos[n].visibility = "unhashable"

\* With the template next to it, the entries that the consumer must mirror.
Mirrored == ToSet(setup.template.manifest.lists[ComparedKey(setup.template.manifest)])

\* The targets whose text is not the template's.
Unmirrored(entries) ==
  {e.target : e \in {m \in entries :
     \/ m.target \notin DOMAIN setup.tree.files
     \/ setup.tree.files[m.target] # setup.template.tree.files[m.source]}}

SyncDrift == {f.at : f \in {g \in failed : g.check = "sync_drift"}}

\* A template whose manifest passes its own gate never makes the check of a
\* consumer fail by itself, and no entry slips through: the targets reported
\* are those whose text is not the template's.
SyncDriftIsExact ==
  exit \in {"zero", "one"} /\ setup.template # NoTemplate =>
    (~setup.template.legacy /\ ManifestPasses(setup.template, TRUE) =>
       SyncDrift = Unmirrored(Mirrored))

\* An ADR of the template that has passed the gates has its sections in order,
\* is in the index and in the manifest, and a runner that passes has the same
\* text, unless the entry is starter content.
AdrsReachRunners ==
  exit = "zero" /\ setup.template # NoTemplate =>
    LET t == setup.template.tree
        m == setup.template.manifest
    IN  ~setup.template.legacy /\ DocsLayoutPasses(t) /\ AdrSchemaPasses(t)
        /\ ManifestPasses(setup.template, FALSE) =>
          \A p \in DOMAIN t.files :
            Len(p) = 4 /\ IsPrefix(AdrRoot \o <<"template">>, p) /\ Last(p) \in AdrName =>
              /\ \E s \in [DOMAIN Required -> DOMAIN t.files[p].headings] :
                   /\ \A i \in DOMAIN Required : t.files[p].headings[s[i]] = Required[i]
                   /\ \A i, j \in DOMAIN Required : i < j => s[i] < s[j]
              /\ <<"template", Last(p)>> \in t.files[Index].links
              /\ \E e \in Entries(m) :
                   /\ e.source = p
                   /\ e \in Mirrored => /\ e.target \in DOMAIN setup.tree.files
                                        /\ setup.tree.files[e.target] = t.files[p]

\* docs/reference/invariants.md:11, references that are not pinned are rejected
\* by the validator and by the hygiene policy: what the validator lets pass,
\* the caller check that runs after it and the policy let pass as well, but for
\* a second "@"; and what it rejects they reject, but for quotes.
PinChecksAgree ==
  exit \in {"zero", "one"} /\ setup.contract.enforce /\ setup.contract.local =>
    \A p \in WorkflowFiles(setup.tree) : \A i \in DOMAIN setup.tree.files[p].uses :
      LET ref == setup.tree.files[p].uses[i]
          rejected == Failure("pin", p, "", i) \in failed
      IN  /\ rejected <=> ~IsPinnedUses(Captured(ref))
          /\ ~rejected => ref.at = 2 \/ IsAcceptable(NormalizeUses(ref))
          /\ rejected => ref.quoted \/ ~IsAcceptable(NormalizeUses(ref))

----------------------------------------------------------------------------
\* The inductive invariant

BelongsTo(t) ==
  LET block == setup.contract.types[setup.type]
  IN  CASE t.do = "path" -> t.on \in ToSet(setup.contract.universal) \cup ToSet(block.paths)
        [] t.do = "content" -> t.on \in ToSet(block.content)
        [] t.do = "forbidden" -> t.on \in ToSet(block.forbidden)
        [] t.do = "pinning" -> setup.contract.enforce
        [] t.do = "inventory" -> t.on \subseteq Inventory
        [] t.do = "manifest" -> setup.template # NoTemplate
        [] t.do = "entry" ->
             /\ setup.template # NoTemplate
             /\ t.on \in IF setup.template.legacy THEN ToSet(setup.template.synced) ELSE Mirrored
        [] OTHER -> t.do = "start"

TypeOK ==
  /\ IsSetup(setup)
  /\ IsList(todo)
  /\ \A i \in DOMAIN todo : BelongsTo(todo[i])
  /\ seen \subseteq RepoName
  /\ exit \in {"none", "zero", "one", "two", "crash"}

\* The failures that a check still has to find.
Owed(t) ==
  CASE t.do = "start" -> Breaches
    [] t.do = "path" -> PathFailures({t.on})
    [] t.do = "content" -> ContentFailures({t.on})
    [] t.do = "forbidden" -> ForbiddenFailures({t.on})
    [] t.do = "pinning" -> PinFailures
    [] t.do = "inventory" -> InventoryFailures(t.on)
    [] OTHER -> {}

NothingLost == RuleFailures \cup UNION {Owed(todo[i]) : i \in DOMAIN todo} = Breaches

\* The inventory is read once and in order, and the names of what has been read
\* are those seen.
InOrder ==
  /\ \A i, j \in DOMAIN todo : todo[i].do = "inventory" /\ todo[j].do = "inventory" => i = j
  /\ \A i \in DOMAIN todo :
       /\ todo[i].do = "start" => seen = {} /\ Len(todo) = 1
       /\ todo[i].do = "inventory" =>
            LET read == Inventory \ todo[i].on
            IN  /\ seen = {n \in RepoName : \E p \in read : Defines(p, n)}
                /\ \A p \in read, q \in todo[i].on : Position(p) < Position(q)

\* The same for the mirrored files, when the manifest is one that passes.
SyncOwed(t) ==
  CASE t.do \in {"start", "manifest"} -> Unmirrored(Mirrored)
    [] t.do = "entry" -> Unmirrored({t.on})
    [] OTHER -> {}

NoDriftLost ==
  setup.template # NoTemplate =>
    (~setup.template.legacy /\ ManifestPasses(setup.template, FALSE) =>
       SyncDrift \cup UNION {SyncOwed(todo[i]) : i \in DOMAIN todo} = Unmirrored(Mirrored))

\* A check that does not come to its end.
Raises(t) ==
  \/ /\ t.do \in {"path", "forbidden"} /\ Applies(t.on)
     /\ "path" \in DOMAIN t.on /\ Blocked(t.on.path)
  \/ t.do = "pinning" /\ Unreadable(setup.tree)
  \/ t.do = "inventory" /\ \E p \in t.on : Unhashable(TextOf(p))

\* How it ends.
Ended ==
  /\ exit \in {"zero", "one"} => todo = <<>> /\ (exit = "zero" <=> failed = {})
  /\ exit = "crash" => \E i \in DOMAIN todo : Raises(todo[i])

\* What has been found and what is still to be found is what there is.
IInv == TypeOK /\ NothingLost /\ InOrder /\ NoDriftLost /\ Ended
=============================================================================
