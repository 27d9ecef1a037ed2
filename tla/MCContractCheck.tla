-------------------------- MODULE MCContractCheck ---------------------------
(***************************************************************************)
(* Checkouts, contracts and templates that differ in a few respects from   *)
(* good ones: rules over small trees, every pair of references, three      *)
(* files of the inventory, and manifests with ADRs and mirrored files.     *)
(***************************************************************************)
EXTENDS ContractCheck

Blank == [says |-> {}, uses |-> <<>>, headings |-> <<>>, links |-> {},
          yaml |-> "other", repos |-> <<>>, rest |-> 0]

\* The directories that a set of files needs.
Above(paths) == UNION {{SubSeq(p, 1, n) : n \in 1..(Len(p) - 1)} : p \in paths}

TreeOf(files, dirs) ==
  [files |-> files, dirs |-> (dirs \cup Above(dirs) \cup Above(DOMAIN files)) \ {<<>>}]

Readme == <<"README.md">>
Tool == <<"tools", "check.py">>
Ci == Workflows \o <<"ci.yaml">>
Shared == Workflows \o <<"reusable-x.yaml">>
Public == <<"terraform", "public", "a.yaml">>
Nested == <<"terraform", "public", "more", "b.yml">>
Private == <<"terraform", "private", "a.yaml">>
Adr == AdrRoot \o <<"template", "0001-a.md">>
OtherAdr == AdrRoot \o <<"org", "0002 b.md">>
Deep == AdrRoot \o <<"template", "old", "0003-c.md">>
Loose == <<"docs", "loose.md">>
DocsReadme == <<"docs", "README.md">>

RequiredSections == <<"Context", "Decision">>

MarkdownNames == {"README.md", "COPY.md", "0001-a.md", "0002 b.md", "0003-c.md",
                  "loose.md", "copy.md", "x.md"}

FileNames == (UNION {ToSet(p) : p \in {Readme, Tool, Ci, Shared, Public, Nested, Private,
                                      Adr, OtherAdr, Deep, Loose, DocsReadme}})
             \cup MarkdownNames \cup {"how-to", "gone"}

SortedPaths == <<Private, Public, Nested>>
Globs == [reusable |-> {Shared}, all |-> {Ci, Shared, Tool}]

NoRules == [paths |-> <<>>, content |-> <<>>, forbidden |-> <<>>]

Contract(universal, runner, template) ==
  [universal |-> universal, types |-> [runner |-> runner, template |-> template],
   enforce |-> FALSE, local |-> TRUE]

Good == [readable |-> TRUE, type |-> "runner", template |-> NoTemplate,
         tree |-> TreeOf(Readme :> Blank, {}), contract |-> Contract(<<>>, NoRules, NoRules)]

----------------------------------------------------------------------------
\* Rules

PathRules ==
  {[path |-> Readme], [path |-> Readme, type |-> "directory"],
   [path |-> Tool, applies_to |-> {"template"}],
   [path |-> <<"tools">>, type |-> "directory", except_types |-> {"runner"}],
   [path |-> Tool]}

ForbiddenRules ==
  {[path |-> <<"tools">>], [path |-> Tool], [glob |-> "reusable"],
   [glob |-> "all", allow |-> {Ci}], [path |-> Tool, glob |-> "all"],
   [allow |-> {}], [path |-> <<"tools">>, except_types |-> {"template", "runner"}]}

ContentRules ==
  {[file |-> Readme, pattern |-> "reference", must_match |-> m] : m \in BOOLEAN}
  \cup {[file |-> Tool, pattern |-> "how-to", must_match |-> FALSE]}

SmallTrees ==
  {TreeOf([p \in ps |-> [Blank EXCEPT !.says = s]], ds) :
     ps \in {q \in SUBSET {Readme, Tool, <<"tools">>, Shared} :
               ~({Tool, <<"tools">>} \subseteq q)},
     ds \in {{}, {Workflows}}, s \in {{}, {"reference"}}}

RuleSetups ==
  {[Good EXCEPT !.tree = t, !.type = ty,
                !.contract = Contract(<<p>>, [paths |-> <<[path |-> <<"docs">>, type |-> "directory"]>>,
                                              content |-> <<c>>, forbidden |-> <<f>>],
                                      [NoRules EXCEPT !.paths = <<p>>, !.forbidden = <<f, f>>])] :
     t \in SmallTrees, ty \in RepoType, p \in PathRules, f \in ForbiddenRules,
     c \in ContentRules}
  \cup {[Good EXCEPT !.readable = FALSE]}

----------------------------------------------------------------------------
\* References

Refs == {r \in Ref : /\ r.sha => r.at > 0
                     /\ r.digest => r.form = "docker" /\ r.at > 0 /\ ~r.sha}

SomeRefs == {r \in Refs : ~r.quoted}

RefSetups ==
  {[Good EXCEPT !.tree = TreeOf(Ci :> [Blank EXCEPT !.uses = u], {}),
                !.contract.enforce = TRUE, !.contract.local = l] :
     u \in {<<r>> : r \in Refs} \cup (SomeRefs \X SomeRefs), l \in BOOLEAN}
  \cup {[Good EXCEPT !.contract.enforce = e, !.tree = TreeOf(Readme :> Blank, ds)] :
          e \in BOOLEAN, ds \in {{}, {Ci}}}

----------------------------------------------------------------------------
\* Inventory

Fine == [mapping |-> TRUE, visibility |-> "ok", topics |-> TRUE]

InventoryTexts ==
  {[Blank EXCEPT !.yaml = y] : y \in {"broken", "other"}}
  \cup {[Blank EXCEPT !.yaml = "mapping", !.repos = r] :
          r \in {<<>>, "one" :> Fine, "bad name" :> Fine,
                 ("one" :> Fine) @@ ("two" :> [Fine EXCEPT !.visibility = "wrong"]),
                 "two" :> [Fine EXCEPT !.visibility = "unhashable"],
                 ("two" :> [Fine EXCEPT !.mapping = FALSE]) @@ ("bad name" :> Fine),
                 "two" :> [Fine EXCEPT !.topics = FALSE]}}

InventorySetups ==
  {[Good EXCEPT !.type = ty, !.tree = TreeOf([p \in ps |-> f[p]], {})] :
     ty \in RepoType, ps \in (SUBSET {Private, Public, Nested}) \ {{}},
     f \in [{Private, Public, Nested} -> InventoryTexts]}
  \cup {[Good EXCEPT !.type = ty, !.tree = TreeOf(Nested :> f, {Private})] :
          ty \in RepoType, f \in InventoryTexts}

----------------------------------------------------------------------------
\* Templates

Headings == {<<"Context", "Decision">>, <<"Decision", "Context">>,
             <<"Context", "Decision", "Context">>, <<"Context">>}

AdrText == [Blank EXCEPT !.headings = <<"Context", "Decision">>]

Says(s) == [Blank EXCEPT !.says = s]

TemplateFiles ==
  (Readme :> Blank) @@ (Tool :> Blank) @@ (Adr :> AdrText)
  @@ (Index :> [Blank EXCEPT !.links = {<<"template", "0001-a.md">>}])
  @@ (DocsReadme :> Says({"decision-records"}))

Pair(s, t) == [source |-> s, target |-> t]

Manifest ==
  [is |-> "object", canonical |-> TRUE, version |-> "2",
   lists |-> [byte_identical |-> <<Pair(Readme, Readme), Pair(Adr, Adr)>>,
              scaffold_starter |-> <<Pair(Tool, Tool)>>]]

GoodTemplate ==
  [tree |-> TreeOf(TemplateFiles, {}), git |-> TRUE, tracked |-> DOMAIN TemplateFiles,
   manifest |-> Manifest, legacy |-> FALSE, synced |-> <<>>]

OneEntry == {Pair(Readme, <<"COPY.md">>), Pair(<<"gone">>, Readme), Pair(<<"..", "x">>, Readme),
             [path |-> Readme], [source |-> Readme], Pair(Readme, <<"docs", "copy.md">>),
             [source |-> Readme, target |-> Readme, mode |-> "create-if-missing"],
             [source |-> Readme, target |-> Readme, substitutions |-> Readme]}

Manifests ==
  {[Manifest EXCEPT !.lists.byte_identical = l] :
     l \in {<<>>, NotAList} \cup (OneEntry \X {Pair(Adr, Adr), Pair(Adr, <<"COPY.md">>), [path |-> Adr]})}
  \cup {[Manifest EXCEPT !.lists.scaffold_starter = l] :
          l \in {<<>>, NotAList, <<Pair(Tool, Readme)>>, <<Pair(Adr, Tool)>>,
                 <<Pair(Tool, Tool), Pair(Adr, Readme)>>}}
  \cup {[Manifest EXCEPT !.version = v, !.lists = l] :
          v \in {"1", "2", "3"},
          l \in {[files |-> <<Pair(Readme, Readme), Pair(Tool, Tool), Pair(Adr, Adr)>>],
                 [files |-> <<>>], <<>>,
                 [byte_identical |-> <<Pair(Readme, Readme), Pair(Tool, Tool)>>]}}
  \cup {[Manifest EXCEPT !.is = i] : i \in {"missing", "not JSON", "not object"}}
  \cup {[Manifest EXCEPT !.canonical = FALSE]}

Consumers ==
  {TreeOf([p \in ps |-> IF p = Adr THEN AdrText ELSE [Blank EXCEPT !.rest = n]], {}) :
     ps \in {{Readme}, {Readme, Adr}, {Readme, Tool, Adr}, {<<"COPY.md">>, Adr}},
     n \in 0..1}

\* What else can be in the template: ADRs elsewhere, and their headings.
Trees ==
  {[TemplateFiles EXCEPT ![Adr].headings = h, ![Index].links = l] @@ e :
     h \in Headings,
     l \in {{}, {<<"template", "0001-a.md">>}, {<<"template", "0001-a.md">>, <<"org", "0002 b.md">>}},
     e \in {<<>>, OtherAdr :> AdrText, Deep :> Blank, Loose :> Blank,
            <<"docs", "how-to", "x.md">> :> Blank}}

TemplateSetups ==
  {[Good EXCEPT !.tree = c, !.template = [GoodTemplate EXCEPT !.manifest = m]] :
     c \in Consumers, m \in Manifests}
  \cup {[Good EXCEPT !.tree = TreeOf((Readme :> Blank) @@ (Adr :> a), {}),
                     !.template = [GoodTemplate EXCEPT !.tree = TreeOf(f, {}), !.git = g]] :
          f \in Trees, a \in {AdrText} \cup {[AdrText EXCEPT !.headings = h] : h \in Headings},
          g \in BOOLEAN}
  \cup {[Good EXCEPT !.tree = c,
                     !.template = [GoodTemplate EXCEPT !.legacy = TRUE, !.synced = <<e>>]] :
          c \in Consumers, e \in OneEntry}

AllSetups == RuleSetups \cup RefSetups \cup InventorySetups \cup TemplateSetups
=============================================================================
