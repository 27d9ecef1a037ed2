--------------------------- MODULE TemplateGates ----------------------------
(***************************************************************************)
(* The gates that look at the template's own files: check_docs_layout.py,  *)
(* check_adr_schema.py and check_baseline_manifest.py.  Each exits with 0  *)
(* exactly when it has nothing to report.                                  *)
(*                                                                         *)
(* A template is a tree with what git tracks of it, and its manifest.  A   *)
(* path that is spelled in another way, "a/./b", is another path.          *)
(***************************************************************************)
EXTENDS RepoTree

CONSTANT Required   \* REQUIRED_SECTIONS

ASSUME RequiredAssumption ==
  /\ Required \in Seq(Section)
  /\ \A i, j \in DOMAIN Required : i # j => Required[i] # Required[j]

Entry == UNION {[S -> Path \cup {"create-if-missing"}] :
                  S \in SUBSET {"source", "target", "path", "mode", "substitutions"}}

\* template.manifest: [is, canonical, version, lists], where is tells missing
\* files, text that is not JSON and JSON that is not an object from the rest,
\* and lists has the other keys of the object, each with the entries of a list
\* or with NotAList.
CONSTANT NotAList

Docs == <<"docs">>
AdrRoot == <<"docs", "decision-records">>
Quadrants == {"tutorials", "how-to", "reference", "explanation"}
Scopes == {"org", "template", "repo"}
Index == AdrRoot \o <<"README.md">>

----------------------------------------------------------------------------
\* check_docs_layout.py

DocsLayoutPasses(t) ==
  LET readme == <<"docs", "README.md">>
      marked == {p \in Below(t, Docs) : Last(p) \in Markdown}
      In(p, dir, subdirs) == \E d \in subdirs : IsPrefix(dir \o <<d>>, p)
  IN  /\ IsDir(t, Docs)
      /\ \A p \in marked \ {readme} :
           /\ Len(p) > 2
           /\ In(p, Docs, Quadrants \cup {"runbooks", "decision-records"})
           /\ IsStrictPrefix(AdrRoot, p) /\ p # Index => In(p, AdrRoot, Scopes)
      /\ IsFile(t, readme)
      /\ \A q \in Quadrants :
           (\E p \in marked : In(p, Docs, {q})) => q \in t.files[readme].says
      /\ IsDir(t, AdrRoot) => "decision-records" \in t.files[readme].says

----------------------------------------------------------------------------
\* check_adr_schema.py

AdrFiles(t) ==
  {p \in UNION {Within(t, AdrRoot \o <<s>>) : s \in Scopes} : Last(p) \in AdrName}

\* Mutant: every section is there, in any order.
CheckSections(text) == ToSet(Required) \subseteq ToSet(text.headings)

\* Of several headings of the same name, the first counts.
CheckSchema(text) ==
  /\ ToSet(Required) \subseteq ToSet(text.headings)
  /\ LET Position(s) == Min({i \in DOMAIN text.headings : text.headings[i] = s})
     IN  \A i, j \in DOMAIN Required :
           i < j => Position(Required[i]) <= Position(Required[j])

\* Links of INDEX_LINK_RE, and files, by their path below AdrRoot.
CheckIndex(t) ==
  /\ IsFile(t, Index)
  /\ {l \in t.files[Index].links : l[1] \in Scopes /\ Last(l) \in LinkName}
       = {SubSeq(p, 3, Len(p)) : p \in AdrFiles(t)}

AdrSchemaPasses(t) ==
  /\ \A p \in AdrFiles(t) : CheckSchema(t.files[p])
  /\ CheckIndex(t)

----------------------------------------------------------------------------
\* check_baseline_manifest.py

ManifestPath(p) == p # <<>> /\ Head(p) # "/" /\ ".." \notin ToSet(p)

\* Mutant: other keys are allowed.
ValidateOpenEntries(entries) ==
  /\ \A i \in DOMAIN entries : {"source", "target"} \subseteq DOMAIN entries[i]
  /\ \A i \in DOMAIN entries : ManifestPath(entries[i].source) /\ ManifestPath(entries[i].target)
  /\ \A i, j \in DOMAIN entries : i # j => entries[i].target # entries[j].target

ValidateEntries(entries) ==
  /\ \A i \in DOMAIN entries : DOMAIN entries[i] = {"source", "target"}
  /\ \A i \in DOMAIN entries : ManifestPath(entries[i].source) /\ ManifestPath(entries[i].target)
  /\ \A i, j \in DOMAIN entries : i # j => entries[i].target # entries[j].target

\* present_source_inventory
PresentSources(t) ==
  {p \in (UNION {Below(t, <<root>>) : root \in {"tools", "tests", "policies", "fixtures"}})
         \cup {w \in WorkflowFiles(t) : Last(w) \in Reusable} :
     ToSet(p) \cap Compiled = {}}

\* The entries of every list.
Entries(m) == UNION {ToSet(m.lists[k]) : k \in DOMAIN m.lists}

\* Which keys the root must have, by its version.
KeysOf(m) == IF m.version = "1" THEN {"files"} ELSE {"byte_identical", "scaffold_starter"}

\* Which of them a consumer is compared with, by check_sync_drift.
ComparedKey(m) == IF m.version = "1" THEN "files" ELSE "byte_identical"

\* With --check-present-sources or without, as in the pre-commit hook.
ManifestPasses(template, presentSources) ==
  LET m == template.manifest
      t == template.tree
      sources == {e.source : e \in Entries(m)}
  IN  /\ m.is = "object" /\ m.canonical
      /\ m.version \in {"1", "2"}
      /\ DOMAIN m.lists = KeysOf(m)
      /\ \A k \in KeysOf(m) :
           m.lists[k] # NotAList /\ (k = "scaffold_starter" \/ m.lists[k] # <<>>)
      /\ \A k \in KeysOf(m) : ValidateEntries(m.lists[k])
      /\ \A k, l \in KeysOf(m) : k # l =>
           {e.target : e \in ToSet(m.lists[k])} \cap {e.target : e \in ToSet(m.lists[l])} = {}
      /\ \A s \in sources : IsFile(t, s)
      /\ template.git => sources \subseteq template.tracked
      /\ {p \in AdrFiles(t) : p[3] = "template"} \subseteq sources
      /\ presentSources => PresentSources(t) \subseteq sources
=============================================================================
