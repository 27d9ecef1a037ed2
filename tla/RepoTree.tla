------------------------------ MODULE RepoTree ------------------------------
(***************************************************************************)
(* A checkout as the checkers of tools/ see it: files and directories, and *)
(* of a file's text what one of them looks for.                            *)
(***************************************************************************)
EXTENDS UsesRefs, SequencesExt

CONSTANTS
  FileName,   \* the names in paths
  Markdown,   \* those that end in .md
  AdrName,    \* those of an ADR: NNNN-*.md
  LinkName,   \* those of an ADR that a link of the index can have
  Yaml,       \* those that end in .yaml or .yml
  Reusable,   \* those that begin with reusable-
  Compiled,   \* __pycache__, and those that end in .pyc or .pyo
  Pattern,    \* regular expressions of content rules, and links in a README
  Section,    \* headings of an ADR
  RepoName    \* keys of an inventory file

\* "/" begins an absolute path.
Path == Seq(FileName \cup {"/", ".."})

\* A value of visibility that is a list or a mapping has no hash.
Repo == [mapping : BOOLEAN, visibility : {"ok", "wrong", "unhashable"}, topics : BOOLEAN]

Text == [says     : SUBSET Pattern,  \* what re.search finds in it
         uses     : Seq(Ref),        \* its uses: lines
         headings : Seq(Section),    \* its level 2 headings
         links    : SUBSET Path,     \* its links below a scope of ADRs
         yaml     : {"broken", "other", "mapping"},
         repos    : UNION {[S -> Repo] : S \in SUBSET RepoName},
         rest     : Nat]             \* all else in which two texts differ

\* Every file is in a directory, which is not a file.
IsTree(t) ==
  /\ DOMAIN t.files \subseteq Seq(FileName) \ {<<>>}
  /\ \A p \in DOMAIN t.files : t.files[p] \in Text
  /\ \A p \in DOMAIN t.files \cup t.dirs, n \in 1..5 :
       n < Len(p) => SubSeq(p, 1, n) \in t.dirs
  /\ DOMAIN t.files \cap t.dirs = {}

IsFile(t, p) == p \in DOMAIN t.files
IsDir(t, p) == p \in t.dirs
Exists(t, p) == IsFile(t, p) \/ IsDir(t, p)

\* rglob
Below(t, dir) == {p \in DOMAIN t.files : IsStrictPrefix(dir, p)}
\* glob
Within(t, dir) == {p \in Below(t, dir) : Len(p) = Len(dir) + 1}

Workflows == <<".github", "workflows">>

WorkflowFiles(t) == {p \in Within(t, Workflows) : Last(p) \in Yaml}
=============================================================================
