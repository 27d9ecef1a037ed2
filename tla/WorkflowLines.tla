--------------------------- MODULE WorkflowLines ----------------------------
(***************************************************************************)
(* The lines of a workflow, as the checkers that do not parse YAML see     *)
(* them, and tools/check_caller_workflows.py, which looks at one line      *)
(* after the other.                                                        *)
(***************************************************************************)
EXTENDS UsesRefs, SequencesExt

\* The paths of an overlay entry.  "below" is something below an allowed
\* directory, "root" such a directory itself; "windows" begins with a drive,
\* "parent" with "../" and "dot" with "./".  A path can be written with
\* backslashes for its slashes, in quotes, or with a single quote in its last
\* name, the same character everywhere in an entry.
OverlayPath ==
  [is   : {"below", "root", "else", "empty", "absolute", "windows", "parent", "dot"},
   form : {"plain", "backslash", "quoted", "unpaired"}]

IsList(l) == Len(l) \in Nat /\ l = [i \in 1..Len(l) |-> l[i]]

\* A key and its value, an entry of overlay_paths, other text, or nothing:
\*   run      "block" (a literal or folded scalar), "line", or ""
\*   uses     a reference
\*   ref      template_ref or framework_ref: whether it is a full SHA
\*   overlay  whether it begins a literal block
\*   entry    what the arrows separate, without a comment; <<>> for nothing
\*   text     anything else
Key == {"run", "uses", "ref", "overlay", "entry", "text", "blank"}

ValueOf ==
  [run |-> {"block", "line", ""}, uses |-> Ref, ref |-> BOOLEAN, overlay |-> BOOLEAN,
   entry |-> Seq(OverlayPath), text |-> {""}, blank |-> {""}]

\* "of" is the line whose block scalar a line is part of, 0 for a key: what a
\* YAML parser knows and the checkers do not.  "bash" is what the line is to bash.
IsLine(l) ==
  /\ l.key \in Key /\ l.value \in ValueOf[l.key]
  /\ l.indent \in Nat /\ l.of \in Nat /\ l.dash \in BOOLEAN

\* The lines from i + 1 on that are blank or deeper than line i.
Deeper(lines, i) ==
  {j \in (i + 1)..Len(lines) :
     \A k \in (i + 1)..j :
       lines[k].key = "blank" \/ lines[k].indent > lines[i].indent}

\* A key with a script: not the name of something else, nor without a value.
IsRunKey(l) == l.key = "run" /\ l.of = 0 /\ l.value # ""

\* How YAML reads the lines: a block scalar follows its key and is deeper than
\* it, and nothing that follows is as deep as one of its lines.  Behind the
\* script of "- run" there may be something deeper than the dash, the other keys
\* of its step, none of which is a second script.  Comments are left out.
IsWorkflow(lines) ==
  /\ IsList(lines)
  /\ \A j \in DOMAIN lines :
       /\ IsLine(lines[j])
       /\ lines[j].of # 0 =>
            /\ lines[j].of < j /\ lines[lines[j].of].of = 0
            /\ lines[lines[j].of].key # "blank"
            /\ j \in Deeper(lines, lines[j].of)
            /\ \A i \in (lines[j].of + 1)..j : lines[i].of = lines[j].of
       /\ lines[j].of # 0 /\ lines[j].key # "blank" =>
            \A i \in Deeper(lines, j) : lines[i].key = "blank" \/ lines[i].of = lines[j].of
       /\ IsRunKey(lines[j]) /\ lines[j].value = "block" =>
            \A i \in Deeper(lines, j) :
              /\ ~IsRunKey(lines[i])
              /\ lines[i].key = "blank" \/ lines[i].of = j \/ lines[j].dash

----------------------------------------------------------------------------

\* What normalize_overlay_path leaves of a path: backslashes are slashes, and a
\* quote is a character like any other.
NormalizeOverlayPath(path) ==
  IF path.form = "quoted" \/ (path.form = "unpaired" /\ path.is \in {"root", "empty"})
    THEN "else" ELSE path.is

\* Mutant: a source may lead out of the repository.
ValidateOverlayRoot(path) ==
  NormalizeOverlayPath(path) \notin {"empty", "absolute", "windows"}

ValidateOverlayPath(path) ==
  NormalizeOverlayPath(path) \notin {"empty", "absolute", "windows", "parent", "dot"}

\* What follows the first arrow is the destination, further arrows included:
\* with one more arrow, only what begins below an allowed directory passes.
DestinationPasses(rest) ==
  IF Len(rest) = 1
    THEN ValidateOverlayPath(rest[1]) /\ NormalizeOverlayPath(rest[1]) \in {"below", "root"}
    ELSE NormalizeOverlayPath(rest[1]) = "below"

\* Of an entry without its comment.
EntryPasses(entry) ==
  \/ entry = <<>>
  \/ Len(entry) > 1 /\ ValidateOverlayPath(entry[1]) /\ DestinationPasses(Tail(entry))

\* scan_overlay_paths: what is deeper than the key is taken for entries.
EntriesOf(lines) ==
  UNION {Deeper(lines, i) : i \in {k \in DOMAIN lines :
                                     lines[k].key = "overlay" /\ lines[k].value}}

\* scan_workflow; text that is no entry has no arrow, and a key that is deeper
\* than overlay_paths counts as an entry.
Findings(lines) ==
  {i \in DOMAIN lines :
     \/ lines[i].key = "uses" /\ ~IsPinnedUses(Captured(lines[i].value))
     \/ lines[i].key = "ref" /\ ~lines[i].value
     \/ /\ i \in EntriesOf(lines) /\ lines[i].key # "blank"
        /\ lines[i].key = "entry" => ~EntryPasses(lines[i].value)}

\* main
CallersPass(files) == \A f \in DOMAIN files : Findings(files[f]) = {}

----------------------------------------------------------------------------

\* What xargs leaves of a path: a backslash is gone and the name behind it goes
\* on, quotes are gone with nothing else.
Trimmed(path) == IF path.form = "backslash" /\ path.is # "empty" THEN "else" ELSE path.is

\* xargs fails where a quote is not closed.
HasOpenQuote(entry) == Cardinality({i \in DOMAIN entry : entry[i].form = "unpaired"}) % 2 # 0

\* The step "Apply overlay" of reusable-terraform-validation.yaml, apart from
\* whether the source exists: the source is before the first arrow, the
\* destination behind the last.
OverlayStepAccepts(entry) ==
  /\ ~HasOpenQuote(entry)
  /\ \/ Len(entry) <= 1 /\ \A i \in DOMAIN entry : Trimmed(entry[i]) = "empty"
     \/ /\ Len(entry) > 1
        /\ Trimmed(entry[1]) \notin {"empty", "absolute", "parent"}
        /\ Trimmed(Last(entry)) \in {"below", "root"}
=============================================================================
