----------------------------- MODULE LineScans ------------------------------
(***************************************************************************)
(* The two checkers that cut regions out of a text by the lines at their   *)
(* ends: collect_run_blocks of tools/check_workflow_run_blocks.py, and     *)
(* strip_regions of tools/check_cross_template_drift.py, here with the     *)
(* patterns it is used with.                                               *)
(***************************************************************************)
EXTENDS WorkflowLines

\* A pattern: its start anchor and its end anchor.
Anchors(start, end) == [start |-> start, end |-> end]

Strips ==
  [validator |-> <<Anchors("The contract is", "The contract is"),
                   Anchors("def inventory_files", "    return sorted"),
                   Anchors("        / contract", "-template-contract.yaml")>>,
   harness   |-> <<Anchors("EXPECTED_BAD_CONTRACT_FAILURES", "}"),
                   Anchors("EXPECTED_BAD_FAILURES", "}"),
                   Anchors("    default_contract", "    default_contract"),
                   Anchors("    for rel in", "    for rel in"),
                   Anchors("        malformed_contract", "        malformed_contract"),
                   Anchors("        help=", "        help=")>>]

\* The texts of a comparison are given by their chunks: a line, [is, rest], or a
\* region, [pattern, body, rest], with the lines between its anchors.
IsRegion(c) == "body" \in DOMAIN c

\* What the anchors leave open is the same, "rest", in both lines of a region,
\* which are one when the end anchor is the start anchor.
LinesOf(kind, c) ==
  IF ~IsRegion(c) THEN <<c>>
  ELSE LET p == Strips[kind][c.pattern]
           Anchor(is) == <<[is |-> is, rest |-> c.rest]>>
       IN  IF p.start = p.end THEN Anchor(p.start)
           ELSE Anchor(p.start) \o c.body \o Anchor(p.end)

\* A text in which the regions are where its chunks say: no region ends before
\* its end anchor, and no other line is a start anchor with an end behind it.
IsText(kind, chunks) ==
  /\ IsList(chunks)
  /\ \A i \in DOMAIN chunks :
       LET c == chunks[i]
       IN  IF IsRegion(c)
             THEN /\ c.pattern \in DOMAIN Strips[kind]
                  /\ IsList(c.body)
                  /\ \A l \in ToSet(c.body) : l.is # Strips[kind][c.pattern].end
             ELSE \A p \in ToSet(Strips[kind]) :
                    c.is = p.start =>
                      \A j \in i..Len(chunks) : \A l \in ToSet(LinesOf(kind, chunks[j])) :
                        l.is # p.end

IsScan(s) ==
  /\ IsList(s.files)
  /\ s.kind = "blocks" => \A f \in DOMAIN s.files : IsWorkflow(s.files[f])
  /\ s.kind # "blocks" => /\ s.kind \in DOMAIN Strips /\ Len(s.files) = 2
                          /\ \A f \in DOMAIN s.files : IsText(s.kind, s.files[f])

CONSTANTS
  Scans,   \* the scans to consider: workflows, or two texts to compare
  Bash(_)  \* whether "bash -n" accepts the lines of a script

ASSUME ScansAssumption == \A s \in Scans : IsScan(s)

VARIABLES
  scan,    \* what is scanned
  file,    \* the file the scan is in
  at,      \* the next line of it
  open,    \* the line of the run key whose block is being read, or 0
  blocks,  \* the blocks found: [file, line, body]
  out,     \* for each text, what is left of it
  exit     \* how the scan ended, "none" before

vars == <<scan, file, at, open, blocks, out, exit>>

Render(kind, chunks) == FlattenSeq([i \in DOMAIN chunks |-> LinesOf(kind, chunks[i])])

Text == IF scan.kind = "blocks" THEN scan.files[file]
        ELSE Render(scan.kind, scan.files[file])

Init ==
  /\ scan \in Scans
  /\ file = 1 /\ at = 1 /\ open = 0
  /\ blocks = {} /\ out = [f \in DOMAIN scan.files |-> <<>>]
  /\ exit = "none"

InFile == exit = "none" /\ file <= Len(scan.files)
InLine == InFile /\ at <= Len(Text)
This == Text[at]

----------------------------------------------------------------------------
\* collect_run_blocks and main

Reading == scan.kind = "blocks" /\ open = 0

PassLine ==
  /\ Reading /\ InLine /\ This.key # "run"
  /\ at' = at + 1
  /\ UNCHANGED <<scan, file, open, blocks, out, exit>>

\* Mutant: lines are counted from 0.
BlockAbove(line, body) == [file |-> file, line |-> line - 1, body |-> body]

Block(line, body) == [file |-> file, line |-> line, body |-> body]

RunLine ==
  /\ Reading /\ InLine /\ This.key = "run" /\ This.value # "block"
  /\ at' = at + 1
  /\ blocks' = IF This.value = "line" THEN blocks \cup {Block(at, {at})} ELSE blocks
  /\ UNCHANGED <<scan, file, open, out, exit>>

OpenBlock ==
  /\ Reading /\ InLine /\ This.key = "run" /\ This.value = "block"
  /\ at' = at + 1 /\ open' = at
  /\ UNCHANGED <<scan, file, blocks, out, exit>>

\* Mutant: a key at the indentation of the run key is part of its block.
InLooseBlock ==
  /\ InLine
  /\ This.key = "blank" \/ This.indent >= Text[open].indent

\* The indentation is that of the line, with a dash or not.
InBlock ==
  /\ InLine
  /\ This.key = "blank" \/ This.indent > Text[open].indent

TakeLine ==
  /\ open > 0 /\ InBlock
  /\ at' = at + 1
  /\ UNCHANGED <<scan, file, open, blocks, out, exit>>

CloseBlock ==
  /\ open > 0 /\ ~InBlock
  /\ blocks' = blocks \cup {Block(open, (open + 1)..(at - 1))}
  /\ open' = 0
  /\ UNCHANGED <<scan, file, at, out, exit>>

NextFile ==
  /\ InFile /\ open = 0 /\ at > Len(Text)
  /\ file' = file + 1 /\ at' = 1
  /\ UNCHANGED <<scan, open, blocks, out, exit>>

\* The script that is made of some lines: those between the first and the last,
\* without the indentation that all of them have, or of the line of the run key
\* what is behind the key.
Script(lines, run, some) ==
  LET margin == Min({lines[i].indent : i \in some})
      Given(i) == [bash |-> lines[i].bash, value |-> i = run,
                   indent |-> IF lines[i].key = "blank" THEN 0 ELSE lines[i].indent - margin]
  IN  [n \in 1..(Max(some) - Min(some) + 1) |-> Given(Min(some) + n - 1)]

Written(f, body) == {i \in body : scan.files[f][i].key # "blank"}

\* check_block: a block without text is not given to bash.
Accepted(f, run, body) ==
  Written(f, body) # {} => Bash(Script(scan.files[f], run, Written(f, body)))

\* Mutant: each line is given to bash for itself.
ParsesByLine(b) == \A i \in b.body : Accepted(b.file, b.line, {i})

Parses(b) == Accepted(b.file, b.line, b.body)

ReportBlocks ==
  /\ scan.kind = "blocks" /\ exit = "none" /\ file > Len(scan.files)
  /\ exit' = IF \A b \in blocks : Parses(b) THEN "zero" ELSE "one"
  /\ UNCHANGED <<scan, file, at, open, blocks, out>>

----------------------------------------------------------------------------
\* strip_regions and diff_files

\* Mutant: the end is looked for behind the line of the start.
EndsBehind(p) == {j \in (at + 1)..Len(Text) : Text[j].is = p.end}

\* Where a region that begins at this line can end: on the same line, too.
Ends(p) == {j \in at..Len(Text) : Text[j].is = p.end}

\* The patterns of which a region begins at this line.
Starting ==
  {i \in DOMAIN Strips[scan.kind] :
     This.is = Strips[scan.kind][i].start /\ Ends(Strips[scan.kind][i]) # {}}

Least(S) == CHOOSE i \in S : \A j \in S : i <= j

StripRegion ==
  /\ scan.kind # "blocks" /\ InLine /\ Starting # {}
  /\ LET i == Least(Starting)
     IN  /\ out' = [out EXCEPT ![file] = Append(@, [is |-> "region", rest |-> i])]
         /\ at' = Least(Ends(Strips[scan.kind][i])) + 1
  /\ UNCHANGED <<scan, file, open, blocks, exit>>

\* A start anchor without an end behind it is a line like any other.
KeepLine ==
  /\ scan.kind # "blocks" /\ InLine /\ Starting = {}
  /\ out' = [out EXCEPT ![file] = Append(@, This)]
  /\ at' = at + 1
  /\ UNCHANGED <<scan, file, open, blocks, exit>>

Compare ==
  /\ scan.kind # "blocks" /\ exit = "none" /\ file > Len(scan.files)
  /\ exit' = IF out[1] = out[2] THEN "zero" ELSE "one"
  /\ UNCHANGED <<scan, file, at, open, blocks, out>>

Next ==
  \/ PassLine \/ RunLine \/ OpenBlock \/ TakeLine \/ CloseBlock \/ NextFile
  \/ ReportBlocks \/ StripRegion \/ KeepLine \/ Compare

Spec == Init /\ [][Next]_vars

----------------------------------------------------------------------------
(***************************************************************************)
(* Properties                                                              *)
(***************************************************************************)

\* The run keys of a file, and the lines of the script of each.
RunKeys(f) == {i \in DOMAIN scan.files[f] : IsRunKey(scan.files[f][i])}

ScriptOf(f, i) == IF scan.files[f][i].value = "line" THEN {i}
                  ELSE {j \in DOMAIN scan.files[f] : scan.files[f][j].of = i}

\* The keys that follow "- run: |" in the same step.
Following(f, i) ==
  LET lines == scan.files[f]
  IN  {j \in (i + 1)..Len(lines) :
         /\ lines[i].dash /\ lines[i].value = "block"
         /\ \A k \in (i + 1)..j : lines[k].of = 0 /\ lines[k].key # "blank" =>
                                    lines[k].indent > lines[i].indent}

\* Every script of a step is a block of its own, complete and from its first
\* line on, whatever the other lines look like; nothing else of the workflow is
\* in it, but for what follows the script in its step when "run" has the dash.
ScriptsAreBlocks ==
  exit # "none" /\ scan.kind = "blocks" =>
    \A f \in DOMAIN scan.files : \A i \in RunKeys(f) :
      \E b \in blocks :
        /\ b.file = f /\ b.line = i
        /\ ScriptOf(f, i) \subseteq b.body
        /\ \A j \in b.body : \/ j \in ScriptOf(f, i) \cup Following(f, i)
                             \/ scan.files[f][j].key = "blank"

\* A line in the block of another key that looks like a run key.
LooksLikeRun(l) == l.key = "run" /\ l.of # 0 /\ l.value # ""

\* Exit code 0 means that bash accepts every script, but behind "- run: |" only
\* with the keys that follow it, which can complete or break it; exit code 1
\* that it does not accept one of these, or what is behind a line that looks
\* like a run key.
RunVerdict ==
  scan.kind = "blocks" =>
    LET Refused(f) == {i \in RunKeys(f) : ~Accepted(f, i, ScriptOf(f, i) \cup Following(f, i))}
    IN  /\ exit = "zero" => \A f \in DOMAIN scan.files : Refused(f) = {}
        /\ exit = "one" =>
             \E f \in DOMAIN scan.files :
               \/ Refused(f) # {}
               \/ \E i \in DOMAIN scan.files[f] :
                    /\ LooksLikeRun(scan.files[f][i])
                    /\ ~Accepted(f, i, IF scan.files[f][i].value = "line" THEN {i}
                                       ELSE Deeper(scan.files[f], i))

\* What xargs makes something else of than the caller check does: a quote that
\* is not closed, backslashes in the destination, or quotes that hide from the
\* caller check where the source is.
Misread(entry) ==
  /\ Len(entry) = 2
  /\ \/ HasOpenQuote(entry)
     \/ entry[2].form = "backslash"
     \/ /\ entry[1].form \in {"quoted", "unpaired"}
        /\ entry[1].is \in {"empty", "absolute", "parent"}

\* An overlay entry with one arrow that the caller check has nothing to say
\* about is one that the overlay step accepts, if its source exists, except for
\* what xargs misreads, which it refuses.
OverlayChecksAgree ==
  scan.kind = "blocks" =>
    \A f \in DOMAIN scan.files : \A i \in DOMAIN scan.files[f] :
      LET l == scan.files[f][i]
      IN  /\ l.key = "entry" /\ l.of # 0 /\ Len(l.value) <= 2
          /\ scan.files[f][l.of].key = "overlay" /\ scan.files[f][l.of].value
          /\ CallersPass(scan.files)
          => (OverlayStepAccepts(l.value) <=> ~Misread(l.value))

\* What is outside of the regions of a text, with a mark for each of these.
Skeleton(f) ==
  [i \in DOMAIN scan.files[f] |->
     LET c == scan.files[f][i]
     IN  IF IsRegion(c) THEN [is |-> "region", rest |-> c.pattern] ELSE c]

\* Two texts are the same to the drift check exactly when they are the same
\* but for what is between the anchors of a pattern.
StripComparesOutside ==
  scan.kind # "blocks" /\ exit # "none" => (exit = "zero" <=> Skeleton(1) = Skeleton(2))

----------------------------------------------------------------------------
\* The inductive invariant

TypeOK ==
  /\ IsScan(scan)
  /\ file \in 1..(Len(scan.files) + 1)
  /\ at \in 1..(IF file > Len(scan.files) THEN 1 ELSE Len(Text) + 1)
  /\ open \in 0..(at - 1)
  /\ exit \in {"none", "zero", "one"}

\* The block of a run key, or of a line that looks like one.
BlockOf(f, i) ==
  [file |-> f, line |-> i,
   body |-> IF scan.files[f][i].value = "line" THEN {i} ELSE Deeper(scan.files[f], i)]

\* The blocks are those of run keys, or of lines that look like one,
BlocksAreReal ==
  \A b \in blocks : \E f \in DOMAIN scan.files : \E i \in DOMAIN scan.files[f] :
    /\ scan.files[f][i].key = "run" /\ scan.files[f][i].value # ""
    /\ b = BlockOf(f, i)

\* they are those of all run keys so far, but for the open one,
BlocksAreAll ==
  \A f \in DOMAIN scan.files : \A i \in RunKeys(f) :
    f < file \/ (f = file /\ i < at /\ i # open) => BlockOf(f, i) \in blocks

\* and that one goes on.
OpenGoesOn ==
  open > 0 => /\ Text[open].key = "run" /\ Text[open].value = "block"
              /\ (open + 1)..(at - 1) \subseteq Deeper(Text, open)

\* How many lines the first n chunks have.
Offset(kind, chunks, n) == Len(Render(kind, SubSeq(chunks, 1, n)))

\* What is left of a text is a first part of its skeleton, and the next line the
\* first one of the next chunk.
StrippedSoFar ==
  /\ open = 0 /\ DOMAIN out = DOMAIN scan.files
  /\ \A f \in DOMAIN scan.files : /\ f < file => out[f] = Skeleton(f)
                                  /\ f > file => out[f] = <<>>
  /\ file <= Len(scan.files) =>
       \E n \in 0..Len(scan.files[file]) :
         /\ out[file] = SubSeq(Skeleton(file), 1, n)
         /\ at = Offset(scan.kind, scan.files[file], n) + 1

Ended ==
  exit # "none" =>
    /\ file > Len(scan.files)
    /\ exit = "zero" <=> IF scan.kind = "blocks" THEN \A b \in blocks : Parses(b)
                         ELSE out[1] = out[2]

IInv ==
  /\ TypeOK /\ Ended
  /\ IF scan.kind = "blocks" THEN BlocksAreReal /\ BlocksAreAll /\ OpenGoesOn
     ELSE StrippedSoFar
=============================================================================
