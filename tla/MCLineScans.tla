---------------------------- MODULE MCLineScans -----------------------------
(***************************************************************************)
(* Workflows put together from steps, overlay blocks with every entry of   *)
(* at most two arrows, and pairs of texts put together from chunks.        *)
(***************************************************************************)
EXTENDS LineScans, TLC

L(indent, key, value, bash) ==
  [indent |-> indent, dash |-> FALSE, key |-> key, value |-> value, bash |-> bash, of |-> 0]

\* A key, with the lines of its block scalar.
Add(lines, key, body) ==
  Append(lines, key) \o [i \in DOMAIN body |-> [body[i] EXCEPT !.of = Len(lines) + 1]]

Dash(key) == [key EXCEPT !.dash = TRUE, !.indent = 2]

\* To bash a line is a command, the first part of one, like "cat x |", or wrong.
BashOf(script) ==
  /\ \A i \in DOMAIN script : script[i].bash # "wrong"
  /\ script[Len(script)].bash # "part"

Item(bash) == L(4, "text", "", bash)
Blank == L(0, "blank", "", "command")

Bodies == {<<L(6, "text", "", b)>> : b \in {"command", "part", "wrong"}}
          \cup {<<L(6, "text", "", "part"), Blank, L(8, "run", v, b)>> :
                  v \in {"line", "block"}, b \in {"command", "wrong"}}

Run == L(4, "run", "block", "command")

Steps ==
  {<<Dash(Item("command"))>> \o s :
     s \in {<<>>} \cup {<<L(4, "run", v, b)>> : v \in {"line", ""}, b \in {"command", "wrong"}}}
  \cup {Append(Add(<<Dash(Item("command"))>>, Run, b), Item("wrong")) : b \in Bodies}
  \cup {Add(<<>>, Dash(Run), b) \o e : b \in Bodies,
          e \in {<<>>, <<Blank>>}
                \cup {<<Item(b), Blank, Item("command")>> : b \in {"command", "wrong"}}}
  \cup {Add(<<Dash(Item("command"))>>, Item("wrong"), b) : b \in Bodies}

\* The second of two steps, its block scalars counted from the first.
After(first, second) ==
  first \o [i \in DOMAIN second |->
              [second[i] EXCEPT !.of = IF @ = 0 THEN 0 ELSE @ + Len(first)]]

Sha == [form |-> "action", at |-> 1, sha |-> TRUE, digest |-> FALSE, quoted |-> FALSE]

CallerOf(entries, literal, pinned) ==
  Append(Add(<<L(4, "uses", [Sha EXCEPT !.sha = pinned], ""), L(4, "text", "", ""),
               L(6, "ref", TRUE, "")>>,
             L(6, "overlay", literal, ""), entries),
         L(6, "ref", pinned, ""))

Entry(e) == L(8, "entry", e, "")

Unquoted(is) == [is |-> is, form |-> "plain"]

TwoArrows == [1..3 -> {p \in OverlayPath : p.form = "plain" \/ p.is = "below"}]

AllEntries == UNION {[1..n -> OverlayPath] : n \in 0..2} \cup TwoArrows

Workflows == {<<After(s, t)>> : s \in Steps, t \in Steps}
             \cup {<<s, t>> : s \in Steps, t \in Steps}
             \cup {<<CallerOf(<<Blank, Entry(e), Entry(<<Unquoted("else"), Unquoted("root")>>)>>,
                              TRUE, TRUE)>> : e \in AllEntries}
             \cup {<<CallerOf(<<Entry(<<Unquoted(s), Unquoted(d)>>)>>, l, p)>> :
                     s \in {"else", "parent"}, d \in {"root", "else"},
                     l \in BOOLEAN, p \in BOOLEAN}

----------------------------------------------------------------------------

Plain(is, rest) == [is |-> is, rest |-> rest]
Region(i, body, rest) == [pattern |-> i, body |-> body, rest |-> rest]

\* "    for rel in" is the only line of its pattern, and body of another one.
Chunks(kind) ==
  {Plain("x", 0), Plain("x", 1), Plain("    for rel in", 0)}
  \cup {Plain(Strips[kind][i].end, 0) : i \in 1..3}
  \cup {Plain(Strips[kind][i].start, 0) : i \in 1..3}
  \cup {Region(i, <<>>, n) : i \in 1..3, n \in 0..1}
  \cup {Region(i, <<Plain("x", 0), Plain("    for rel in", 0)>>, 0) : i \in 1..3}

Texts(kind) == {c \in [1..2 -> Chunks(kind)] \cup [1..1 -> Chunks(kind)] : IsText(kind, c)}

\* A text, and one that differs in at most one chunk.
Comparisons(kind) ==
  UNION {{[kind |-> kind, files |-> <<a, b>>] :
            b \in {a} \cup {c \in {[a EXCEPT ![i] = x] : i \in DOMAIN a, x \in Chunks(kind)} :
                              IsText(kind, c)}} :
           a \in Texts(kind)}

AllScans == {[kind |-> "blocks", files |-> w] : w \in Workflows}
            \cup Comparisons("validator") \cup Comparisons("harness")
=============================================================================
