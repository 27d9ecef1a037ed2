-------------------------- MODULE MCPrivilegedScan --------------------------
(***************************************************************************)
(* Checkouts for TLC: every call graph of three files with two calls each  *)
(* (Branching), and every call graph of four files with one call each      *)
(* (Chains), in which at most one file is unsafe, unparseable or           *)
(* malformed.  The report is a union over files, so one bad file at a time *)
(* is enough to see each one lost or invented.  The last file lies outside *)
(* of .github/workflows and is reached only by calls.                      *)
(***************************************************************************)
EXTENDS PrivilegedScan

CONSTANTS a, b, c, d

Three == {a, b, c}
Four == {a, b, c, d}
ListingOfThree == <<a, b>>
ListingOfFour == <<a, b, c>>

Unsafe == {[checkout |-> TRUE, refHead |-> TRUE, runHead |-> FALSE],
           [checkout |-> FALSE, refHead |-> FALSE, runHead |-> TRUE]}

OneCall == {<<[uses |-> u, steps |-> s]>> :
              u \in Four \cup {None}, s \in {{}, Unsafe}}
TwoCalls == {<<[uses |-> u, steps |-> {}], [uses |-> v, steps |-> s]>> :
               u, v \in Three \cup {None}, s \in {{}, Unsafe}}

IsUnsafe(jobs) == jobs[Len(jobs)].steps # {}

AtMostOneUnsafe(maps) ==
  {m \in maps : \A v, w \in DOMAIN m : IsUnsafe(m[v]) /\ IsUnsafe(m[w]) => v = w}

Branching ==
  {r \in [dir : {TRUE}, yaml : {TRUE}, triggers : {{a, b}},
          kind : [Three -> {"workflow"}],
          jobs : AtMostOneUnsafe([Three -> TwoCalls])] :
     \E w \in Three : IsUnsafe(r.jobs[w])}

Loadable(k, w) == k[w] = "workflow"

AtMostOneBroken ==
  {k \in [Four -> Kind] :
     \A v, w \in Four : Loadable(k, v) \/ Loadable(k, w) \/ v = w}

\* Without the directory or the module, the run ends before the first call: no
\* call graph is needed.
Chains ==
  {r \in [dir : BOOLEAN, yaml : BOOLEAN, triggers : {{a, b}},
          kind : AtMostOneBroken, jobs : AtMostOneUnsafe([Four -> OneCall])] :
     /\ \A v, w \in Four :
          ~Loadable(r.kind, v) /\ IsUnsafe(r.jobs[w]) => v = w
     /\ ~(r.dir /\ r.yaml) => \A w \in Four : r.jobs[w][1].uses = None}
=============================================================================
