----------------------- MODULE ContractCheckProofs -----------------------
(***************************************************************************)
(* The contract check of tools/check_template_contract.py, for every       *)
(* contract and every checkout: whatever main has not looked at yet it     *)
(* still owes the report.  First lists and their order, then what each     *)
(* kind of check stands for, the inductive invariant IInv of ContractCheck *)
(* action by action, and last what it says of a report, of a run next to   *)
(* the template, and of the three ways to look at a pin.                   *)
(***************************************************************************)
EXTENDS ContractCheck, SequenceTheorems, WellFoundedInduction, TLAPS

----------------------------------------------------------------------------
\* Lists

\* A list is a sequence of its elements.
LEMMA ListIsSeq ==
  ASSUME NEW l, IsList(l)
  PROVE  l \in Seq(ToSet(l)) /\ DOMAIN l = 1..Len(l) /\ Len(l) \in Nat
<1>1. DOMAIN l = 1..Len(l) /\ Len(l) \in Nat /\ l = [i \in 1..Len(l) |-> l[i]]
  BY DEF IsList
<1>2. \A i \in 1..Len(l) : l[i] \in ToSet(l)
  BY <1>1 DEF ToSet
<1>3. l \in [1..Len(l) -> ToSet(l)]
  BY <1>1, <1>2
<1> QED
  BY <1>1, <1>3

\* A sequence is a list.
LEMMA SeqIsList ==
  ASSUME NEW S, NEW l \in Seq(S)
  PROVE  IsList(l) /\ ToSet(l) \subseteq S
<1>1. Len(l) \in Nat /\ l \in [1..Len(l) -> S] /\ DOMAIN l = 1..Len(l)
  BY LenProperties
<1> QED
  BY <1>1 DEF IsList, ToSet

\* The elements of two lists put together.
LEMMA ConcatList ==
  ASSUME NEW p, NEW q, IsList(p), IsList(q)
  PROVE  /\ IsList(p \o q) /\ ToSet(p \o q) = ToSet(p) \cup ToSet(q)
         /\ \A i \in DOMAIN (p \o q) :
              \/ i \in DOMAIN p /\ (p \o q)[i] = p[i]
              \/ i - Len(p) \in DOMAIN q /\ (p \o q)[i] = q[i - Len(p)]
<1> DEFINE S == ToSet(p) \cup ToSet(q)
<1>1. p \in Seq(S) /\ q \in Seq(S)
  <2>1. p \in Seq(ToSet(p)) /\ q \in Seq(ToSet(q))
    BY ListIsSeq
  <2> HIDE DEF S
  <2>2. ToSet(p) \subseteq S /\ ToSet(q) \subseteq S
    BY DEF S
  <2> QED
    BY <2>1, <2>2, SeqMonotonic
<1>2. DOMAIN p = 1..Len(p) /\ Len(p) \in Nat /\ DOMAIN q = 1..Len(q) /\ Len(q) \in Nat
  BY ListIsSeq
<1> HIDE DEF S
<1>3. /\ p \o q \in Seq(S) /\ Len(p \o q) = Len(p) + Len(q)
      /\ \A i \in 1..(Len(p) + Len(q)) : (p \o q)[i] = IF i <= Len(p) THEN p[i] ELSE q[i - Len(p)]
  BY <1>1, ConcatProperties
<1>4. DOMAIN (p \o q) = 1..(Len(p) + Len(q))
  BY <1>3, LenProperties
<1>5. IsList(p \o q) /\ ToSet(p \o q) \subseteq S
  BY <1>3, SeqIsList
<1>6. \A i \in DOMAIN (p \o q) :
         \/ i \in DOMAIN p /\ (p \o q)[i] = p[i]
         \/ i - Len(p) \in DOMAIN q /\ (p \o q)[i] = q[i - Len(p)]
  BY <1>2, <1>3, <1>4
<1>7. \A i \in DOMAIN p : i \in DOMAIN (p \o q) /\ (p \o q)[i] = p[i]
  BY <1>2, <1>3, <1>4
<1>8. \A i \in DOMAIN q : i + Len(p) \in DOMAIN (p \o q) /\ (p \o q)[i + Len(p)] = q[i]
  BY <1>2, <1>3, <1>4
<1>9. S \subseteq ToSet(p \o q)
  BY <1>7, <1>8 DEF S, ToSet
<1> QED
  BY <1>5, <1>6, <1>9 DEF S

\* The head and the tail of a list.
LEMMA TailList ==
  ASSUME NEW l, IsList(l), l # <<>>
  PROVE  /\ IsList(Tail(l)) /\ ToSet(l) = {Head(l)} \cup ToSet(Tail(l))
         /\ 1 \in DOMAIN l /\ Head(l) = l[1]
         /\ \A i \in DOMAIN Tail(l) : i \in Nat \ {0} /\ i + 1 \in DOMAIN l /\ Tail(l)[i] = l[i + 1]
<1> DEFINE S == ToSet(l)
<1>1. l \in Seq(S) /\ DOMAIN l = 1..Len(l) /\ Len(l) \in Nat
  BY ListIsSeq
<1> HIDE DEF S
<1>2. /\ Tail(l) \in Seq(S) /\ 1 \in DOMAIN l /\ Head(l) = l[1]
      /\ \A i \in DOMAIN Tail(l) : i \in Nat \ {0} /\ i + 1 \in DOMAIN l /\ Tail(l)[i] = l[i + 1]
      /\ \A i \in DOMAIN l : i # 1 => i - 1 \in DOMAIN Tail(l) /\ Tail(l)[i - 1] = l[i]
  BY <1>1
<1>3. IsList(Tail(l))
  BY <1>2, SeqIsList
<1>4. ToSet(Tail(l)) \subseteq S /\ Head(l) \in S
  BY <1>2, SeqIsList DEF S, ToSet
<1>5. S \subseteq {Head(l)} \cup ToSet(Tail(l))
  <2>1. \A i \in DOMAIN l : l[i] \in {Head(l)} \cup ToSet(Tail(l))
    BY <1>2 DEF ToSet
  <2>2. S = {l[i] : i \in DOMAIN l}
    BY DEF S, ToSet
  <2> QED
    BY <2>1, <2>2
<1> QED
  BY <1>2, <1>3, <1>4, <1>5 DEF S

\* The checks for the elements of a list.
LEMMA EachList ==
  ASSUME NEW check, NEW l, IsList(l)
  PROVE  IsList(Each(check, l)) /\ ToSet(Each(check, l)) = {Do(check, x) : x \in ToSet(l)}
<1> DEFINE S == {Do(check, x) : x \in ToSet(l)}
<1>1. DOMAIN l = 1..Len(l) /\ Len(l) \in Nat
  BY ListIsSeq
<1>2. \A i \in 1..Len(l) : l[i] \in ToSet(l)
  BY <1>1 DEF ToSet
<1>3. Each(check, l) = [i \in 1..Len(l) |-> Do(check, l[i])]
  BY <1>1 DEF Each
<1>4. \A i \in 1..Len(l) : Do(check, l[i]) \in S
  BY <1>2
<1> HIDE DEF S
<1>5. Each(check, l) \in [1..Len(l) -> S]
  BY <1>3, <1>4
<1>6. Each(check, l) \in Seq(S)
  BY <1>1, <1>5
<1>7. IsList(Each(check, l)) /\ ToSet(Each(check, l)) \subseteq S
  BY <1>6, SeqIsList
<1>8. S \subseteq ToSet(Each(check, l))
  BY <1>1, <1>3 DEF S, ToSet
<1> QED
  BY <1>7, <1>8 DEF S

\* A list of one element, and of none.
LEMMA ShortLists ==
  /\ \A x : IsList(<<x>>) /\ ToSet(<<x>>) = {x} /\ DOMAIN <<x>> = {1} /\ <<x>>[1] = x
  /\ IsList(<<>>) /\ ToSet(<<>>) = {}
<1>1. ASSUME NEW x
      PROVE  IsList(<<x>>) /\ ToSet(<<x>>) = {x} /\ DOMAIN <<x>> = {1} /\ <<x>>[1] = x
  <2>1. <<x>> \in Seq({x})
    OBVIOUS
  <2>2. IsList(<<x>>) /\ ToSet(<<x>>) \subseteq {x}
    BY <2>1, SeqIsList
  <2>3. DOMAIN <<x>> = {1} /\ <<x>>[1] = x
    OBVIOUS
  <2> QED
    BY <2>2, <2>3 DEF ToSet
<1>2. <<>> \in Seq({})
  OBVIOUS
<1>3. IsList(<<>>)
  BY <1>2, SeqIsList
<1>4. ToSet(<<>>) = {}
  <2>1. DOMAIN <<>> = {}
    OBVIOUS
  <2> QED
    BY <2>1 DEF ToSet
<1> QED
  BY <1>1, <1>3, <1>4

----------------------------------------------------------------------------
\* Order

\* A set of numbers has a least one.
LEMMA LeastNumber ==
  ASSUME NEW T \in SUBSET Nat, T # {}
  PROVE  \E n \in T : \A m \in T : n <= m
<1>1. PICK n \in T : \A m \in T : ~(<<m, n>> \in OpToRel(<, Nat))
  BY NatLessThanWellFounded, WFMin
<1>2. \A m \in T : ~(m < n)
  BY <1>1 DEF OpToRel
<1> QED
  BY <1>2

\* Every path that can be in the inventory has a place of its own.
LEMMA Places ==
  ASSUME NEW p \in ToSet(Sorted)
  PROVE  Position(p) \in Nat /\ Position(p) \in DOMAIN Sorted /\ Sorted[Position(p)] = p
<1>1. DOMAIN Sorted = 1..Len(Sorted) /\ Len(Sorted) \in Nat
  BY SortedAssumption, ListIsSeq
<1>2. \E i \in DOMAIN Sorted : Sorted[i] = p
  BY DEF ToSet
<1>3. Position(p) \in DOMAIN Sorted /\ Sorted[Position(p)] = p
  BY <1>2 DEF Position
<1> QED
  BY <1>1, <1>3

\* The first of some paths is one of them, and comes before the others.
LEMMA FirstOf ==
  ASSUME NEW P \in SUBSET ToSet(Sorted), P # {}
  PROVE  First(P) \in P /\ \A q \in P \ {First(P)} : Position(First(P)) < Position(q)
<1> DEFINE T == {Position(p) : p \in P}
<1>1. T \subseteq Nat /\ T # {}
  BY Places
<1>2. PICK n \in T : \A m \in T : n <= m
  BY <1>1, LeastNumber
<1>3. \E p \in P : \A q \in P : Position(p) <= Position(q)
  BY <1>2
<1> HIDE DEF T
<1>4. First(P) \in P /\ \A q \in P : Position(First(P)) <= Position(q)
  BY <1>3 DEF First
<1>5. \A q \in P : Position(q) = Position(First(P)) => q = First(P)
  BY <1>4, Places
<1> QED
  BY <1>4, <1>5, Places

----------------------------------------------------------------------------
\* What only depends on the setup stays.
LEMMA SetupStays ==
  ASSUME UNCHANGED setup
  PROVE  /\ Breaches' = Breaches
         /\ Mirrored' = Mirrored /\ Inventory' = Inventory
         /\ \A E : Unmirrored(E)' = Unmirrored(E)
         /\ \A t : Owed(t)' = Owed(t)
         /\ \A t : SyncOwed(t)' = SyncOwed(t)
         /\ \A t : BelongsTo(t)' <=> BelongsTo(t)
         /\ \A p, n : Defines(p, n)' <=> Defines(p, n)
         /\ \A t : Raises(t)' <=> Raises(t)
<1>1. \A r : Applies(r)' <=> Applies(r)
  BY DEF Applies
<1>2. \A p : Blocked(p)' <=> Blocked(p)
  BY DEF Blocked
<1>t. \A p : TextOf(p)' = TextOf(p)
  BY DEF TextOf
<1>3. \A p, n : Defines(p, n)' <=> Defines(p, n)
  BY <1>t DEF Defines
<1>4. Mirrored' = Mirrored /\ Inventory' = Inventory
  BY DEF Mirrored, Inventory
<1>5. \A E : Unmirrored(E)' = Unmirrored(E)
  BY DEF Unmirrored
<1>6. \A R : PathFailures(R)' = PathFailures(R)
  BY <1>1 DEF PathFailures
<1>7. \A R : ContentFailures(R)' = ContentFailures(R)
  BY <1>1 DEF ContentFailures
<1>8. \A R : ForbiddenFailures(R)' = ForbiddenFailures(R)
  BY <1>1 DEF ForbiddenFailures
<1>9. PinFailures' = PinFailures
  BY DEF PinFailures
<1>10. \A F : InventoryFailures(F)' = InventoryFailures(F)
  BY <1>3, <1>4, <1>t DEF InventoryFailures
<1>11. Breaches' = Breaches
  BY <1>4, <1>6, <1>7, <1>8, <1>9, <1>10 DEF Breaches
<1>12. \A t : Owed(t)' = Owed(t)
  BY <1>6, <1>7, <1>8, <1>9, <1>10, <1>11 DEF Owed
<1>13. \A t : SyncOwed(t)' = SyncOwed(t)
  BY <1>4, <1>5 DEF SyncOwed
<1>14. \A t : BelongsTo(t)' <=> BelongsTo(t)
  BY <1>4 DEF BelongsTo
<1>15. \A t : Raises(t)' <=> Raises(t)
  BY <1>1, <1>2, <1>t DEF Raises
<1> QED
  BY <1>3, <1>4, <1>5, <1>11, <1>12, <1>13, <1>14, <1>15

----------------------------------------------------------------------------
\* The parts of the invariant

Outstanding(l) == UNION {Owed(l[i]) : i \in DOMAIN l}
DriftLeft(l) == UNION {SyncOwed(l[i]) : i \in DOMAIN l}

OfRules(F) == {f \in F : f.check # "sync_drift"}
SyncAts(F) == {f.at : f \in {g \in F : g.check = "sync_drift"}}

Once(l) == \A i, j \in DOMAIN l : l[i].do = "inventory" /\ l[j].do = "inventory" => i = j
NoInventory(l) == \A i \in DOMAIN l : l[i].do # "inventory"

\* What has been read of the inventory when these files are left.
InPlace(files, names) ==
  LET read == Inventory \ files
  IN  /\ names = {n \in RepoName : \E p \in read : Defines(p, n)}
      /\ \A p \in read, q \in files : Position(p) < Position(q)

Promised ==
  /\ setup.template # NoTemplate
  /\ ~setup.template.legacy
  /\ ManifestPasses(setup.template, FALSE)

\* What is outstanding, by the elements of the list.
LEMMA OutstandingOf ==
  ASSUME NEW l
  PROVE  /\ Outstanding(l) = UNION {Owed(t) : t \in ToSet(l)}
         /\ DriftLeft(l) = UNION {SyncOwed(t) : t \in ToSet(l)}
BY DEF Outstanding, DriftLeft, ToSet

\* What two lists leave, together.
LEMMA OutstandingConcat ==
  ASSUME NEW p, NEW q, IsList(p), IsList(q)
  PROVE  /\ Outstanding(p \o q) = Outstanding(p) \cup Outstanding(q)
         /\ DriftLeft(p \o q) = DriftLeft(p) \cup DriftLeft(q)
<1>1. ToSet(p \o q) = ToSet(p) \cup ToSet(q)
  BY ConcatList
<1>2. /\ Outstanding(p \o q) = UNION {Owed(t) : t \in ToSet(p) \cup ToSet(q)}
      /\ DriftLeft(p \o q) = UNION {SyncOwed(t) : t \in ToSet(p) \cup ToSet(q)}
  BY <1>1, OutstandingOf
<1>3. /\ Outstanding(p) = UNION {Owed(t) : t \in ToSet(p)}
      /\ Outstanding(q) = UNION {Owed(t) : t \in ToSet(q)}
      /\ DriftLeft(p) = UNION {SyncOwed(t) : t \in ToSet(p)}
      /\ DriftLeft(q) = UNION {SyncOwed(t) : t \in ToSet(q)}
  BY OutstandingOf
<1> QED
  BY <1>2, <1>3

\* What the head leaves, and the tail.
LEMMA OutstandingTail ==
  ASSUME NEW l, IsList(l), l # <<>>
  PROVE  /\ Outstanding(l) = Owed(Head(l)) \cup Outstanding(Tail(l))
         /\ DriftLeft(l) = SyncOwed(Head(l)) \cup DriftLeft(Tail(l))
<1>1. ToSet(l) = {Head(l)} \cup ToSet(Tail(l))
  BY TailList
<1>2. /\ Outstanding(l) = UNION {Owed(t) : t \in {Head(l)} \cup ToSet(Tail(l))}
      /\ DriftLeft(l) = UNION {SyncOwed(t) : t \in {Head(l)} \cup ToSet(Tail(l))}
  BY <1>1, OutstandingOf
<1>3. /\ Outstanding(Tail(l)) = UNION {Owed(t) : t \in ToSet(Tail(l))}
      /\ DriftLeft(Tail(l)) = UNION {SyncOwed(t) : t \in ToSet(Tail(l))}
  BY OutstandingOf
<1> QED
  BY <1>2, <1>3

\* Of two lists one of which has no inventory, the other one once.
LEMMA OnceConcat ==
  ASSUME NEW p, NEW q, IsList(p), IsList(q), Once(p), Once(q),
         NoInventory(p) \/ NoInventory(q)
  PROVE  Once(p \o q)
<1>1. DOMAIN p = 1..Len(p) /\ Len(p) \in Nat /\ DOMAIN q = 1..Len(q) /\ Len(q) \in Nat
  BY ListIsSeq
<1>2. IsList(p \o q)
  BY ConcatList
<1>3. DOMAIN (p \o q) = 1..Len(p \o q) /\ Len(p \o q) \in Nat
  BY <1>2, ListIsSeq
<1> SUFFICES ASSUME NEW i \in DOMAIN (p \o q), NEW j \in DOMAIN (p \o q),
                    (p \o q)[i].do = "inventory", (p \o q)[j].do = "inventory"
             PROVE  i = j
  BY DEF Once
<1>4. /\ \/ i \in DOMAIN p /\ p[i].do = "inventory"
         \/ i - Len(p) \in DOMAIN q /\ q[i - Len(p)].do = "inventory"
      /\ \/ j \in DOMAIN p /\ p[j].do = "inventory"
         \/ j - Len(p) \in DOMAIN q /\ q[j - Len(p)].do = "inventory"
  <2>1. \A k \in DOMAIN (p \o q) :
           \/ k \in DOMAIN p /\ (p \o q)[k] = p[k]
           \/ k - Len(p) \in DOMAIN q /\ (p \o q)[k] = q[k - Len(p)]
    BY ConcatList
  <2>2. \A k \in DOMAIN (p \o q) : (p \o q)[k].do = "inventory" =>
           \/ k \in DOMAIN p /\ p[k].do = "inventory"
           \/ k - Len(p) \in DOMAIN q /\ q[k - Len(p)].do = "inventory"
    <3> TAKE k \in DOMAIN (p \o q)
    <3> HAVE (p \o q)[k].do = "inventory"
    <3>1. CASE k \in DOMAIN p /\ (p \o q)[k] = p[k]
      BY <3>1
    <3>2. CASE k - Len(p) \in DOMAIN q /\ (p \o q)[k] = q[k - Len(p)]
      BY <3>2
    <3> QED
      BY <2>1, <3>1, <3>2
  <2> QED
    BY <2>2
<1>5. CASE NoInventory(p)
  <2>1. /\ i - Len(p) \in DOMAIN q /\ q[i - Len(p)].do = "inventory"
        /\ j - Len(p) \in DOMAIN q /\ q[j - Len(p)].do = "inventory"
    BY <1>4, <1>5 DEF NoInventory
  <2>2. i - Len(p) = j - Len(p)
    BY <2>1 DEF Once
  <2> QED
    BY <1>1, <1>3, <2>2
<1>6. CASE NoInventory(q)
  <2>1. /\ i \in DOMAIN p /\ p[i].do = "inventory"
        /\ j \in DOMAIN p /\ p[j].do = "inventory"
    BY <1>4, <1>6 DEF NoInventory
  <2> QED
    BY <2>1 DEF Once
<1> QED
  BY <1>5, <1>6

\* No inventory, by the elements of the list.
LEMMA NoInventoryOf ==
  ASSUME NEW l
  PROVE  /\ NoInventory(l) <=> \A t \in ToSet(l) : t.do # "inventory"
         /\ NoInventory(l) => Once(l)
BY DEF NoInventory, ToSet, Once

\* Behind the first check: no start, no second inventory, and nothing after a start.
LEMMA Behind ==
  ASSUME IInv, todo # <<>>
  PROVE  /\ IsList(Tail(todo)) /\ Once(Tail(todo))
         /\ Head(todo).do \in {"start", "inventory"} => NoInventory(Tail(todo))
         /\ \A i \in DOMAIN Tail(todo) :
              /\ BelongsTo(Tail(todo)[i]) /\ Tail(todo)[i].do # "start"
              /\ Tail(todo)[i].do = "inventory" => InPlace(Tail(todo)[i].on, seen)
         /\ BelongsTo(Head(todo))
         /\ Head(todo).do = "inventory" => InPlace(Head(todo).on, seen)
         /\ Head(todo).do = "start" => seen = {} /\ Tail(todo) = <<>>
<1>1. IsList(todo) /\ \A i \in DOMAIN todo : BelongsTo(todo[i])
  BY DEF IInv, TypeOK
<1>2. /\ IsList(Tail(todo)) /\ 1 \in DOMAIN todo /\ Head(todo) = todo[1]
      /\ \A i \in DOMAIN Tail(todo) :
           i \in Nat \ {0} /\ i + 1 \in DOMAIN todo /\ Tail(todo)[i] = todo[i + 1]
  BY <1>1, TailList
<1>3. DOMAIN todo = 1..Len(todo)
  BY <1>1, ListIsSeq
<1>4. /\ \A i, j \in DOMAIN todo : todo[i].do = "inventory" /\ todo[j].do = "inventory" => i = j
      /\ \A i \in DOMAIN todo : todo[i].do = "start" => seen = {} /\ Len(todo) = 1
      /\ \A i \in DOMAIN todo : todo[i].do = "inventory" => InPlace(todo[i].on, seen)
  BY DEF IInv, InOrder, InPlace
<1>5. \A i \in DOMAIN Tail(todo) : BelongsTo(Tail(todo)[i])
  BY <1>1, <1>2
<1>6. \A i \in DOMAIN Tail(todo) :
        Tail(todo)[i].do = "inventory" => InPlace(Tail(todo)[i].on, seen)
  BY <1>2, <1>4
<1>7. \A i \in DOMAIN Tail(todo) : Tail(todo)[i].do # "start"
  <2> SUFFICES ASSUME NEW i \in DOMAIN Tail(todo), todo[i + 1].do = "start" PROVE FALSE
    BY <1>2
  <2>1. i + 1 \in DOMAIN todo /\ i \in Nat \ {0}
    BY <1>2
  <2>2. Len(todo) = 1
    BY <1>4, <2>1
  <2> QED
    BY <1>3, <2>1, <2>2
<1>8. Once(Tail(todo))
  <2> SUFFICES ASSUME NEW i \in DOMAIN Tail(todo), NEW j \in DOMAIN Tail(todo),
                      Tail(todo)[i].do = "inventory", Tail(todo)[j].do = "inventory"
               PROVE  i = j
    BY DEF Once
  <2>1. /\ i + 1 \in DOMAIN todo /\ todo[i + 1].do = "inventory" /\ i \in Nat
        /\ j + 1 \in DOMAIN todo /\ todo[j + 1].do = "inventory" /\ j \in Nat
    BY <1>2
  <2>2. i + 1 = j + 1
    BY <1>4, <2>1
  <2> QED
    BY <2>1, <2>2
<1>9. Head(todo).do = "inventory" => NoInventory(Tail(todo))
  <2> SUFFICES ASSUME todo[1].do = "inventory", NEW i \in DOMAIN Tail(todo),
                      Tail(todo)[i].do = "inventory"
               PROVE  FALSE
    BY <1>2 DEF NoInventory
  <2>1. i + 1 \in DOMAIN todo /\ todo[i + 1].do = "inventory" /\ i \in Nat \ {0}
    BY <1>2
  <2>2. i + 1 = 1
    BY <1>2, <1>4, <2>1
  <2> QED
    BY <2>1, <2>2
<1>10. Head(todo).do = "start" => seen = {} /\ Tail(todo) = <<>>
  <2> SUFFICES ASSUME todo[1].do = "start" PROVE seen = {} /\ Tail(todo) = <<>>
    BY <1>2
  <2>1. seen = {} /\ Len(todo) = 1
    BY <1>2, <1>4
  <2>2. todo \in Seq(ToSet(todo))
    BY <1>1, ListIsSeq
  <2>3. Tail(todo) \in Seq(ToSet(todo)) /\ Len(Tail(todo)) = 0
    BY <2>1, <2>2, HeadTailProperties
  <2> QED
    BY <2>1, <2>3, EmptySeq
<1>11. Head(todo).do = "start" => NoInventory(Tail(todo))
  <2>1. DOMAIN <<>> = {}
    OBVIOUS
  <2> QED
    BY <1>10, <2>1 DEF NoInventory
<1>12. BelongsTo(Head(todo)) /\ (Head(todo).do = "inventory" => InPlace(Head(todo).on, seen))
  BY <1>1, <1>2, <1>4
<1> QED
  BY <1>2, <1>5, <1>6, <1>7, <1>8, <1>9, <1>10, <1>11, <1>12

\* A step that replaces the first check by others (L) and finds something (F).
LEMMA ReplaceStep ==
  ASSUME IInv, exit = "none", todo # <<>>, UNCHANGED <<setup, exit>>,
         NEW L, IsList(L), todo' = L \o Tail(todo),
         NEW F, failed' = failed \cup F,
         seen' \subseteq RepoName,
         Head(todo).do \notin {"start", "inventory"} => seen' = seen /\ NoInventory(L),
         Once(L),
         \A t \in ToSet(L) : /\ BelongsTo(t) /\ t.do # "start"
                             /\ t.do = "inventory" => InPlace(t.on, seen'),
         OfRules(F) \cup Outstanding(L) = Owed(Head(todo)),
         Promised => SyncAts(F) \cup DriftLeft(L) = SyncOwed(Head(todo))
  PROVE  IInv'
<1>1. IsList(Tail(todo)) /\ IsList(todo)
  BY Behind DEF IInv, TypeOK
<1>2. /\ IsList(todo') /\ ToSet(todo') = ToSet(L) \cup ToSet(Tail(todo))
  BY <1>1, ConcatList
<1>3. \A t \in ToSet(Tail(todo)) :
        /\ BelongsTo(t) /\ t.do # "start"
        /\ t.do = "inventory" => InPlace(t.on, seen)
  BY Behind DEF ToSet
<1>4. \A t \in ToSet(Tail(todo)) : t.do = "inventory" => InPlace(t.on, seen')
  <2>1. CASE Head(todo).do \in {"start", "inventory"}
    <3>1. NoInventory(Tail(todo))
      BY <2>1, Behind
    <3> QED
      BY <3>1, NoInventoryOf
  <2>2. CASE Head(todo).do \notin {"start", "inventory"}
    BY <1>3, <2>2
  <2> QED
    BY <2>1, <2>2
<1>5. \A t \in ToSet(todo') :
        /\ BelongsTo(t) /\ t.do # "start"
        /\ t.do = "inventory" => InPlace(t.on, seen')
  BY <1>2, <1>3, <1>4
<1>6. \A i \in DOMAIN todo' : todo'[i] \in ToSet(todo')
  BY DEF ToSet
<1>7. TypeOK'
  <2>1. IsSetup(setup)'
    BY DEF IInv, TypeOK
  <2>2. \A i \in DOMAIN todo' : BelongsTo(todo[i])'
    BY <1>5, <1>6, SetupStays
  <2> QED
    BY <1>2, <2>1, <2>2 DEF TypeOK, IInv
<1>8. NothingLost'
  <2>1. RuleFailures \cup Outstanding(todo) = Breaches
    BY DEF IInv, NothingLost, Outstanding
  <2>2. Outstanding(todo) = Owed(Head(todo)) \cup Outstanding(Tail(todo))
    BY <1>1, OutstandingTail
  <2>3. Outstanding(todo') = Outstanding(L) \cup Outstanding(Tail(todo))
    BY <1>1, OutstandingConcat
  <2>4. RuleFailures' = RuleFailures \cup OfRules(F)
    BY DEF RuleFailures, OfRules
  <2>5. RuleFailures' \cup Outstanding(todo') = Breaches
    BY <2>1, <2>2, <2>3, <2>4
  <2>6. UNION {Owed(todo[i])' : i \in DOMAIN todo'} = Outstanding(todo')
    BY SetupStays DEF Outstanding
  <2> QED
    BY <2>5, <2>6, SetupStays DEF NothingLost
<1>9. InOrder'
  <2>1. Once(todo')
    <3>1. Once(Tail(todo))
      BY Behind
    <3>2. NoInventory(L) \/ NoInventory(Tail(todo))
      BY Behind
    <3> QED
      BY <1>1, <3>1, <3>2, OnceConcat
  <2>2. \A i \in DOMAIN todo' : /\ todo'[i].do # "start"
                                /\ todo'[i].do = "inventory" => InPlace(todo'[i].on, seen')
    BY <1>5, <1>6
  <2>3. \A files : {n \in RepoName : \E p \in Inventory' \ files : Defines(p, n)'}
                     = {n \in RepoName : \E p \in Inventory \ files : Defines(p, n)}
    BY SetupStays
  <2>4. \A i \in DOMAIN todo' : todo'[i].do = "inventory" =>
          LET read == Inventory' \ todo'[i].on
          IN  /\ seen' = {n \in RepoName : \E p \in read : Defines(p, n)'}
              /\ \A p \in read, q \in todo'[i].on : Position(p) < Position(q)
    BY <2>2, <2>3, SetupStays DEF InPlace
  <2> QED
    BY <2>1, <2>2, <2>4 DEF InOrder, Once
<1>10. NoDriftLost'
  <2> SUFFICES ASSUME Promised
               PROVE  SyncDrift' \cup UNION {SyncOwed(todo[i])' : i \in DOMAIN todo'}
                        = Unmirrored(Mirrored)'
    BY DEF NoDriftLost, Promised
  <2>1. SyncDrift \cup DriftLeft(todo) = Unmirrored(Mirrored)
    BY DEF IInv, NoDriftLost, DriftLeft, Promised
  <2>2. DriftLeft(todo) = SyncOwed(Head(todo)) \cup DriftLeft(Tail(todo))
    BY <1>1, OutstandingTail
  <2>3. DriftLeft(todo') = DriftLeft(L) \cup DriftLeft(Tail(todo))
    BY <1>1, OutstandingConcat
  <2>4. SyncDrift' = SyncDrift \cup SyncAts(F)
    BY DEF SyncDrift, SyncAts
  <2>5. SyncDrift' \cup DriftLeft(todo') = Unmirrored(Mirrored)
    BY <2>1, <2>2, <2>3, <2>4
  <2>6. UNION {SyncOwed(todo[i])' : i \in DOMAIN todo'} = DriftLeft(todo')
    BY SetupStays DEF DriftLeft
  <2>7. Unmirrored(Mirrored)' = Unmirrored(Mirrored)
    BY SetupStays
  <2> QED
    BY <2>5, <2>6, <2>7
<1>11. Ended'
  BY DEF Ended
<1> QED
  BY <1>7, <1>8, <1>9, <1>10, <1>11 DEF IInv
----------------------------------------------------------------------------
\* What the kinds of checks stand for

\* What a check owes to the report, and what it owes of the mirrored files.
LEMMA OwedSays ==
  ASSUME NEW t
  PROVE  /\ t.do = "start" => Owed(t) = Breaches /\ SyncOwed(t) = Unmirrored(Mirrored)
         /\ t.do = "path" => Owed(t) = PathFailures({t.on}) /\ SyncOwed(t) = {}
         /\ t.do = "content" => Owed(t) = ContentFailures({t.on}) /\ SyncOwed(t) = {}
         /\ t.do = "forbidden" => Owed(t) = ForbiddenFailures({t.on}) /\ SyncOwed(t) = {}
         /\ t.do = "pinning" => Owed(t) = PinFailures /\ SyncOwed(t) = {}
         /\ t.do = "inventory" => Owed(t) = InventoryFailures(t.on) /\ SyncOwed(t) = {}
         /\ t.do = "manifest" => Owed(t) = {} /\ SyncOwed(t) = Unmirrored(Mirrored)
         /\ t.do = "entry" => Owed(t) = {} /\ SyncOwed(t) = Unmirrored({t.on})
BY DEF Owed, SyncOwed

\* What it belongs to.
LEMMA BelongsSays ==
  ASSUME NEW t, BelongsTo(t)
  PROVE  LET block == setup.contract.types[setup.type]
         IN  /\ t.do = "path" => t.on \in ToSet(setup.contract.universal) \cup ToSet(block.paths)
             /\ t.do = "content" => t.on \in ToSet(block.content)
             /\ t.do = "forbidden" => t.on \in ToSet(block.forbidden)
             /\ t.do = "pinning" => setup.contract.enforce
             /\ t.do = "inventory" => t.on \subseteq Inventory
             /\ t.do = "manifest" => setup.template # NoTemplate
             /\ t.do = "entry" =>
                  /\ setup.template # NoTemplate
                  /\ t.on \in IF setup.template.legacy THEN ToSet(setup.template.synced) ELSE Mirrored
BY DEF BelongsTo

\* And the other way round.
LEMMA BelongsWhen ==
  ASSUME NEW x
  PROVE  LET block == setup.contract.types[setup.type]
         IN  /\ x \in ToSet(setup.contract.universal) \cup ToSet(block.paths) => BelongsTo(Do("path", x))
             /\ x \in ToSet(block.content) => BelongsTo(Do("content", x))
             /\ x \in ToSet(block.forbidden) => BelongsTo(Do("forbidden", x))
             /\ setup.contract.enforce => BelongsTo(Do("pinning", x))
             /\ x \subseteq Inventory => BelongsTo(Do("inventory", x))
             /\ setup.template # NoTemplate => BelongsTo(Do("manifest", x))
             /\ setup.template # NoTemplate
                  /\ x \in (IF setup.template.legacy THEN ToSet(setup.template.synced) ELSE Mirrored)
                  => BelongsTo(Do("entry", x))
             /\ BelongsTo(Do("start", x))
BY DEF BelongsTo, Do

\* The invariant holds at the start.
LEMMA InitIInv == Init => IInv
<1> SUFFICES ASSUME Init PROVE IInv
  OBVIOUS
<1> DEFINE t == Do("start", <<>>)
<1>1. todo = <<t>> /\ t.do = "start" /\ seen = {} /\ failed = {} /\ exit = "none"
  BY DEF Init, Do
<1>2. IsList(todo) /\ DOMAIN todo = {1} /\ todo[1] = t
  BY <1>1, ShortLists
<1>3. BelongsTo(t)
  BY BelongsWhen
<1> HIDE DEF t
<1>4. TypeOK
  BY <1>1, <1>2, <1>3, SetupsAssumption DEF Init, TypeOK
<1>5. NothingLost
  <2>1. RuleFailures = {}
    BY <1>1 DEF RuleFailures
  <2>2. UNION {Owed(todo[i]) : i \in DOMAIN todo} = Owed(t)
    BY <1>2
  <2>3. Owed(t) = Breaches
    BY <1>1, OwedSays
  <2> QED
    BY <2>1, <2>2, <2>3 DEF NothingLost
<1>6. InOrder
  <2>1. Len(todo) = 1
    BY <1>1
  <2>2. \A i \in DOMAIN todo : i = 1 /\ todo[i].do = "start"
    BY <1>1, <1>2
  <2> QED
    BY <1>1, <2>1, <2>2 DEF InOrder
<1>7. NoDriftLost
  <2>1. SyncDrift = {}
    BY <1>1 DEF SyncDrift
  <2>2. UNION {SyncOwed(todo[i]) : i \in DOMAIN todo} = SyncOwed(t)
    BY <1>2
  <2>3. SyncOwed(t) = Unmirrored(Mirrored)
    BY <1>1, OwedSays
  <2> QED
    BY <2>1, <2>2, <2>3 DEF NoDriftLost
<1>8. Ended
  BY <1>1 DEF Ended
<1> QED
  BY <1>4, <1>5, <1>6, <1>7, <1>8 DEF IInv

\* A step that ends the checker.
LEMMA EndStep ==
  ASSUME IInv, NEW code, End(code), code \in {"none", "zero", "one", "two", "crash"},
         code \in {"zero", "one"} => todo = <<>> /\ (code = "zero" <=> failed = {}),
         code = "crash" => \E i \in DOMAIN todo : Raises(todo[i])
  PROVE  IInv'
<1>1. UNCHANGED <<setup, todo, seen, failed>> /\ exit' = code
  BY DEF End
<1>2. TypeOK'
  <2>1. \A i \in DOMAIN todo' : BelongsTo(todo[i])'
    BY <1>1, SetupStays DEF IInv, TypeOK
  <2> QED
    BY <1>1, <2>1 DEF IInv, TypeOK
<1>3. NothingLost'
  <2>1. UNION {Owed(todo[i])' : i \in DOMAIN todo'} = UNION {Owed(todo[i]) : i \in DOMAIN todo}
    BY <1>1, SetupStays
  <2>2. RuleFailures' = RuleFailures
    BY <1>1 DEF RuleFailures
  <2> QED
    BY <1>1, <2>1, <2>2, SetupStays DEF IInv, NothingLost
<1>4. InOrder'
  <2>1. \A files : {n \in RepoName : \E p \in Inventory' \ files : Defines(p, n)'}
                     = {n \in RepoName : \E p \in Inventory \ files : Defines(p, n)}
    BY <1>1, SetupStays
  <2> QED
    BY <1>1, <2>1, SetupStays DEF IInv, InOrder
<1>5. NoDriftLost'
  <2>1. UNION {SyncOwed(todo[i])' : i \in DOMAIN todo'} = UNION {SyncOwed(todo[i]) : i \in DOMAIN todo}
    BY <1>1, SetupStays
  <2>2. SyncDrift' = SyncDrift
    BY <1>1 DEF SyncDrift
  <2>3. Unmirrored(Mirrored)' = Unmirrored(Mirrored)
    BY <1>1, SetupStays
  <2> QED
    BY <1>1, <2>1, <2>2, <2>3 DEF IInv, NoDriftLost
<1>6. Ended'
  BY <1>1, SetupStays DEF Ended
<1> QED
  BY <1>2, <1>3, <1>4, <1>5, <1>6 DEF IInv

\* A check that is over at once.
LEMMA FoundStep ==
  ASSUME IInv, NEW check, check # "start", At(check), NEW F, Found(F),
         OfRules(F) = Owed(Head(todo)),
         Promised => SyncAts(F) = SyncOwed(Head(todo))
  PROVE  IInv'
<1> DEFINE L == <<>>
<1>1. exit = "none" /\ todo # <<>> /\ UNCHANGED <<setup, seen, exit>> /\ failed' = failed \cup F
      /\ Head(todo).do # "start"
  BY DEF At, Found
<1>2. todo' = L \o Tail(todo)
  <2>1. Tail(todo) \in Seq(ToSet(Tail(todo)))
    BY <1>1, Behind, ListIsSeq
  <2> QED
    BY <2>1, ConcatEmptySeq DEF Found
<1>3. IsList(L) /\ ToSet(L) = {} /\ DOMAIN L = {}
  BY ShortLists
<1> HIDE DEF L
<1>4. NoInventory(L) /\ Once(L) /\ Outstanding(L) = {} /\ DriftLeft(L) = {}
  BY <1>3 DEF NoInventory, Once, Outstanding, DriftLeft
<1>5. seen' \subseteq RepoName
  BY <1>1 DEF IInv, TypeOK
<1> QED
  BY <1>1, <1>2, <1>3, <1>4, <1>5, ReplaceStep

\* The fields of a failure.
LEMMA FailureSays ==
  \A c, at, what, n :
    LET f == Failure(c, at, what, n)
    IN  f.check = c /\ f.at = at /\ f.what = what /\ f.line = n
BY DEF Failure

\* Failures of one kind.
LEMMA KindSays ==
  ASSUME NEW c, NEW F, \A f \in F : \E at, what, n : f = Failure(c, at, what, n)
  PROVE  \A f \in F : f.check = c
BY FailureSays

\* Failures of rules are no drift, and the other way round.
LEMMA KindsOfFailures ==
  ASSUME NEW F
  PROVE  /\ (\A f \in F : f.check # "sync_drift") => OfRules(F) = F /\ SyncAts(F) = {}
         /\ (\A f \in F : f.check = "sync_drift") => OfRules(F) = {}
BY DEF OfRules, SyncAts

\* A rule that does not apply is not broken.
LEMMA SkipKeeps == IInv /\ Skip => IInv'
<1> SUFFICES ASSUME IInv, Skip PROVE IInv'
  OBVIOUS
<1>1. PICK check \in {"path", "content", "forbidden"} : At(check)
  BY DEF Skip
<1> DEFINE t == Head(todo)
<1>2. t.do = check /\ ~Applies(t.on) /\ Found({})
  BY <1>1 DEF Skip, At, On
<1>3. /\ PathFailures({t.on}) = {} /\ ContentFailures({t.on}) = {} /\ ForbiddenFailures({t.on}) = {}
  BY <1>2 DEF PathFailures, ContentFailures, ForbiddenFailures
<1>4. Owed(t) = {} /\ SyncOwed(t) = {}
  BY <1>2, <1>3, OwedSays
<1>5. OfRules({}) = {} /\ SyncAts({}) = {}
  BY DEF OfRules, SyncAts
<1> QED
  BY <1>1, <1>2, <1>4, <1>5, FoundStep

\* The first check of the list, when the checker is about to crash at it.
LEMMA CrashStep ==
  ASSUME IInv, NEW check, At(check), End("crash"), Raises(Head(todo))
  PROVE  IInv'
<1>1. 1 \in DOMAIN todo /\ Head(todo) = todo[1]
  BY TailList DEF IInv, TypeOK, At
<1> QED
  BY <1>1, EndStep DEF At, On

\* The rules of a setup are well formed.
LEMMA RulesOf ==
  ASSUME IInv
  PROVE  LET block == setup.contract.types[setup.type]
         IN  /\ IsRules(setup.contract.universal, {"path"}) /\ IsRules(block.paths, {"path"})
             /\ IsList(block.content) /\ IsRules(block.forbidden, {})
             /\ IsTree(setup.tree)
             /\ setup.template # NoTemplate => IsTemplate(setup.template)
BY DEF IInv, TypeOK, IsSetup, IsRules

\* A rule about a path.
LEMMA CheckPathKeeps == IInv /\ CheckPath => IInv'
<1> SUFFICES ASSUME IInv, CheckPath PROVE IInv'
  OBVIOUS
<1> DEFINE t == Head(todo)
           r == t.on
           ok == IF "type" \in DOMAIN r /\ r.type = "directory"
                   THEN IsDir(setup.tree, r.path) ELSE IsFile(setup.tree, r.path)
           F == IF ok THEN {} ELSE {Failure("path", r.path, "", 0)}
<1>1. At("path") /\ Applies(r) /\ On = r /\ t.do = "path"
  BY DEF CheckPath, On, At
<1>2. CASE Blocked(r.path)
  <2>1. End("crash")
    BY <1>1, <1>2 DEF CheckPath
  <2>2. "path" \in DOMAIN r
    <3>1. BelongsTo(t)
      BY Behind, <1>1 DEF At
    <3>2. r \in ToSet(setup.contract.universal) \cup ToSet(setup.contract.types[setup.type].paths)
      BY <1>1, <3>1, BelongsSays
    <3> QED
      BY <3>2, RulesOf DEF IsRules
  <2>3. Raises(t)
    BY <1>1, <1>2, <2>2 DEF Raises
  <2> QED
    BY <1>1, <2>1, <2>3, CrashStep
<1>3. CASE ~Blocked(r.path)
  <2>1. Found(F)
    BY <1>1, <1>3 DEF CheckPath
  <2>2. F = PathFailures({r})
    BY <1>1 DEF PathFailures, IsDir, IsFile
  <2>3. \A f \in F : f.check # "sync_drift"
    <3>1. \A f \in F : \E at, what, n : f = Failure("path", at, what, n)
      OBVIOUS
    <3> HIDE DEF F
    <3> QED
      BY <3>1, KindSays
  <2> HIDE DEF F
  <2>4. OfRules(F) = Owed(t) /\ SyncAts(F) = SyncOwed(t)
    BY <1>1, <2>2, <2>3, OwedSays, KindsOfFailures
  <2> HIDE DEF t
  <2> QED
    BY <1>1, <2>1, <2>4, FoundStep DEF t
<1> QED
  BY <1>2, <1>3
\* A rule about a file's text.
LEMMA CheckContentRuleKeeps == IInv /\ CheckContentRule => IInv'
<1> SUFFICES ASSUME IInv, CheckContentRule PROVE IInv'
  OBVIOUS
<1> DEFINE t == Head(todo)
           r == t.on
           ok == /\ IsFile(setup.tree, r.file)
                 /\ (r.pattern \in setup.tree.files[r.file].says) = r.must_match
           F == IF ok THEN {} ELSE {Failure("content", r.file, r.pattern, 0)}
<1>1. At("content") /\ Applies(r) /\ On = r /\ t.do = "content"
  BY DEF CheckContentRule, On, At
<1>2. Found(F)
  BY <1>1 DEF CheckContentRule
<1>3. F = ContentFailures({r})
  BY <1>1 DEF ContentFailures, IsFile
<1>4. \A f \in F : f.check # "sync_drift"
  BY FailureSays
<1> HIDE DEF F
<1>5. OfRules(F) = Owed(t) /\ SyncAts(F) = SyncOwed(t)
  BY <1>1, <1>3, <1>4, OwedSays, KindsOfFailures
<1> HIDE DEF t
<1> QED
  BY <1>1, <1>2, <1>5, FoundStep DEF t

\* A rule about what must not be there.
LEMMA CheckForbiddenPathKeeps == IInv /\ CheckForbiddenPath => IInv'
<1> SUFFICES ASSUME IInv, CheckForbiddenPath PROVE IInv'
  OBVIOUS
<1> DEFINE t == Head(todo)
           r == t.on
           matches == {p \in Glob[r.glob] : Exists(setup.tree, p)} \ Allowed(r)
           Malform == {Failure("forbidden", <<>>, "<malformed-entry>", 0)}
           OfPath == IF Exists(setup.tree, r.path) THEN {Failure("forbidden", r.path, "", 0)} ELSE {}
           OfGlob == IF matches # {} THEN {Failure("forbidden", <<>>, r.glob, 0)} ELSE {}
<1>1. At("forbidden") /\ Applies(r) /\ On = r /\ t.do = "forbidden"
  BY DEF CheckForbiddenPath, On, At
<1>2. ASSUME NEW F, Found(F), F = ForbiddenFailures({r}), \A f \in F : f.check # "sync_drift"
      PROVE  IInv'
  <2>1. OfRules(F) = Owed(t) /\ SyncAts(F) = SyncOwed(t)
    BY <1>1, <1>2, OwedSays, KindsOfFailures
  <2> HIDE DEF t
  <2> QED
    BY <1>1, <1>2, <2>1, FoundStep DEF t
<1>3. CASE Malformed(r)
  <2>1. Found(Malform)
    BY <1>1, <1>3 DEF CheckForbiddenPath
  <2>2. Malform = ForbiddenFailures({r})
    BY <1>1, <1>3 DEF ForbiddenFailures
  <2>3. \A f \in Malform : f.check # "sync_drift"
    BY FailureSays
  <2> HIDE DEF Malform
  <2> QED
    BY <1>2, <2>1, <2>2, <2>3
<1>4. CASE ~Malformed(r) /\ "path" \in DOMAIN r /\ Blocked(r.path)
  <2>1. End("crash")
    BY <1>1, <1>4 DEF CheckForbiddenPath
  <2>2. Raises(t)
    BY <1>1, <1>4 DEF Raises, At
  <2> QED
    BY <1>1, <2>1, <2>2, CrashStep
<1>5. CASE ~Malformed(r) /\ "path" \in DOMAIN r /\ ~Blocked(r.path)
  <2>1. Found(OfPath)
    BY <1>1, <1>5 DEF CheckForbiddenPath
  <2>2. "glob" \notin DOMAIN r
    BY <1>5 DEF Malformed
  <2>3. OfPath = ForbiddenFailures({r})
    BY <1>1, <1>5, <2>2 DEF ForbiddenFailures
  <2>4. \A f \in OfPath : f.check # "sync_drift"
    <3>1. \A f \in OfPath : \E at, what, n : f = Failure("forbidden", at, what, n)
      OBVIOUS
    <3> HIDE DEF OfPath
    <3> QED
      BY <3>1, KindSays
  <2> HIDE DEF OfPath
  <2> QED
    BY <1>2, <2>1, <2>3, <2>4
<1>6. CASE ~Malformed(r) /\ "path" \notin DOMAIN r
  <2>1. Found(OfGlob)
    BY <1>1, <1>6 DEF CheckForbiddenPath
  <2>2. "glob" \in DOMAIN r
    BY <1>6 DEF Malformed
  <2>3. matches # {} <=> \E p \in Glob[r.glob] : Exists(setup.tree, p) /\ p \notin Allowed(r)
    OBVIOUS
  <2> HIDE DEF matches
  <2>4. OfGlob = ForbiddenFailures({r})
    BY <1>1, <1>6, <2>2, <2>3 DEF ForbiddenFailures
  <2>5. \A f \in OfGlob : f.check # "sync_drift"
    BY FailureSays
  <2> HIDE DEF OfGlob
  <2> QED
    BY <1>2, <2>1, <2>4, <2>5
<1> QED
  BY <1>3, <1>4, <1>5, <1>6

\* The pins of the workflows.
LEMMA CheckWorkflowPinningKeeps == IInv /\ CheckWorkflowPinning => IInv'
<1> SUFFICES ASSUME IInv, CheckWorkflowPinning PROVE IInv'
  OBVIOUS
<1> DEFINE t == Head(todo)
<1>1. At("pinning") /\ t.do = "pinning" /\ exit = "none" /\ todo # <<>>
  BY DEF CheckWorkflowPinning, At
<1>2. setup.contract.enforce
  BY <1>1, Behind, BelongsSays
<1>c. CASE Unreadable(setup.tree)
  <2>1. End("crash")
    BY <1>c DEF CheckWorkflowPinning
  <2>2. Raises(t)
    BY <1>1, <1>c DEF Raises
  <2> QED
    BY <1>1, <2>1, <2>2, CrashStep
<1> SUFFICES ASSUME ~Unreadable(setup.tree) PROVE IInv'
  BY <1>c
<1>3. Found(PinFailures)
  BY <1>1, <1>2 DEF CheckWorkflowPinning, PinFailures, IsDir
<1>4. \A f \in PinFailures : f.check # "sync_drift"
  <2>1. \A f \in PinFailures :
          (\E at, what, n : f = Failure("pin", at, what, n)) \/ f = Failure("pinning", Workflows, "", 0)
    BY DEF PinFailures
  <2> TAKE f \in PinFailures
  <2>2. CASE f = Failure("pinning", Workflows, "", 0)
    BY <2>2 DEF Failure
  <2>3. ASSUME NEW at, NEW what, NEW n, f = Failure("pin", at, what, n) PROVE f.check # "sync_drift"
    <3>1. f.check = "pin"
      BY <2>3 DEF Failure
    <3> QED
      BY <3>1
  <2> QED
    BY <2>1, <2>2, <2>3
<1>5. OfRules(PinFailures) = Owed(t) /\ SyncAts(PinFailures) = SyncOwed(t)
  BY <1>1, <1>4, OwedSays, KindsOfFailures
<1> HIDE DEF t
<1> QED
  BY <1>1, <1>3, <1>5, FoundStep DEF t

\* Nothing is left of the inventory.
LEMMA EndInventoryKeeps == IInv /\ EndInventory => IInv'
<1> SUFFICES ASSUME IInv, EndInventory PROVE IInv'
  OBVIOUS
<1> DEFINE t == Head(todo)
<1>1. At("inventory") /\ t.do = "inventory" /\ t.on = {} /\ Found({})
  BY DEF EndInventory, At, On
<1>2. InventoryFailures({}) = {}
  BY DEF InventoryFailures
<1>3. Owed(t) = {} /\ SyncOwed(t) = {}
  BY <1>1, <1>2, OwedSays
<1>4. OfRules({}) = {} /\ SyncAts({}) = {}
  BY DEF OfRules, SyncAts
<1> QED
  BY <1>1, <1>3, <1>4, FoundStep

\* The end of main.
LEMMA ReportKeeps == IInv /\ Report => IInv'
<1> SUFFICES ASSUME IInv, Report PROVE IInv'
  OBVIOUS
<1> DEFINE code == IF failed = {} THEN "zero" ELSE "one"
<1>1. End(code) /\ todo = <<>>
  BY DEF Report
<1>2. code \in {"zero", "one"} /\ (code = "zero" <=> failed = {})
  OBVIOUS
<1> HIDE DEF code
<1> QED
  BY <1>1, <1>2, EndStep
----------------------------------------------------------------------------
\* The order of main

\* Failures are judged rule by rule, and file by file.
LEMMA RuleByRule ==
  ASSUME NEW R
  PROVE  /\ PathFailures(R) = UNION {PathFailures({r}) : r \in R}
         /\ ContentFailures(R) = UNION {ContentFailures({r}) : r \in R}
         /\ ForbiddenFailures(R) = UNION {ForbiddenFailures({r}) : r \in R}
         /\ Unmirrored(R) = UNION {Unmirrored({r}) : r \in R}
<1>1. PathFailures(R) = UNION {PathFailures({r}) : r \in R}
  <2> DEFINE Bad(q) == /\ Applies(q)
                       /\ q.path \notin IF "type" \in DOMAIN q /\ q.type = "directory"
                                        THEN setup.tree.dirs ELSE DOMAIN setup.tree.files
             Fail(q) == Failure("path", q.path, "", 0)
             B == {q \in R : Bad(q)}
  <2>1. \A S : PathFailures(S) = {Fail(r) : r \in {q \in S : Bad(q)}}
    BY DEF PathFailures
  <2>2. \A S \in SUBSET R : {q \in S : Bad(q)} = S \cap B
    OBVIOUS
  <2> HIDE DEF Bad, Fail, B
  <2>3. \A S \in SUBSET R : PathFailures(S) = {Fail(r) : r \in S \cap B}
    BY <2>1, <2>2
  <2>4. \A r \in R : {r} \in SUBSET R /\ R \in SUBSET R
    OBVIOUS
  <2>5. \A S \in SUBSET R : \A f : f \in PathFailures(S) <=> \E r \in S \cap B : f = Fail(r)
    BY <2>3
  <2>6. ASSUME NEW f \in PathFailures(R) PROVE \E r \in R : f \in PathFailures({r})
    <3>1. PICK r \in R \cap B : f = Fail(r)
      BY <2>4, <2>5
    <3> QED
      BY <2>4, <2>5, <3>1
  <2>7. ASSUME NEW r \in R, NEW f \in PathFailures({r}) PROVE f \in PathFailures(R)
    <3>1. r \in B /\ f = Fail(r)
      BY <2>4, <2>5
    <3> QED
      BY <2>4, <2>5, <3>1
  <2> QED
    BY <2>6, <2>7
<1>2. ContentFailures(R) = UNION {ContentFailures({r}) : r \in R}
  BY DEF ContentFailures
<1>3. ForbiddenFailures(R) = UNION {ForbiddenFailures({r}) : r \in R}
  <2> DEFINE BadPath(q) == /\ Applies(q) /\ ~Malformed(q) /\ "path" \in DOMAIN q
                           /\ Exists(setup.tree, q.path)
             BadGlob(q) == /\ Applies(q)
                           /\ \/ Malformed(q)
                              \/ /\ "glob" \in DOMAIN q
                                 /\ \E p \in Glob[q.glob] : Exists(setup.tree, p) /\ p \notin Allowed(q)
             OfPath(q) == Failure("forbidden", q.path, "", 0)
             OfGlob(q) == Failure("forbidden", <<>>, IF Malformed(q) THEN "<malformed-entry>" ELSE q.glob, 0)
             B == {q \in R : BadPath(q)}
             C == {q \in R : BadGlob(q)}
  <2>1. \A S : ForbiddenFailures(S) = {OfPath(r) : r \in {q \in S : BadPath(q)}}
                                        \cup {OfGlob(r) : r \in {q \in S : BadGlob(q)}}
    BY DEF ForbiddenFailures
  <2>2. \A S \in SUBSET R : {q \in S : BadPath(q)} = S \cap B /\ {q \in S : BadGlob(q)} = S \cap C
    OBVIOUS
  <2> HIDE DEF BadPath, BadGlob, OfPath, OfGlob, B, C
  <2>3. \A S \in SUBSET R : ForbiddenFailures(S) = {OfPath(r) : r \in S \cap B} \cup {OfGlob(r) : r \in S \cap C}
    BY <2>1, <2>2
  <2>4. \A r \in R : {r} \in SUBSET R /\ R \in SUBSET R
    OBVIOUS
  <2>5. \A S \in SUBSET R : \A f : f \in ForbiddenFailures(S) <=>
          (\E r \in S \cap B : f = OfPath(r)) \/ (\E r \in S \cap C : f = OfGlob(r))
    BY <2>3
  <2>6. ASSUME NEW f \in ForbiddenFailures(R) PROVE \E r \in R : f \in ForbiddenFailures({r})
    <3>1. CASE \E r \in R \cap B : f = OfPath(r)
      <4>1. PICK r \in R \cap B : f = OfPath(r)
        BY <3>1
      <4> QED
        BY <2>4, <2>5, <4>1
    <3>2. CASE \E r \in R \cap C : f = OfGlob(r)
      <4>1. PICK r \in R \cap C : f = OfGlob(r)
        BY <3>2
      <4> QED
        BY <2>4, <2>5, <4>1
    <3> QED
      BY <2>4, <2>5, <3>1, <3>2
  <2>7. ASSUME NEW r \in R, NEW f \in ForbiddenFailures({r}) PROVE f \in ForbiddenFailures(R)
    <3>1. (r \in B /\ f = OfPath(r)) \/ (r \in C /\ f = OfGlob(r))
      BY <2>4, <2>5
    <3> QED
      BY <2>4, <2>5, <3>1
  <2> QED
    BY <2>6, <2>7
<1>4. Unmirrored(R) = UNION {Unmirrored({r}) : r \in R}
  BY DEF Unmirrored
<1> QED
  BY <1>1, <1>2, <1>3, <1>4

\* What a check is, and what it looks at.
LEMMA DoSays == \A c, x : Do(c, x).do = c /\ Do(c, x).on = x
BY DEF Do

\* What the checks of the elements of a list owe.
LEMMA EachOwes ==
  ASSUME NEW l, IsList(l)
  PROVE  /\ Outstanding(Each("path", l)) = PathFailures(ToSet(l))
         /\ Outstanding(Each("content", l)) = ContentFailures(ToSet(l))
         /\ Outstanding(Each("forbidden", l)) = ForbiddenFailures(ToSet(l))
         /\ Outstanding(Each("entry", l)) = {}
         /\ DriftLeft(Each("entry", l)) = Unmirrored(ToSet(l))
         /\ \A c \in {"path", "content", "forbidden"} : DriftLeft(Each(c, l)) = {}
<1>1. \A c : /\ Outstanding(Each(c, l)) = UNION {Owed(t) : t \in {Do(c, x) : x \in ToSet(l)}}
             /\ DriftLeft(Each(c, l)) = UNION {SyncOwed(t) : t \in {Do(c, x) : x \in ToSet(l)}}
  BY EachList, OutstandingOf
<1>2. \A c : /\ Outstanding(Each(c, l)) = UNION {Owed(Do(c, x)) : x \in ToSet(l)}
             /\ DriftLeft(Each(c, l)) = UNION {SyncOwed(Do(c, x)) : x \in ToSet(l)}
  BY <1>1
<1>3. \A x : /\ Owed(Do("path", x)) = PathFailures({x})
             /\ Owed(Do("content", x)) = ContentFailures({x})
             /\ Owed(Do("forbidden", x)) = ForbiddenFailures({x})
             /\ Owed(Do("entry", x)) = {}
             /\ SyncOwed(Do("entry", x)) = Unmirrored({x})
             /\ \A c \in {"path", "content", "forbidden"} : SyncOwed(Do(c, x)) = {}
  BY DoSays, OwedSays
<1>4. Outstanding(Each("path", l)) = UNION {PathFailures({x}) : x \in ToSet(l)}
  <2>1. \A x : Owed(Do("path", x)) = PathFailures({x})
    BY <1>3
  <2>2. Outstanding(Each("path", l)) = UNION {Owed(Do("path", x)) : x \in ToSet(l)}
    BY <1>2
  <2>3. \A f : f \in Outstanding(Each("path", l)) <=> \E x \in ToSet(l) : f \in PathFailures({x})
    BY <2>1, <2>2
  <2> QED
    BY <2>3
<1>6. Outstanding(Each("content", l)) = UNION {ContentFailures({x}) : x \in ToSet(l)}
  <2>1. \A x : Owed(Do("content", x)) = ContentFailures({x})
    BY <1>3
  <2>2. Outstanding(Each("content", l)) = UNION {Owed(Do("content", x)) : x \in ToSet(l)}
    BY <1>2
  <2>3. \A f : f \in Outstanding(Each("content", l)) <=> \E x \in ToSet(l) : f \in ContentFailures({x})
    BY <2>1, <2>2
  <2> QED
    BY <2>3
<1>7. Outstanding(Each("forbidden", l)) = UNION {ForbiddenFailures({x}) : x \in ToSet(l)}
  <2>1. \A x : Owed(Do("forbidden", x)) = ForbiddenFailures({x})
    BY <1>3
  <2>2. Outstanding(Each("forbidden", l)) = UNION {Owed(Do("forbidden", x)) : x \in ToSet(l)}
    BY <1>2
  <2>3. \A f : f \in Outstanding(Each("forbidden", l)) <=> \E x \in ToSet(l) : f \in ForbiddenFailures({x})
    BY <2>1, <2>2
  <2> QED
    BY <2>3
<1>8. Outstanding(Each("entry", l)) = UNION {{} : x \in ToSet(l)}
  BY <1>2, <1>3
<1>9. DriftLeft(Each("entry", l)) = UNION {Unmirrored({x}) : x \in ToSet(l)}
  <2>1. \A x : SyncOwed(Do("entry", x)) = Unmirrored({x})
    BY <1>3
  <2>2. DriftLeft(Each("entry", l)) = UNION {SyncOwed(Do("entry", x)) : x \in ToSet(l)}
    BY <1>2
  <2>3. \A f : f \in DriftLeft(Each("entry", l)) <=> \E x \in ToSet(l) : f \in Unmirrored({x})
    BY <2>1, <2>2
  <2> QED
    BY <2>3
<1>10. \A c \in {"path", "content", "forbidden"} :
         DriftLeft(Each(c, l)) = UNION {{} : x \in ToSet(l)}
  BY <1>2, <1>3
<1>5. UNION {{} : x \in ToSet(l)} = {}
  OBVIOUS
<1> QED
  BY <1>4, <1>5, <1>6, <1>7, <1>8, <1>9, <1>10, RuleByRule

\* The inventory of a runner is what the inventory directories hold.
LEMMA InventoryOf ==
  ASSUME IInv
  PROVE  /\ Inventory = IF setup.type = "runner" THEN InventoryFiles(setup.tree) ELSE {}
         /\ Inventory \subseteq ToSet(Sorted)
<1>1. InventoryFiles(setup.tree) \subseteq ToSet(Sorted)
  BY DEF IInv, TypeOK, IsSetup
<1>2. Inventory = IF setup.type = "runner" THEN InventoryFiles(setup.tree) ELSE {}
  BY DEF Inventory, InventoryFiles
<1> QED
  BY <1>1, <1>2

\* One part of the program.
IsPart(l) ==
  /\ IsList(l)
  /\ \A t \in ToSet(l) : /\ BelongsTo(t) /\ t.do # "start"
                         /\ t.do = "inventory" => InPlace(t.on, {})

\* The parts for the rules.
LEMMA RuleParts ==
  ASSUME IInv, NEW block, block = setup.contract.types[setup.type],
         NEW paths, paths = setup.contract.universal \o block.paths
  PROVE  /\ IsPart(Each("path", paths)) /\ NoInventory(Each("path", paths))
         /\ IsPart(Each("content", block.content)) /\ NoInventory(Each("content", block.content))
         /\ IsPart(Each("forbidden", block.forbidden)) /\ NoInventory(Each("forbidden", block.forbidden))
         /\ IsList(paths)
<1>1. /\ IsList(setup.contract.universal) /\ IsList(block.paths)
      /\ IsList(block.content) /\ IsList(block.forbidden)
  BY RulesOf DEF IsRules
<1>2. IsList(paths) /\ ToSet(paths) = ToSet(setup.contract.universal) \cup ToSet(block.paths)
  BY <1>1, ConcatList
<1>3. /\ \A x \in ToSet(paths) : BelongsTo(Do("path", x))
      /\ \A x \in ToSet(block.content) : BelongsTo(Do("content", x))
      /\ \A x \in ToSet(block.forbidden) : BelongsTo(Do("forbidden", x))
  BY <1>2, BelongsWhen
<1>4. ASSUME NEW c, c \notin {"start", "inventory"}, NEW l, IsList(l),
             \A x \in ToSet(l) : BelongsTo(Do(c, x))
      PROVE  IsPart(Each(c, l)) /\ NoInventory(Each(c, l))
  <2>1. IsList(Each(c, l)) /\ ToSet(Each(c, l)) = {Do(c, x) : x \in ToSet(l)}
    BY <1>4, EachList
  <2>2. \A t \in ToSet(Each(c, l)) : BelongsTo(t) /\ t.do = c
    BY <1>4, <2>1, DoSays
  <2> QED
    BY <1>4, <2>1, <2>2, NoInventoryOf DEF IsPart
<1> QED
  BY <1>1, <1>2, <1>3, <1>4

\* A part with a single check, or with none.
LEMMA SinglePart ==
  ASSUME NEW yes \in BOOLEAN, NEW t, NEW l, l = IF yes THEN <<t>> ELSE <<>>,
         yes => BelongsTo(t),
         t.do # "start", yes /\ t.do = "inventory" => InPlace(t.on, {})
  PROVE  /\ IsPart(l) /\ Once(l) /\ (t.do # "inventory" => NoInventory(l))
         /\ Outstanding(l) = (IF yes THEN Owed(t) ELSE {})
         /\ DriftLeft(l) = (IF yes THEN SyncOwed(t) ELSE {})
<1>1. CASE yes
  <2>1. IsList(l) /\ ToSet(l) = {t} /\ DOMAIN l = {1} /\ l[1] = t
    BY <1>1, ShortLists
  <2> QED
    BY <1>1, <2>1 DEF IsPart, Once, NoInventory, Outstanding, DriftLeft
<1>2. CASE ~yes
  <2>1. IsList(l) /\ ToSet(l) = {} /\ DOMAIN l = {}
    BY <1>2, ShortLists
  <2> QED
    BY <1>2, <2>1 DEF IsPart, Once, NoInventory, Outstanding, DriftLeft
<1> QED
  BY <1>1, <1>2

\* Parts put together.
LEMMA PartsConcat ==
  ASSUME NEW p, NEW q, IsPart(p), IsPart(q), Once(p), Once(q), NoInventory(p) \/ NoInventory(q)
  PROVE  /\ IsPart(p \o q) /\ Once(p \o q)
         /\ NoInventory(p) /\ NoInventory(q) => NoInventory(p \o q)
         /\ Outstanding(p \o q) = Outstanding(p) \cup Outstanding(q)
         /\ DriftLeft(p \o q) = DriftLeft(p) \cup DriftLeft(q)
<1>1. IsList(p \o q) /\ ToSet(p \o q) = ToSet(p) \cup ToSet(q)
  BY ConcatList DEF IsPart
<1>2. IsPart(p \o q)
  BY <1>1 DEF IsPart
<1>3. NoInventory(p) /\ NoInventory(q) => NoInventory(p \o q)
  BY <1>1, NoInventoryOf
<1> QED
  BY <1>2, <1>3, OnceConcat, OutstandingConcat DEF IsPart

\* The program finds everything that is broken.
LEMMA ProgramSays ==
  ASSUME IInv
  PROVE  /\ IsPart(Program(setup)) /\ Once(Program(setup))
         /\ Outstanding(Program(setup)) = Breaches
         /\ Promised => DriftLeft(Program(setup)) = Unmirrored(Mirrored)
<1> DEFINE block == setup.contract.types[setup.type]
           paths == setup.contract.universal \o block.paths
           runner == setup.type = "runner"
           next == setup.template # NoTemplate
           enforce == setup.contract.enforce = TRUE
           A == Each("path", paths)
           B == Each("content", block.content)
           C == Each("forbidden", block.forbidden)
           pin == Do("pinning", <<>>)
           inv == Do("inventory", InventoryFiles(setup.tree))
           man == Do("manifest", <<>>)
           D == IF setup.contract.enforce THEN <<pin>> ELSE <<>>
           E == IF runner THEN <<inv>> ELSE <<>>
           G == IF next THEN <<man>> ELSE <<>>
<1>1. Program(setup) = A \o B \o C \o D \o E \o G
  BY DEF Program
<1>2. /\ IsPart(A) /\ NoInventory(A) /\ IsPart(B) /\ NoInventory(B)
      /\ IsPart(C) /\ NoInventory(C)
      /\ IsList(paths) /\ IsList(block.content) /\ IsList(block.forbidden)
  BY RuleParts, RulesOf DEF IsRules
<1>3. /\ Outstanding(A) = PathFailures(ToSet(paths)) /\ DriftLeft(A) = {}
      /\ Outstanding(B) = ContentFailures(ToSet(block.content)) /\ DriftLeft(B) = {}
      /\ Outstanding(C) = ForbiddenFailures(ToSet(block.forbidden)) /\ DriftLeft(C) = {}
  BY <1>2, EachOwes
<1>4. /\ IsPart(D) /\ NoInventory(D) /\ Outstanding(D) = PinFailures /\ DriftLeft(D) = {}
  <2>1. pin.do = "pinning"
    BY DoSays
  <2>2. CASE setup.contract.enforce
    <3>1. D = <<pin>> /\ BelongsTo(pin)
      BY <2>2, BelongsWhen
    <3>2. IsList(D) /\ ToSet(D) = {pin} /\ DOMAIN D = {1} /\ D[1] = pin
      BY <3>1, ShortLists
    <3>3. Owed(pin) = PinFailures /\ SyncOwed(pin) = {}
      BY <2>1, OwedSays
    <3> HIDE DEF pin, D
    <3> QED
      BY <2>1, <3>1, <3>2, <3>3 DEF IsPart, NoInventory, Outstanding, DriftLeft
  <2>3. CASE ~setup.contract.enforce
    <3>1. IsList(D) /\ ToSet(D) = {} /\ DOMAIN D = {}
      BY <2>3, ShortLists
    <3>2. PinFailures = {}
      BY <2>3 DEF PinFailures
    <3> HIDE DEF D
    <3> QED
      BY <3>1, <3>2 DEF IsPart, NoInventory, Outstanding, DriftLeft
  <2> QED
    BY <2>2, <2>3
<1>5. /\ IsPart(E) /\ Once(E) /\ Outstanding(E) = InventoryFailures(Inventory) /\ DriftLeft(E) = {}
  <2>1. inv.do = "inventory" /\ inv.on = InventoryFiles(setup.tree)
    BY DoSays
  <2>2. runner => inv.on = Inventory
    BY <2>1, InventoryOf
  <2>3. runner => BelongsTo(inv) /\ InPlace(inv.on, {})
    <3>1. Inventory \ Inventory = {}
      OBVIOUS
    <3>2. InPlace(Inventory, {})
      BY <3>1 DEF InPlace
    <3> QED
      BY <2>1, <2>2, <3>2, BelongsWhen
  <2>4. ~runner => InventoryFailures(Inventory) = {}
    BY InventoryOf DEF InventoryFailures
  <2>5. Owed(inv) = InventoryFailures(inv.on) /\ SyncOwed(inv) = {}
    BY <2>1, OwedSays
  <2> HIDE DEF inv
  <2>6. /\ IsPart(E) /\ Once(E)
        /\ Outstanding(E) = (IF runner THEN Owed(inv) ELSE {})
        /\ DriftLeft(E) = (IF runner THEN SyncOwed(inv) ELSE {})
    BY <2>1, <2>3, SinglePart
  <2> QED
    BY <2>2, <2>4, <2>5, <2>6
<1>6. /\ IsPart(G) /\ NoInventory(G) /\ Outstanding(G) = {}
      /\ DriftLeft(G) = (IF next THEN Unmirrored(Mirrored) ELSE {})
  <2>1. man.do = "manifest" /\ (next => BelongsTo(man))
    BY DoSays, BelongsWhen
  <2>2. Owed(man) = {} /\ SyncOwed(man) = Unmirrored(Mirrored)
    BY <2>1, OwedSays
  <2> HIDE DEF man
  <2>3. /\ IsPart(G) /\ NoInventory(G)
        /\ Outstanding(G) = (IF next THEN Owed(man) ELSE {})
        /\ DriftLeft(G) = (IF next THEN SyncOwed(man) ELSE {})
    BY <2>1, SinglePart
  <2> QED
    BY <2>2, <2>3
<1> HIDE DEF A, B, C, D, E, G
<1>7. Once(A) /\ Once(B) /\ Once(C) /\ Once(D) /\ Once(G)
  BY <1>2, <1>4, <1>6, NoInventoryOf
<1>8. /\ IsPart(A \o B) /\ NoInventory(A \o B) /\ Once(A \o B)
      /\ Outstanding(A \o B) = Outstanding(A) \cup Outstanding(B)
      /\ DriftLeft(A \o B) = DriftLeft(A) \cup DriftLeft(B)
  BY <1>2, <1>7, PartsConcat
<1>9. /\ IsPart(A \o B \o C) /\ NoInventory(A \o B \o C) /\ Once(A \o B \o C)
      /\ Outstanding(A \o B \o C) = Outstanding(A \o B) \cup Outstanding(C)
      /\ DriftLeft(A \o B \o C) = DriftLeft(A \o B) \cup DriftLeft(C)
  BY <1>2, <1>7, <1>8, PartsConcat
<1>10. /\ IsPart(A \o B \o C \o D) /\ NoInventory(A \o B \o C \o D) /\ Once(A \o B \o C \o D)
       /\ Outstanding(A \o B \o C \o D) = Outstanding(A \o B \o C) \cup Outstanding(D)
       /\ DriftLeft(A \o B \o C \o D) = DriftLeft(A \o B \o C) \cup DriftLeft(D)
  BY <1>4, <1>7, <1>9, PartsConcat
<1>11. /\ IsPart(A \o B \o C \o D \o E) /\ Once(A \o B \o C \o D \o E)
       /\ Outstanding(A \o B \o C \o D \o E) = Outstanding(A \o B \o C \o D) \cup Outstanding(E)
       /\ DriftLeft(A \o B \o C \o D \o E) = DriftLeft(A \o B \o C \o D) \cup DriftLeft(E)
  BY <1>5, <1>10, PartsConcat
<1>12. /\ IsPart(Program(setup)) /\ Once(Program(setup))
       /\ Outstanding(Program(setup)) = Outstanding(A \o B \o C \o D \o E) \cup Outstanding(G)
       /\ DriftLeft(Program(setup)) = DriftLeft(A \o B \o C \o D \o E) \cup DriftLeft(G)
  BY <1>1, <1>6, <1>7, <1>11, PartsConcat
<1>13. Outstanding(Program(setup)) = Breaches
  <2>1. Outstanding(Program(setup)) = Outstanding(A) \cup Outstanding(B) \cup Outstanding(C)
          \cup Outstanding(D) \cup Outstanding(E) \cup Outstanding(G)
    BY <1>8, <1>9, <1>10, <1>11, <1>12
  <2>2. Breaches = PathFailures(ToSet(paths)) \cup ContentFailures(ToSet(block.content))
          \cup ForbiddenFailures(ToSet(block.forbidden)) \cup PinFailures
          \cup InventoryFailures(Inventory)
    BY DEF Breaches
  <2> QED
    BY <1>3, <1>4, <1>5, <1>6, <2>1, <2>2
<1>14. Promised => DriftLeft(Program(setup)) = Unmirrored(Mirrored)
  <2>1. DriftLeft(Program(setup)) = DriftLeft(A) \cup DriftLeft(B) \cup DriftLeft(C)
          \cup DriftLeft(D) \cup DriftLeft(E) \cup DriftLeft(G)
    BY <1>8, <1>9, <1>10, <1>11, <1>12
  <2>2. Promised => next
    BY DEF Promised
  <2> QED
    BY <1>3, <1>4, <1>5, <1>6, <2>1, <2>2
<1> QED
  BY <1>12, <1>13, <1>14

\* The list of checks is put together.
LEMMA StartKeeps == IInv /\ Start => IInv'
<1> SUFFICES ASSUME IInv, Start PROVE IInv'
  OBVIOUS
<1> DEFINE t == Head(todo)
<1>1. exit = "none" /\ todo # <<>> /\ t.do = "start"
  BY DEF Start, At
<1>2. CASE setup.readable
  <2> DEFINE L == Program(setup)
  <2>1. todo' = L /\ UNCHANGED <<setup, seen, failed, exit>>
    BY <1>2 DEF Start
  <2>2. seen = {} /\ Tail(todo) = <<>>
    BY <1>1, Behind
  <2>3. IsPart(L) /\ Once(L) /\ Outstanding(L) = Breaches
        /\ (Promised => DriftLeft(L) = Unmirrored(Mirrored))
    BY ProgramSays
  <2>4. Owed(t) = Breaches /\ SyncOwed(t) = Unmirrored(Mirrored)
    BY <1>1, OwedSays
  <2>5. IsList(L)
    BY <2>3 DEF IsPart
  <2> HIDE DEF L
  <2>6. todo' = L \o Tail(todo)
    BY <2>1, <2>2, <2>5, ListIsSeq, ConcatEmptySeq
  <2>7. failed' = failed \cup {} /\ OfRules({}) = {} /\ SyncAts({}) = {}
    BY <2>1 DEF OfRules, SyncAts
  <2>8. \A x \in ToSet(L) : /\ BelongsTo(x) /\ x.do # "start"
                            /\ x.do = "inventory" => InPlace(x.on, seen')
    BY <2>1, <2>2, <2>3 DEF IsPart
  <2>9. seen' \subseteq RepoName
    BY <2>1, <2>2
  <2>10. OfRules({}) \cup Outstanding(L) = Owed(t)
         /\ (Promised => SyncAts({}) \cup DriftLeft(L) = SyncOwed(t))
    BY <2>3, <2>4, <2>7
  <2> QED
    BY <1>1, <2>1, <2>3, <2>5, <2>6, <2>7, <2>8, <2>9, <2>10, ReplaceStep
<1>3. CASE ~setup.readable
  <2>1. End("two")
    BY <1>3 DEF Start
  <2> QED
    BY <2>1, EndStep
<1> QED
  BY <1>2, <1>3
----------------------------------------------------------------------------
\* The mirrored files

\* What a manifest that passes its gate says of the entries to compare.
LEMMA PassingManifest ==
  ASSUME NEW template, NEW yes \in BOOLEAN, ManifestPasses(template, yes)
  PROVE  LET m == template.manifest
             key == ComparedKey(m)
         IN  /\ m.is = "object" /\ m.version \in {"1", "2"}
             /\ key \in DOMAIN m.lists /\ m.lists[key] # NotAList
             /\ \A e \in ToSet(m.lists[key]) :
                  DOMAIN e = {"source", "target"} /\ e.source \in DOMAIN template.tree.files
<1> DEFINE m == template.manifest
           key == ComparedKey(m)
<1>1. /\ m.is = "object" /\ m.version \in {"1", "2"}
      /\ DOMAIN m.lists = KeysOf(m)
      /\ \A k \in KeysOf(m) : m.lists[k] # NotAList
      /\ \A k \in KeysOf(m) : ValidateEntries(m.lists[k])
      /\ \A s \in {e.source : e \in Entries(m)} : IsFile(template.tree, s)
  BY DEF ManifestPasses
<1>2. key \in KeysOf(m)
  BY <1>1 DEF ComparedKey, KeysOf
<1>3. \A e \in ToSet(m.lists[key]) : DOMAIN e = {"source", "target"}
  <2> DEFINE l == m.lists[key]
  <2>1. ValidateEntries(l)
    BY <1>1, <1>2
  <2> HIDE DEF l
  <2>2. \A i \in DOMAIN l : DOMAIN l[i] = {"source", "target"}
    BY <2>1 DEF ValidateEntries
  <2>3. \A e \in ToSet(l) : DOMAIN e = {"source", "target"}
    BY <2>2 DEF ToSet
  <2> QED
    BY <2>3 DEF l
<1>4. ToSet(m.lists[key]) \subseteq Entries(m)
  BY <1>1, <1>2 DEF Entries
<1>5. \A e \in ToSet(m.lists[key]) : e.source \in DOMAIN template.tree.files
  BY <1>1, <1>4 DEF IsFile
<1> QED
  BY <1>1, <1>2, <1>3, <1>5

\* The entries to compare take the manifest's place.
LEMMA CompareStep ==
  ASSUME IInv, At("manifest"), UNCHANGED <<setup, seen, failed, exit>>,
         NEW entries, IsList(entries), todo' = Each("entry", entries) \o Tail(todo),
         setup.template # NoTemplate,
         ToSet(entries) \subseteq IF setup.template.legacy THEN ToSet(setup.template.synced)
                                  ELSE Mirrored,
         Promised => ToSet(entries) = Mirrored
  PROVE  IInv'
<1> DEFINE L == Each("entry", entries)
<1>1. exit = "none" /\ todo # <<>> /\ Head(todo).do = "manifest"
  BY DEF At
<1>2. IsList(L) /\ ToSet(L) = {Do("entry", x) : x \in ToSet(entries)}
  BY EachList
<1>3. Outstanding(L) = {} /\ DriftLeft(L) = Unmirrored(ToSet(entries))
  BY EachOwes
<1>4. todo' = L \o Tail(todo)
  OBVIOUS
<1> HIDE DEF L
<1>5. \A t \in ToSet(L) : BelongsTo(t) /\ t.do = "entry"
  BY <1>2, BelongsWhen, DoSays
<1>6. NoInventory(L) /\ Once(L)
  BY <1>5, NoInventoryOf
<1>7. Owed(Head(todo)) = {} /\ SyncOwed(Head(todo)) = Unmirrored(Mirrored)
  BY <1>1, OwedSays
<1>8. OfRules({}) = {} /\ SyncAts({}) = {} /\ failed' = failed \cup {}
  BY DEF OfRules, SyncAts
<1>9. seen' \subseteq RepoName
  BY DEF IInv, TypeOK
<1> QED
  BY <1>1, <1>2, <1>3, <1>4, <1>5, <1>6, <1>7, <1>8, <1>9, ReplaceStep

\* Something is wrong with the template, which then has not passed its gate.
LEMMA DriftStep ==
  ASSUME IInv, NEW check \in {"manifest", "entry"}, At(check), NEW F, Found(F),
         \A f \in F : f.check = "sync_drift",
         Promised => SyncAts(F) = SyncOwed(Head(todo))
  PROVE  IInv'
<1>1. Head(todo).do = check
  BY DEF At
<1>2. Owed(Head(todo)) = {}
  BY <1>1, OwedSays
<1>3. OfRules(F) = {}
  BY KindsOfFailures
<1> QED
  BY <1>2, <1>3, FoundStep

\* What a drift failure says.
LEMMA DriftSays ==
  ASSUME NEW at, NEW what
  PROVE  (\A f \in Drift(at, what) : f.check = "sync_drift") /\ SyncAts(Drift(at, what)) = {at}
<1>1. Drift(at, what) = {Failure("sync_drift", at, what, 0)}
  BY DEF Drift
<1>2. Failure("sync_drift", at, what, 0).check = "sync_drift"
      /\ Failure("sync_drift", at, what, 0).at = at
  BY DEF Failure
<1> QED
  BY <1>1, <1>2 DEF SyncAts

\* The manifest is read.
LEMMA ReadManifestKeeps == IInv /\ ReadManifest => IInv'
<1> SUFFICES ASSUME IInv, ReadManifest PROVE IInv'
  OBVIOUS
<1> DEFINE m == setup.template.manifest
           key == ComparedKey(m)
<1>1. /\ At("manifest") /\ exit = "none" /\ todo # <<>> /\ Head(todo).do = "manifest"
      /\ setup.template # NoTemplate
  <2>1. At("manifest") /\ exit = "none" /\ todo # <<>> /\ Head(todo).do = "manifest"
    BY DEF ReadManifest, At
  <2> QED
    BY <2>1, Behind, BelongsSays
<1>2. /\ IsList(setup.template.synced)
      /\ m.is = "object" => \A k \in DOMAIN m.lists : m.lists[k] = NotAList \/ IsList(m.lists[k])
  BY <1>1, RulesOf DEF IsTemplate
<1>3. Promised => /\ m.is = "object" /\ m.version \in {"1", "2"}
                  /\ key \in DOMAIN m.lists /\ m.lists[key] # NotAList
                  /\ ~setup.template.legacy
  <2> SUFFICES ASSUME Promised
               PROVE  /\ m.is = "object" /\ m.version \in {"1", "2"}
                      /\ key \in DOMAIN m.lists /\ m.lists[key] # NotAList
                      /\ ~setup.template.legacy
    OBVIOUS
  <2>1. ManifestPasses(setup.template, FALSE) /\ ~setup.template.legacy
    BY DEF Promised
  <2>3. /\ m.is = "object" /\ m.version \in {"1", "2"}
        /\ key \in DOMAIN m.lists /\ m.lists[key] # NotAList
    BY <2>1, PassingManifest
  <2> QED
    BY <2>1, <2>3
<1>4. ASSUME ~Promised, NEW what, Found(Drift(<<>>, what)) PROVE IInv'
  BY <1>1, <1>4, DriftStep, DriftSays
<1>5. CASE setup.template.legacy
  <2>1. /\ todo' = Each("entry", setup.template.synced) \o Tail(todo)
        /\ UNCHANGED <<setup, seen, failed, exit>>
    BY <1>5 DEF ReadManifest
  <2> QED
    BY <1>1, <1>2, <1>3, <1>5, <2>1, CompareStep
<1>6. CASE ~setup.template.legacy /\ m.is # "object"
  <2>1. Found(Drift(<<>>, m.is))
    BY <1>6 DEF ReadManifest
  <2> QED
    BY <1>3, <1>4, <1>6, <2>1
<1>7. CASE ~setup.template.legacy /\ m.is = "object" /\ m.version \notin {"1", "2"}
  <2>1. Found(Drift(<<>>, "version"))
    BY <1>7 DEF ReadManifest
  <2> QED
    BY <1>3, <1>4, <1>7, <2>1
<1>8. CASE /\ ~setup.template.legacy /\ m.is = "object" /\ m.version \in {"1", "2"}
           /\ key \notin DOMAIN m.lists \/ m.lists[key] = NotAList
  <2>1. Found(Drift(<<>>, "list"))
    BY <1>8 DEF ReadManifest
  <2> QED
    BY <1>3, <1>4, <1>8, <2>1
<1>9. CASE /\ ~setup.template.legacy /\ m.is = "object" /\ m.version \in {"1", "2"}
           /\ key \in DOMAIN m.lists /\ m.lists[key] # NotAList
  <2>1. /\ todo' = Each("entry", m.lists[key]) \o Tail(todo)
        /\ UNCHANGED <<setup, seen, failed, exit>>
    BY <1>9 DEF ReadManifest
  <2>2. IsList(m.lists[key])
    BY <1>2, <1>9
  <2>3. ToSet(m.lists[key]) = Mirrored
    BY DEF Mirrored
  <2> QED
    BY <1>1, <1>9, <2>1, <2>2, <2>3, CompareStep
<1> QED
  BY <1>5, <1>6, <1>7, <1>8, <1>9

\* One entry is compared.
LEMMA CheckEntryKeeps == IInv /\ CheckEntry => IInv'
<1> SUFFICES ASSUME IInv, CheckEntry PROVE IInv'
  OBVIOUS
<1> DEFINE t == Head(todo)
           e == t.on
           from == setup.template.tree
<1>1. At("entry") /\ t.do = "entry" /\ e = On /\ exit = "none" /\ todo # <<>>
  BY DEF CheckEntry, At, On
<1>2. ASSUME NEW F, Found(F), \A f \in F : f.check = "sync_drift",
             Promised => SyncAts(F) = Unmirrored({e})
      PROVE  IInv'
  <2>1. SyncOwed(t) = Unmirrored({e})
    BY <1>1, OwedSays
  <2> HIDE DEF e
  <2> QED
    BY <1>1, <1>2, <2>1, DriftStep
<1>3. Promised => /\ WellFormed(e) /\ ~Excused(e) /\ SourceOf(e) = e.source /\ TargetOf(e) = e.target
                  /\ IsFile(from, SourceOf(e))
  <2> SUFFICES ASSUME Promised
               PROVE  /\ WellFormed(e) /\ ~Excused(e)
                      /\ SourceOf(e) = e.source /\ TargetOf(e) = e.target
                      /\ IsFile(from, SourceOf(e))
    OBVIOUS
  <2>1. BelongsTo(t)
    BY <1>1, Behind
  <2>2. e \in Mirrored
    BY <1>1, <2>1, BelongsSays DEF Promised
  <2>3. DOMAIN e = {"source", "target"} /\ e.source \in DOMAIN from.files
    BY <2>2, PassingManifest DEF Promised, Mirrored
  <2> HIDE DEF e, from
  <2>4. WellFormed(e) /\ ~Excused(e)
    BY <2>3 DEF WellFormed, Excused
  <2>5. SourceOf(e) = e.source /\ TargetOf(e) = e.target
    BY <2>3 DEF SourceOf, TargetOf
  <2> QED
    BY <2>3, <2>4, <2>5 DEF IsFile
<1>4. Unmirrored({e}) =
        IF e.target \notin DOMAIN setup.tree.files \/ setup.tree.files[e.target] # from.files[e.source]
          THEN {e.target} ELSE {}
  BY DEF Unmirrored
<1>5. \A f \in {} : f.check = "sync_drift"
  OBVIOUS
<1>6. SyncAts({}) = {}
  BY DEF SyncAts
<1>7. CASE ~WellFormed(e)
  <2>1. Found(Drift(<<>>, "malformed"))
    BY <1>1, <1>7 DEF CheckEntry
  <2> QED
    BY <1>2, <1>3, <1>7, <2>1, DriftSays
<1>8. CASE WellFormed(e) /\ Excused(e)
  <2>1. Found({})
    BY <1>1, <1>8 DEF CheckEntry
  <2> QED
    BY <1>2, <1>3, <1>5, <1>8, <2>1
<1>9. CASE WellFormed(e) /\ ~Excused(e)
  <2> DEFINE F == IF ~IsFile(from, SourceOf(e)) THEN Drift(TargetOf(e), "no source")
                  ELSE IF ~IsFile(setup.tree, TargetOf(e)) THEN Drift(TargetOf(e), "missing")
                  ELSE IF from.files[SourceOf(e)] # setup.tree.files[TargetOf(e)]
                    THEN Drift(TargetOf(e), "differs")
                  ELSE {}
  <2>1. Found(F)
    BY <1>1, <1>9 DEF CheckEntry
  <2>2. \A f \in F : f.check = "sync_drift"
    <3>1. F = {} \/ \E at, what : F = Drift(at, what)
      OBVIOUS
    <3> HIDE DEF F
    <3> QED
      BY <3>1, DriftSays
  <2>3. Promised => SyncAts(F) = Unmirrored({e})
    <3> SUFFICES ASSUME Promised PROVE SyncAts(F) = Unmirrored({e})
      OBVIOUS
    <3>1. F = IF e.target \notin DOMAIN setup.tree.files THEN Drift(e.target, "missing")
              ELSE IF from.files[e.source] # setup.tree.files[e.target]
                THEN Drift(e.target, "differs")
              ELSE {}
      BY <1>3 DEF IsFile
    <3> HIDE DEF F, e, from
    <3>2. CASE e.target \notin DOMAIN setup.tree.files
      BY <1>4, <3>1, <3>2, DriftSays
    <3>3. CASE /\ e.target \in DOMAIN setup.tree.files
               /\ from.files[e.source] # setup.tree.files[e.target]
      BY <1>4, <3>1, <3>3, DriftSays
    <3>4. CASE /\ e.target \in DOMAIN setup.tree.files
               /\ from.files[e.source] = setup.tree.files[e.target]
      BY <1>4, <1>6, <3>1, <3>4
    <3> QED
      BY <3>2, <3>3, <3>4
  <2> HIDE DEF F
  <2> QED
    BY <1>2, <2>1, <2>2, <2>3
<1> QED
  BY <1>7, <1>8, <1>9
----------------------------------------------------------------------------
\* The inventory

\* A name that a file has and that one before it has as well.
Repeated(p, n) == Defines(p, n) /\ \E q \in Inventory : Position(q) < Position(p) /\ Defines(q, n)

Repeats(files) ==
  {f \in [check : {"duplicate"}, at : files, what : RepoName, line : {0}] :
     /\ Defines(f.at, f.what)
     /\ \E p \in Inventory : Position(p) < Position(f.at) /\ Defines(p, f.what)}

\* The names that are repeated, one by one.
LEMMA RepeatsSay ==
  ASSUME NEW files, NEW f
  PROVE  f \in Repeats(files) <=>
           \E p \in files, n \in RepoName : f = Failure("duplicate", p, n, 0) /\ Repeated(p, n)
<1>1. ASSUME f \in Repeats(files)
      PROVE  \E p \in files, n \in RepoName : f = Failure("duplicate", p, n, 0) /\ Repeated(p, n)
  <2>1. /\ f \in [check : {"duplicate"}, at : files, what : RepoName, line : {0}]
        /\ Repeated(f.at, f.what)
    BY <1>1 DEF Repeats, Repeated
  <2>2. /\ f = Failure("duplicate", f.at, f.what, 0)
        /\ f.at \in files /\ f.what \in RepoName
    BY <2>1 DEF Failure
  <2> QED
    BY <2>1, <2>2
<1>2. ASSUME NEW p \in files, NEW n \in RepoName, f = Failure("duplicate", p, n, 0), Repeated(p, n)
      PROVE  f \in Repeats(files)
  <2>1. /\ f \in [check : {"duplicate"}, at : files, what : RepoName, line : {0}]
        /\ f.at = p /\ f.what = n
    BY <1>2 DEF Failure
  <2>2. Repeated(f.at, f.what)
    BY <1>2, <2>1
  <2> QED
    BY <2>1, <2>2 DEF Repeats, Repeated
<1> QED
  BY <1>1, <1>2

\* What is wrong with a file is not about mirrored files.
LEMMA FileFailuresSay ==
  ASSUME NEW p, NEW text
  PROVE  \A f \in FileFailures(p, text) : f.check # "sync_drift"
<1>1. \A f \in FileFailures(p, text) :
        \E what \in {"document", "entry", "name", "visibility", "topics"} : \E n :
          f = Failure(what, p, n, 0)
  BY DEF FileFailures
<1> TAKE f \in FileFailures(p, text)
<1>2. PICK what \in {"document", "entry", "name", "visibility", "topics"} :
        \E n : f = Failure(what, p, n, 0)
  BY <1>1
<1>3. f.check = what
  BY <1>2 DEF Failure
<1> QED
  BY <1>3

\* The next file of the inventory.
LEMMA CheckInventoryKeeps == IInv /\ CheckInventory => IInv'
<1> SUFFICES ASSUME IInv, CheckInventory PROVE IInv'
  OBVIOUS
<1> DEFINE t == Head(todo)
           files == t.on
           p == First(files)
           text == TextOf(p)
           names == IF text.yaml = "mapping" THEN NamesSeen(text) ELSE {}
           dups == {Failure("duplicate", p, n, 0) : n \in names \cap seen}
           own == FileFailures(p, text)
           F == own \cup dups
           rest == files \ {p}
           L == <<Do("inventory", rest)>>
<1>1. At("inventory") /\ t.do = "inventory" /\ On = files /\ exit = "none" /\ todo # <<>>
  BY DEF CheckInventory, At, On
<1>0. files # {}
  BY <1>1 DEF CheckInventory
<1>3. BelongsTo(t) /\ files \subseteq Inventory /\ InPlace(files, seen)
  BY <1>1, Behind, BelongsSays
<1>4. Inventory \subseteq ToSet(Sorted)
  BY InventoryOf
<1>5. p \in files /\ \A q \in rest : Position(p) < Position(q)
  BY <1>0, <1>3, <1>4, FirstOf
<1>c. CASE Unhashable(text)
  <2>1. End("crash")
    BY <1>1, <1>c DEF CheckInventory
  <2>2. Raises(t)
    BY <1>1, <1>5, <1>c DEF Raises
  <2> QED
    BY <1>1, <2>1, <2>2, CrashStep
<1> SUFFICES ASSUME ~Unhashable(text) PROVE IInv'
  BY <1>c
<1>2. /\ failed' = failed \cup F /\ seen' = seen \cup names
      /\ todo' = L \o Tail(todo) /\ UNCHANGED <<setup, exit>>
  BY <1>1 DEF CheckInventory
<1>6. \A n : n \in names <=> Defines(p, n)
  BY DEF NamesSeen, Configs, Defines
<1>7. names \subseteq RepoName
  <2> SUFFICES ASSUME text.yaml = "mapping" PROVE names \subseteq RepoName
    OBVIOUS
  <2>1. text \in Text
    <3>1. IsFile(setup.tree, p)
      <4>1. ASSUME ~IsFile(setup.tree, p) PROVE text.yaml = "broken"
        BY <4>1 DEF TextOf
      <4> QED
        BY <4>1
    <3> QED
      BY <3>1, RulesOf DEF IsTree, IsFile, TextOf
  <2>2. text.repos \in UNION {[S -> Repo] : S \in SUBSET RepoName}
    BY <2>1 DEF Text
  <2>3. DOMAIN text.repos \subseteq RepoName
    <3> HIDE DEF text
    <3>1. PICK S \in SUBSET RepoName : text.repos \in [S -> Repo]
      BY <2>2
    <3> QED
      BY <3>1
  <2> HIDE DEF text
  <2> QED
    BY <2>3 DEF names, NamesSeen, Configs
<1>8. \A q \in Inventory : Position(q) \in Nat
  BY <1>4, Places
<1> HIDE DEF text, names, dups, own, F, p, rest, files
<1>9. seen = {n \in RepoName : \E q \in Inventory \ files : Defines(q, n)}
      /\ \A q \in Inventory \ files, r \in files : Position(q) < Position(r)
  BY <1>3 DEF InPlace
<1>10. \A q \in Inventory : Position(q) < Position(p) <=> q \notin files
  <2> TAKE q \in Inventory
  <2>1. CASE q = p
    BY <1>3, <1>5, <1>8, <2>1
  <2>2. CASE q \in files /\ q # p
    <3>1. Position(p) < Position(q)
      BY <1>5, <2>2 DEF rest
    <3> QED
      BY <1>3, <1>5, <1>8, <2>2, <3>1
  <2>3. CASE q \notin files
    BY <1>5, <1>9, <2>3
  <2> QED
    BY <1>5, <2>1, <2>2, <2>3
<1>11. \A n \in RepoName : n \in names \cap seen <=> Repeated(p, n)
  <2> TAKE n \in RepoName
  <2>1. n \in seen <=> \E q \in Inventory : q \notin files /\ Defines(q, n)
    BY <1>9
  <2>2. n \in seen <=> \E q \in Inventory : Position(q) < Position(p) /\ Defines(q, n)
    BY <1>10, <2>1
  <2> QED
    BY <1>6, <2>2 DEF Repeated
<1>12. \A f : f \in dups <=> \E n \in RepoName : f = Failure("duplicate", p, n, 0) /\ Repeated(p, n)
  <2>1. \A f : f \in dups <=> \E n \in names \cap seen : f = Failure("duplicate", p, n, 0)
    BY DEF dups
  <2> QED
    BY <1>7, <1>11, <2>1
<1>13. \A f : f \in Repeats(files) <=> f \in dups \/ f \in Repeats(rest)
  <2> TAKE f
  <2>1. \A q : q \in files <=> q = p \/ q \in rest
    BY <1>5 DEF rest
  <2>2. f \in Repeats(files) <=>
          \E q \in files, n \in RepoName : f = Failure("duplicate", q, n, 0) /\ Repeated(q, n)
    BY RepeatsSay
  <2>3. f \in Repeats(rest) <=>
          \E q \in rest, n \in RepoName : f = Failure("duplicate", q, n, 0) /\ Repeated(q, n)
    BY RepeatsSay
  <2>4. f \in dups <=> \E n \in RepoName : f = Failure("duplicate", p, n, 0) /\ Repeated(p, n)
    BY <1>12
  <2> QED
    BY <2>1, <2>2, <2>3, <2>4
<1>14. InventoryFailures(files) = F \cup InventoryFailures(rest)
  <2>1. \A S : InventoryFailures(S) = (UNION {FileFailures(q, TextOf(q)) : q \in S}) \cup Repeats(S)
    BY DEF InventoryFailures, Repeats
  <2>2. files = {p} \cup rest
    BY <1>5 DEF rest
  <2>3. own = FileFailures(p, TextOf(p))
    BY DEF own, text
  <2> DEFINE U == UNION {FileFailures(q, TextOf(q)) : q \in files}
             W == UNION {FileFailures(q, TextOf(q)) : q \in rest}
  <2>4. U = own \cup W
    BY <2>2, <2>3
  <2>5. Repeats(files) = dups \cup Repeats(rest)
    BY <1>13
  <2>6. F = own \cup dups
    BY DEF F
  <2>7. InventoryFailures(files) = U \cup Repeats(files)
    BY <2>1, Zenon
  <2>8. InventoryFailures(rest) = W \cup Repeats(rest)
    BY <2>1, Zenon
  <2> HIDE DEF U, W, own, dups
  <2> QED
    BY <2>4, <2>5, <2>6, <2>7, <2>8
<1>15. \A f \in F : f.check # "sync_drift"
  <2>1. \A f \in own : f.check # "sync_drift"
    BY FileFailuresSay DEF own
  <2>2. \A f \in dups : f.check # "sync_drift"
    <3>1. \A f \in dups : \E at, what, n : f = Failure("duplicate", at, what, n)
      BY <1>12
    <3> QED
      BY <3>1, KindSays
  <2> QED
    BY <2>1, <2>2 DEF F
<1>16. OfRules(F) = F /\ SyncAts(F) = {}
  BY <1>15, KindsOfFailures
<1>17. IsList(L) /\ ToSet(L) = {Do("inventory", rest)} /\ DOMAIN L = {1} /\ L[1] = Do("inventory", rest)
  BY ShortLists
<1> HIDE DEF L
<1>18. Outstanding(L) = InventoryFailures(rest) /\ DriftLeft(L) = {} /\ Once(L)
  <2>1. Owed(Do("inventory", rest)) = InventoryFailures(rest) /\ SyncOwed(Do("inventory", rest)) = {}
    <3> DEFINE d == Do("inventory", rest)
    <3>1. d.do = "inventory" /\ d.on = rest
      BY DoSays
    <3> HIDE DEF d
    <3>2. Owed(d) = InventoryFailures(rest) /\ SyncOwed(d) = {}
      BY <3>1, OwedSays
    <3> QED
      BY <3>2 DEF d
  <2> QED
    BY <1>17, <2>1 DEF Outstanding, DriftLeft, Once
<1>19. InPlace(rest, seen')
  <2>1. \A q : q \in Inventory \ rest <=> q \in Inventory \ files \/ q = p
    BY <1>3, <1>5 DEF rest
  <2>2. seen' = {n \in RepoName : \E q \in Inventory \ rest : Defines(q, n)}
    BY <1>2, <1>6, <1>7, <1>9, <2>1
  <2>3. \A q \in Inventory \ rest, r \in rest : Position(q) < Position(r)
    BY <1>5, <1>9, <2>1 DEF rest
  <2> QED
    BY <2>2, <2>3 DEF InPlace
<1>20. rest \subseteq Inventory
  BY <1>3 DEF rest
<1>21. \A x \in ToSet(L) : /\ BelongsTo(x) /\ x.do # "start"
                           /\ x.do = "inventory" => InPlace(x.on, seen')
  BY <1>17, <1>19, <1>20, BelongsWhen, DoSays
<1>22. Owed(t) = InventoryFailures(files) /\ SyncOwed(t) = {}
  BY <1>1, OwedSays DEF files
<1>23. seen' \subseteq RepoName
  BY <1>2, <1>7 DEF IInv, TypeOK
<1>24. /\ OfRules(F) \cup Outstanding(L) = Owed(t)
       /\ Promised => SyncAts(F) \cup DriftLeft(L) = SyncOwed(t)
  BY <1>14, <1>16, <1>18, <1>22
<1> QED
  BY <1>1, <1>2, <1>17, <1>18, <1>21, <1>23, <1>24, ReplaceStep

----------------------------------------------------------------------------
\* The inductive invariant holds

\* Every step keeps it.
LEMMA NextKeepsIInv == IInv /\ [Next]_vars => IInv'
<1> SUFFICES ASSUME IInv, [Next]_vars PROVE IInv'
  OBVIOUS
<1>1. CASE Next
  BY <1>1, StartKeeps, SkipKeeps, CheckPathKeeps, CheckContentRuleKeeps, CheckForbiddenPathKeeps,
     CheckWorkflowPinningKeeps, CheckInventoryKeeps, EndInventoryKeeps, ReadManifestKeeps,
     CheckEntryKeeps, ReportKeeps DEF Next
<1>2. CASE UNCHANGED vars
  <2>1. End(exit)
    BY <1>2 DEF End, vars
  <2> QED
    BY <2>1, EndStep DEF IInv, TypeOK, Ended
<1> QED
  BY <1>1, <1>2

\* What the checker has found and what it still has to find is always what is
\* broken: no failure is lost and none invented, whatever the setup.
THEOREM ContractInvariant == Spec => []IInv
<1>1. Init => IInv
  BY InitIInv
<1>2. IInv /\ [Next]_vars => IInv'
  BY NextKeepsIInv
<1> QED
  BY <1>1, <1>2, PTL DEF Spec
----------------------------------------------------------------------------
\* What a report says

\* Nothing is outstanding when there is a report.
LEMMA ReportSays ==
  ASSUME IInv, exit \in {"zero", "one"}
  PROVE  /\ RuleFailures = Breaches
         /\ exit = "zero" <=> failed = {}
         /\ Promised => SyncDrift = Unmirrored(Mirrored)
<1>1. todo = <<>> /\ (exit = "zero" <=> failed = {})
  BY DEF IInv, Ended
<1>2. DOMAIN todo = {}
  BY <1>1, ShortLists
<1>3. UNION {Owed(todo[i]) : i \in DOMAIN todo} = {}
  BY <1>2
<1>4. UNION {SyncOwed(todo[i]) : i \in DOMAIN todo} = {}
  BY <1>2
<1>5. RuleFailures = Breaches
  BY <1>3 DEF IInv, NothingLost
<1>6. Promised => SyncDrift = Unmirrored(Mirrored)
  BY <1>4 DEF IInv, NoDriftLost, Promised
<1> QED
  BY <1>1, <1>5, <1>6

\* A prefix of a path is where the path begins.
LEMMA PrefixSays ==
  ASSUME NEW S, NEW p \in Seq(S), NEW q \in Seq(S), IsStrictPrefix(p, q)
  PROVE  Len(p) < Len(q) /\ p = SubSeq(q, 1, Len(p))
<1>1. /\ Len(p) <= Len(q) /\ SubSeq(p, 1, Len(p)) = SubSeq(q, 1, Len(p)) /\ p # q
      /\ Len(p) \in Nat /\ Len(q) \in Nat
  BY DEF IsStrictPrefix, IsPrefix
<1>2. SubSeq(p, 1, Len(p)) = p /\ SubSeq(q, 1, Len(q)) = q
  BY SubSeqFull
<1>3. Len(p) # Len(q)
  BY <1>1, <1>2
<1>4. Len(p) < Len(q)
  BY <1>1, <1>3
<1>5. p = SubSeq(q, 1, Len(p))
  BY <1>1, <1>2, Zenon
<1> QED
  BY <1>4, <1>5

\* A report is exact, and only the three causes keep it from being written.
LEMMA InvariantIsExact == IInv => ReportIsExact
<1> SUFFICES ASSUME IInv PROVE ReportIsExact
  OBVIOUS
<1> DEFINE block == setup.contract.types[setup.type]
           rules == setup.contract.universal \o block.paths \o block.forbidden
           Through == \E r \in ToSet(rules) :
             /\ Applies(r) /\ "path" \in DOMAIN r
             /\ \E n \in 1..(Len(r.path) - 1) : IsFile(setup.tree, SubSeq(r.path, 1, n))
           Hashless == \E p \in Inventory \cap DOMAIN setup.tree.files :
             LET text == setup.tree.files[p]
             IN  /\ text.yaml = "mapping"
                 /\ \E n \in DOMAIN text.repos :
                      text.repos[n].mapping /\ text.repos[n].visibility = "unhashable"
<1>1. ASSUME NEW i \in DOMAIN todo, todo[i].do \in {"path", "forbidden"},
             Applies(todo[i].on), "path" \in DOMAIN todo[i].on, Blocked(todo[i].on.path)
      PROVE  Through
  <2> DEFINE r == todo[i].on
  <2>1. todo[i].do \in {"path", "forbidden"} /\ Applies(r) /\ "path" \in DOMAIN r /\ Blocked(r.path)
    BY <1>1
  <2>2. BelongsTo(todo[i])
    BY DEF IInv, TypeOK
  <2>3. r \in ToSet(setup.contract.universal) \cup ToSet(block.paths) \cup ToSet(block.forbidden)
    BY <2>1, <2>2, BelongsSays
  <2>4. /\ IsRules(setup.contract.universal, {"path"}) /\ IsRules(block.paths, {"path"})
        /\ IsRules(block.forbidden, {})
    BY RulesOf
  <2>5. IsList(setup.contract.universal) /\ IsList(block.paths) /\ IsList(block.forbidden)
    BY <2>4 DEF IsRules
  <2>6. IsList(setup.contract.universal \o block.paths)
        /\ ToSet(setup.contract.universal \o block.paths)
             = ToSet(setup.contract.universal) \cup ToSet(block.paths)
    BY <2>5, ConcatList
  <2>7. r \in ToSet(rules)
    BY <2>3, <2>5, <2>6, ConcatList
  <2>8. Applies(r) /\ "path" \in DOMAIN r /\ Blocked(r.path)
    BY <2>1
  <2> HIDE DEF r, rules, block
  <2>9. r.path \in Path
    BY <2>3, <2>4, <2>8 DEF IsRules
  <2>10. PICK p \in DOMAIN setup.tree.files : IsStrictPrefix(p, r.path)
    BY <2>8 DEF Blocked
  <2>11. p \in Seq(FileName) /\ p # <<>>
    BY RulesOf DEF IsTree
  <2>12. Len(p) < Len(r.path) /\ p = SubSeq(r.path, 1, Len(p))
    <3>1. r.path \in Seq(FileName \cup {"/", ".."})
      BY <2>9 DEF Path
    <3> DEFINE q == r.path
           T == FileName \cup {"/", ".."}
    <3>2. p \in Seq(T) /\ q \in Seq(T) /\ IsStrictPrefix(p, q)
      BY <2>10, <2>11, <3>1, SeqMonotonic
    <3> HIDE DEF q, T
    <3>3. Len(p) < Len(q) /\ p = SubSeq(q, 1, Len(p))
      BY <3>2, PrefixSays
    <3> QED
      BY <3>3 DEF q
  <2>13. Len(p) \in Nat \ {0} /\ Len(r.path) \in Nat
    <3>1. Len(p) \in Nat \ {0}
      BY <2>11
    <3>2. \A q \in Path : Len(q) \in Nat
      BY DEF Path
    <3> QED
      BY <2>9, <3>1, <3>2
  <2>14. Len(p) \in 1..(Len(r.path) - 1)
    BY <2>12, <2>13
  <2>15. IsFile(setup.tree, SubSeq(r.path, 1, Len(p)))
    BY <2>12 DEF IsFile
  <2> QED
    BY <2>7, <2>8, <2>14, <2>15
<1>2. ASSUME NEW i \in DOMAIN todo, todo[i].do = "pinning"
      PROVE  setup.contract.enforce
  BY <1>2, BelongsSays DEF IInv, TypeOK
<1>3. ASSUME NEW i \in DOMAIN todo, todo[i].do = "inventory",
             NEW p \in todo[i].on, Unhashable(TextOf(p))
      PROVE  Hashless
  <2>1. p \in Inventory
    BY <1>3, BelongsSays DEF IInv, TypeOK
  <2>2. IsFile(setup.tree, p)
    <3>1. ASSUME ~IsFile(setup.tree, p) PROVE TextOf(p).yaml = "broken"
      BY <3>1 DEF TextOf
    <3> QED
      BY <1>3, <3>1 DEF Unhashable
  <2>3. p \in DOMAIN setup.tree.files /\ TextOf(p) = setup.tree.files[p]
    BY <2>2 DEF IsFile, TextOf
  <2> QED
    BY <1>3, <2>1, <2>3 DEF Unhashable, Configs
<1> HIDE DEF Through, Hashless
<1>4. exit = "crash" => Through \/ (setup.contract.enforce /\ Unreadable(setup.tree)) \/ Hashless
  <2> SUFFICES ASSUME exit = "crash"
               PROVE  Through \/ (setup.contract.enforce /\ Unreadable(setup.tree)) \/ Hashless
    OBVIOUS
  <2>1. PICK i \in DOMAIN todo : Raises(todo[i])
    BY DEF IInv, Ended
  <2> QED
    BY <1>1, <1>2, <1>3, <2>1 DEF Raises
<1> QED
  BY <1>4, ReportSays DEF ReportIsExact, Through, Hashless

\* A manifest that passes with the sources that are present passes without them.
LEMMA PresentSourcesMore ==
  ASSUME NEW template, ManifestPasses(template, TRUE)
  PROVE  ManifestPasses(template, FALSE)
BY DEF ManifestPasses

\* The drift that is reported is the drift there is.
LEMMA InvariantSyncs == IInv => SyncDriftIsExact
BY ReportSays, PresentSourcesMore DEF SyncDriftIsExact, Promised

\* The part of a path that begins a longer one, element by element.
LEMMA PrefixElements ==
  ASSUME NEW S, NEW p \in Seq(S), NEW q \in Seq(S), IsPrefix(p, q)
  PROVE  Len(p) <= Len(q) /\ \A i \in 1..Len(p) : q[i] = p[i]
<1>1. Len(p) <= Len(q) /\ SubSeq(p, 1, Len(p)) = SubSeq(q, 1, Len(p))
      /\ Len(p) \in Nat /\ Len(q) \in Nat
  BY DEF IsPrefix
<1>2. \A i \in 1..Len(p) : p[i] \in S /\ q[i] \in S
  BY <1>1, ElementOfSeq
<1>3. /\ \A i \in 1..(Len(p) - 1 + 1) : SubSeq(p, 1, Len(p))[i] = p[1 + i - 1]
      /\ \A i \in 1..(Len(p) - 1 + 1) : SubSeq(q, 1, Len(p))[i] = q[1 + i - 1]
  BY <1>1, <1>2, SubSeqProperties
<1> QED
  BY <1>1, <1>3

\* A path that begins with three names and has a fourth.
LEMMA PathOfAdr ==
  ASSUME NEW S, NEW p \in Seq(S), Len(p) = 4, IsPrefix(AdrRoot \o <<"template">>, p)
  PROVE  /\ IsStrictPrefix(AdrRoot \o <<"template">>, p)
         /\ Len(p) = Len(AdrRoot \o <<"template">>) + 1
         /\ p[3] = "template" /\ SubSeq(p, 3, Len(p)) = <<"template", Last(p)>>
<1> DEFINE dir == <<"docs", "decision-records", "template">>
           T == S \cup {"docs", "decision-records", "template"}
<1>1. dir \in Seq(T) /\ Len(dir) = 3 /\ dir[3] = "template"
      /\ dir[1] = "docs" /\ dir[2] = "decision-records"
  OBVIOUS
<1>2. AdrRoot \o <<"template">> = dir
  <2> DEFINE a == <<"docs", "decision-records">>
             b == <<"template">>
  <2>1. /\ a \in Seq(T) /\ Len(a) = 2 /\ a[1] = "docs" /\ a[2] = "decision-records"
        /\ b \in Seq(T) /\ Len(b) = 1 /\ b[1] = "template"
    OBVIOUS
  <2>2. AdrRoot = a
    BY DEF AdrRoot
  <2> HIDE DEF a, b, T, dir
  <2>6. /\ a \o b \in Seq(T) /\ Len(a \o b) = Len(a) + Len(b)
        /\ \A i \in 1..(Len(a) + Len(b)) :
             (a \o b)[i] = IF i <= Len(a) THEN a[i] ELSE b[i - Len(a)]
    <3>1. a \in Seq(T) /\ b \in Seq(T)
      BY <2>1
    <3> QED
      BY <3>1, ConcatProperties
  <2>3. /\ a \o b \in Seq(T) /\ Len(a \o b) = 3
        /\ \A i \in 1..3 : (a \o b)[i] = IF i <= 2 THEN a[i] ELSE b[i - 2]
    BY <2>1, <2>6
  <2>4. \A i \in 1..3 : (a \o b)[i] = dir[i]
    BY <1>1, <2>1, <2>3
  <2>5. a \o b = dir
    BY <1>1, <2>3, <2>4, SeqEqual
  <2> QED
    BY <2>2, <2>5 DEF b
<1>3. p \in Seq(T)
  BY SeqMonotonic
<1> HIDE DEF dir, T
<1>4. IsPrefix(dir, p) /\ Len(p) = 4
  BY <1>2
<1>5. p[3] = "template"
  <2>1. \A i \in 1..Len(dir) : p[i] = dir[i]
    BY <1>4, <1>1, <1>3, PrefixElements
  <2> QED
    BY <1>1, <2>1
<1>6. dir # p
  <2>1. Len(dir) # Len(p)
    BY <1>4, <1>1
  <2> QED
    BY <2>1, Zenon
<1>7. SubSeq(p, 3, 4) = <<p[3], p[4]>>
  <2>1. \A i \in 3..4 : p[i] \in S
    BY ElementOfSeq
  <2>2. /\ SubSeq(p, 3, 4) \in Seq(S) /\ Len(SubSeq(p, 3, 4)) = 2
        /\ \A i \in 1..2 : SubSeq(p, 3, 4)[i] = p[3 + i - 1]
    BY <2>1, SubSeqProperties
  <2>3. <<p[3], p[4]>> \in Seq(S) /\ Len(<<p[3], p[4]>>) = 2
    BY <2>1
  <2>4. \A i \in 1..2 : SubSeq(p, 3, 4)[i] = <<p[3], p[4]>>[i]
    BY <2>2
  <2> QED
    BY <2>2, <2>3, <2>4, SeqEqual
<1>8. Last(p) = p[4]
  BY DEF Last
<1>9. /\ IsStrictPrefix(dir, p) /\ Len(p) = Len(dir) + 1
      /\ p[3] = "template" /\ SubSeq(p, 3, Len(p)) = <<"template", Last(p)>>
  BY <1>4, <1>1, <1>5, <1>6, <1>7, <1>8 DEF IsStrictPrefix
<1> QED
  BY <1>2, <1>9

\* An ADR that the gate accepts has its sections, in order.
LEMMA SchemaSays ==
  ASSUME NEW text, text.headings \in Seq(Section), CheckSchema(text)
  PROVE  \E s \in [DOMAIN Required -> DOMAIN text.headings] :
           /\ \A i \in DOMAIN Required : text.headings[s[i]] = Required[i]
           /\ \A i, j \in DOMAIN Required : i < j => s[i] < s[j]
<1> DEFINE h == text.headings
           Where(x) == {k \in DOMAIN h : h[k] = x}
           Pos(x) == Min(Where(x))
<1>1. /\ ToSet(Required) \subseteq ToSet(h)
      /\ \A i, j \in DOMAIN Required : i < j => Pos(Required[i]) <= Pos(Required[j])
  BY DEF CheckSchema
<1>2. \A k \in DOMAIN h : k \in Nat
  OBVIOUS
<1>3. \A x \in ToSet(Required) : Where(x) \in SUBSET Nat /\ Where(x) # {}
  BY <1>1, <1>2 DEF ToSet
<1>4. ASSUME NEW x \in ToSet(Required) PROVE Pos(x) \in Where(x)
  <2> DEFINE W == Where(x)
  <2>1. W \in SUBSET Nat /\ W # {}
    BY <1>3
  <2> HIDE DEF W
  <2>2. \E n \in W : \A m \in W : n <= m
    BY <2>1, LeastNumber
  <2>3. Min(W) \in W
    BY <2>2 DEF Min
  <2> QED
    BY <2>3 DEF W
<1>5. \A i \in DOMAIN Required : Required[i] \in ToSet(Required)
  BY DEF ToSet
<1>6. \A i \in DOMAIN Required : /\ Pos(Required[i]) \in DOMAIN h
                                 /\ Pos(Required[i]) \in Nat
                                 /\ h[Pos(Required[i])] = Required[i]
  BY <1>2, <1>4, <1>5
<1>7. DOMAIN h = DOMAIN text.headings
  OBVIOUS
<1> HIDE DEF Pos, h
<1> DEFINE s == [i \in DOMAIN Required |-> Pos(Required[i])]
<1>8. s \in [DOMAIN Required -> DOMAIN h]
  BY <1>6
<1>9. \A i \in DOMAIN Required : h[s[i]] = Required[i]
  BY <1>6
<1>10. \A i, j \in DOMAIN Required : i < j => s[i] < s[j]
  <2> SUFFICES ASSUME NEW i \in DOMAIN Required, NEW j \in DOMAIN Required, i < j
               PROVE  Pos(Required[i]) < Pos(Required[j])
    OBVIOUS
  <2>1. Pos(Required[i]) <= Pos(Required[j])
    BY <1>1
  <2>2. i # j
    BY RequiredAssumption
  <2>3. Required[i] # Required[j]
    BY <2>2, RequiredAssumption
  <2>4. Pos(Required[i]) # Pos(Required[j])
    BY <1>6, <2>3
  <2> QED
    BY <1>6, <2>1, <2>4
<1> HIDE DEF s
<1> QED
  BY <1>8, <1>9, <1>10 DEF h
\* What the gates of the template say of an ADR of its own.
LEMMA GatesSay ==
  ASSUME NEW template, IsTree(template.tree),
         AdrSchemaPasses(template.tree), ManifestPasses(template, FALSE),
         NEW p \in DOMAIN template.tree.files,
         Len(p) = 4, IsPrefix(AdrRoot \o <<"template">>, p), Last(p) \in AdrName
  PROVE  /\ CheckSchema(template.tree.files[p])
         /\ template.tree.files[p].headings \in Seq(Section)
         /\ <<"template", Last(p)>> \in template.tree.files[Index].links
         /\ \E e \in Entries(template.manifest) : e.source = p
<1> DEFINE t == template.tree
<1>1. p \in Seq(FileName) /\ t.files[p] \in Text
  BY DEF IsTree
<1>2. /\ IsStrictPrefix(AdrRoot \o <<"template">>, p)
      /\ Len(p) = Len(AdrRoot \o <<"template">>) + 1
      /\ p[3] = "template" /\ SubSeq(p, 3, Len(p)) = <<"template", Last(p)>>
  BY <1>1, PathOfAdr
<1> HIDE DEF t
<1>3. p \in Within(t, AdrRoot \o <<"template">>)
  BY <1>2 DEF Within, Below, t
<1>4. p \in AdrFiles(t)
  BY <1>3 DEF AdrFiles, Scopes
<1>5. CheckSchema(t.files[p])
  BY <1>4 DEF AdrSchemaPasses, t
<1>6. t.files[p].headings \in Seq(Section)
  BY <1>1 DEF Text
<1>7. <<"template", Last(p)>> \in t.files[Index].links
  <2>1. {l \in t.files[Index].links : l[1] \in Scopes /\ Last(l) \in LinkName}
          = {SubSeq(q, 3, Len(q)) : q \in AdrFiles(t)}
    BY DEF AdrSchemaPasses, CheckIndex, t
  <2>2. SubSeq(p, 3, Len(p)) \in {SubSeq(q, 3, Len(q)) : q \in AdrFiles(t)}
    BY <1>4
  <2> QED
    BY <1>2, <2>1, <2>2
<1>8. \E e \in Entries(template.manifest) : e.source = p
  <2>1. {q \in AdrFiles(t) : q[3] = "template"} \subseteq {e.source : e \in Entries(template.manifest)}
    BY DEF ManifestPasses, t
  <2>2. p \in {e.source : e \in Entries(template.manifest)}
    BY <1>2, <1>4, <2>1
  <2> QED
    BY <2>2
<1> QED
  BY <1>5, <1>6, <1>7, <1>8 DEF t

\* An ADR that passes the template's gates is in the runners that pass.
LEMMA InvariantReaches == IInv => AdrsReachRunners
<1> SUFFICES ASSUME IInv, exit = "zero", setup.template # NoTemplate,
                    ~setup.template.legacy, AdrSchemaPasses(setup.template.tree),
                    ManifestPasses(setup.template, FALSE),
                    NEW p \in DOMAIN setup.template.tree.files,
                    Len(p) = 4, IsPrefix(AdrRoot \o <<"template">>, p), Last(p) \in AdrName
             PROVE  /\ \E s \in [DOMAIN Required -> DOMAIN setup.template.tree.files[p].headings] :
                         /\ \A i \in DOMAIN Required :
                              setup.template.tree.files[p].headings[s[i]] = Required[i]
                         /\ \A i, j \in DOMAIN Required : i < j => s[i] < s[j]
                    /\ <<"template", Last(p)>> \in setup.template.tree.files[Index].links
                    /\ \E e \in Entries(setup.template.manifest) :
                         /\ e.source = p
                         /\ e \in Mirrored =>
                              /\ e.target \in DOMAIN setup.tree.files
                              /\ setup.tree.files[e.target] = setup.template.tree.files[p]
  BY DEF AdrsReachRunners
<1>1. IsTree(setup.template.tree)
  BY RulesOf DEF IsTemplate
<1>2. /\ CheckSchema(setup.template.tree.files[p])
      /\ setup.template.tree.files[p].headings \in Seq(Section)
      /\ <<"template", Last(p)>> \in setup.template.tree.files[Index].links
      /\ \E e \in Entries(setup.template.manifest) : e.source = p
  BY <1>1, GatesSay
<1>3. \E s \in [DOMAIN Required -> DOMAIN setup.template.tree.files[p].headings] :
        /\ \A i \in DOMAIN Required :
             setup.template.tree.files[p].headings[s[i]] = Required[i]
        /\ \A i, j \in DOMAIN Required : i < j => s[i] < s[j]
  BY <1>2, SchemaSays
<1>4. PICK e \in Entries(setup.template.manifest) : e.source = p
  BY <1>2
<1>5. ASSUME e \in Mirrored
      PROVE  /\ e.target \in DOMAIN setup.tree.files
             /\ setup.tree.files[e.target] = setup.template.tree.files[p]
  <2>1. failed = {} /\ SyncDrift = Unmirrored(Mirrored)
    BY ReportSays DEF Promised
  <2>2. SyncDrift = {}
    BY <2>1 DEF SyncDrift
  <2>3. Unmirrored(Mirrored) = {}
    BY <2>1, <2>2
  <2>4. ~(\/ e.target \notin DOMAIN setup.tree.files
          \/ setup.tree.files[e.target] # setup.template.tree.files[e.source])
    BY <1>5, <2>3 DEF Unmirrored
  <2> QED
    BY <1>4, <2>4
<1> QED
  BY <1>2, <1>3, <1>4, <1>5

\* The two ways to look at a reference.
LEMMA ReferencesAgree ==
  ASSUME NEW ref \in Ref
  PROVE  LET rejected == ~ClassifyUses(Captured(ref), TRUE)
         IN  /\ rejected <=> ~IsPinnedUses(Captured(ref))
             /\ ~rejected => ref.at = 2 \/ IsAcceptable(NormalizeUses(ref))
             /\ rejected => ref.quoted \/ ~IsAcceptable(NormalizeUses(ref))
<1>1. /\ ref.form \in {"local", "docker", "action"} /\ ref.at \in 0..2
      /\ ref.sha \in BOOLEAN /\ ref.digest \in BOOLEAN /\ ref.quoted \in BOOLEAN
  BY DEF Ref
<1>2. /\ NormalizeUses(ref).form = ref.form /\ NormalizeUses(ref).at = ref.at
      /\ NormalizeUses(ref).sha = ref.sha /\ NormalizeUses(ref).digest = ref.digest
  BY DEF NormalizeUses, Ref
<1>3. CASE ref.quoted
  <2>1. Captured(ref) = [ref EXCEPT !.form = "action", !.sha = FALSE]
    BY <1>3 DEF Captured
  <2>2. Captured(ref).form = "action" /\ Captured(ref).sha = FALSE
    BY <2>1 DEF Ref
  <2>3. ~ClassifyUses(Captured(ref), TRUE) /\ ~IsPinnedUses(Captured(ref))
    BY <2>2 DEF ClassifyUses, IsPinnedUses
  <2> QED
    BY <1>3, <2>3
<1>4. CASE ~ref.quoted
  <2>1. Captured(ref) = ref
    BY <1>4 DEF Captured
  <2>2. CASE ref.form = "local"
    BY <1>2, <2>1, <2>2 DEF ClassifyUses, IsPinnedUses, IsAcceptable
  <2>3. CASE ref.form = "docker"
    BY <1>2, <2>1, <2>3 DEF ClassifyUses, IsPinnedUses, IsAcceptable
  <2>4. CASE ref.form = "action"
    <3>1. ref.at \in {0, 1, 2}
      BY <1>1
    <3> QED
      BY <1>2, <2>1, <2>4, <3>1 DEF ClassifyUses, IsPinnedUses, IsAcceptable
  <2> QED
    BY <1>1, <2>2, <2>3, <2>4
<1> QED
  BY <1>3, <1>4

\* The failures of the other rules are not about pins.
LEMMA OtherFailures ==
  ASSUME NEW p, NEW i
  PROVE  /\ \A R : /\ Failure("pin", p, "", i) \notin PathFailures(R)
                   /\ Failure("pin", p, "", i) \notin ContentFailures(R)
                   /\ Failure("pin", p, "", i) \notin ForbiddenFailures(R)
         /\ \A files : Failure("pin", p, "", i) \notin InventoryFailures(files)
<1> DEFINE f == Failure("pin", p, "", i)
<1>1. f.check = "pin"
  BY DEF Failure
<1> HIDE DEF f
<1>2. ASSUME NEW R, f \in PathFailures(R) PROVE FALSE
  <2>1. \E at, what, n : f = Failure("path", at, what, n)
    BY <1>2 DEF PathFailures
  <2>2. f.check = "path"
    BY <2>1, FailureSays
  <2> QED
    BY <1>1, <2>2
<1>3. ASSUME NEW R, f \in ContentFailures(R) PROVE FALSE
  <2>1. \E at, what, n : f = Failure("content", at, what, n)
    BY <1>3 DEF ContentFailures
  <2>2. f.check = "content"
    BY <2>1, FailureSays
  <2> QED
    BY <1>1, <2>2
<1>4. ASSUME NEW R, f \in ForbiddenFailures(R) PROVE FALSE
  <2>1. \E at, what, n : f = Failure("forbidden", at, what, n)
    BY <1>4 DEF ForbiddenFailures
  <2>2. f.check = "forbidden"
    BY <2>1, FailureSays
  <2> QED
    BY <1>1, <2>2
<1>5. ASSUME NEW files, f \in InventoryFailures(files) PROVE FALSE
  <2>1. CASE f \in Repeats(files)
    <3>1. \E q, n : f = Failure("duplicate", q, n, 0)
      BY <2>1, RepeatsSay
    <3>2. f.check = "duplicate"
      BY <3>1, FailureSays
    <3> QED
      BY <1>1, <3>2
  <2>2. CASE f \notin Repeats(files)
    <3>1. PICK q \in files : f \in FileFailures(q, TextOf(q))
      BY <1>5, <2>2 DEF InventoryFailures, Repeats
    <3>2. PICK what \in {"document", "entry", "name", "visibility", "topics"} :
            \E n : f = Failure(what, q, n, 0)
      BY <3>1 DEF FileFailures
    <3>3. f.check = what
      BY <3>2 DEF Failure
    <3> QED
      BY <1>1, <3>3
  <2> QED
    BY <2>1, <2>2
<1> QED
  BY <1>2, <1>3, <1>4, <1>5 DEF f

\* A pin is reported exactly when the reference is not accepted.
LEMMA PinsReported ==
  ASSUME IInv, exit \in {"zero", "one"}, setup.contract.enforce,
         NEW p \in WorkflowFiles(setup.tree), NEW i \in DOMAIN setup.tree.files[p].uses
  PROVE  Failure("pin", p, "", i) \in failed <=>
           ~ClassifyUses(Captured(setup.tree.files[p].uses[i]), setup.contract.local)
<1> DEFINE f == Failure("pin", p, "", i)
           Bad(q) == {j \in DOMAIN setup.tree.files[q].uses :
                        ~ClassifyUses(Captured(setup.tree.files[q].uses[j]), setup.contract.local)}
<1>1. f.check = "pin"
  BY DEF Failure
<1>2. f \in failed <=> f \in Breaches
  <2> HIDE DEF f
  <2>1. f \in failed <=> f \in RuleFailures
    BY <1>1 DEF RuleFailures
  <2> QED
    BY <2>1, ReportSays
<1>3. f \in Breaches <=> f \in PinFailures
  BY OtherFailures DEF Breaches
<1>4. Workflows \in setup.tree.dirs
  <2>1. p \in DOMAIN setup.tree.files /\ IsStrictPrefix(Workflows, p)
    BY DEF WorkflowFiles, Within, Below
  <2>2. p \in Seq(FileName)
    BY <2>1, RulesOf DEF IsTree
  <2> DEFINE T == FileName \cup {".github", "workflows"}
  <2>3. Workflows \in Seq(T) /\ Len(Workflows) = 2
    BY DEF Workflows
  <2>4. p \in Seq(T)
    BY <2>2, SeqMonotonic
  <2> HIDE DEF T
  <2>5. Len(Workflows) < Len(p) /\ Workflows = SubSeq(p, 1, Len(Workflows))
    BY <2>1, <2>3, <2>4, PrefixSays
  <2>6. SubSeq(p, 1, 2) \in setup.tree.dirs
    <3>1. \A n \in 1..5 : n < Len(p) => SubSeq(p, 1, n) \in setup.tree.dirs
      BY <2>1, RulesOf DEF IsTree
    <3>2. 2 < Len(p)
      BY <2>3, <2>5
    <3> QED
      BY <3>1, <3>2
  <2> QED
    BY <2>3, <2>5, <2>6
<1>5. PinFailures = UNION {{Failure("pin", q, "", j) : j \in Bad(q)} : q \in WorkflowFiles(setup.tree)}
  BY <1>4 DEF PinFailures
<1>6. ASSUME f \in PinFailures PROVE i \in Bad(p)
  <2> HIDE DEF Bad
  <2>1. PICK q \in WorkflowFiles(setup.tree) : f \in {Failure("pin", q, "", j) : j \in Bad(q)}
    BY <1>5, <1>6
  <2>2. PICK j \in Bad(q) : f = Failure("pin", q, "", j)
    BY <2>1
  <2>3. p = q /\ i = j
    BY <2>2 DEF Failure
  <2> QED
    BY <2>2, <2>3
<1>7. ASSUME i \in Bad(p) PROVE f \in PinFailures
  <2> HIDE DEF Bad
  <2>1. f \in {Failure("pin", p, "", j) : j \in Bad(p)}
    BY <1>7
  <2> HIDE DEF f
  <2> QED
    BY <1>5, <2>1
<1> QED
  BY <1>2, <1>3, <1>6, <1>7

\* The checks of pins agree as far as they do.
LEMMA InvariantPins == IInv => PinChecksAgree
<1> SUFFICES ASSUME IInv, exit \in {"zero", "one"}, setup.contract.enforce, setup.contract.local,
                    NEW p \in WorkflowFiles(setup.tree), NEW i \in DOMAIN setup.tree.files[p].uses
             PROVE  LET ref == setup.tree.files[p].uses[i]
                        rejected == Failure("pin", p, "", i) \in failed
                    IN  /\ rejected <=> ~IsPinnedUses(Captured(ref))
                        /\ ~rejected => ref.at = 2 \/ IsAcceptable(NormalizeUses(ref))
                        /\ rejected => ref.quoted \/ ~IsAcceptable(NormalizeUses(ref))
  BY DEF PinChecksAgree
<1> DEFINE ref == setup.tree.files[p].uses[i]
<1>1. ref \in Ref
  <2>1. p \in DOMAIN setup.tree.files
    BY DEF WorkflowFiles, Within, Below
  <2>2. setup.tree.files[p] \in Text
    BY <2>1, RulesOf DEF IsTree
  <2>3. setup.tree.files[p].uses \in Seq(Ref)
    BY <2>2 DEF Text
  <2> QED
    BY <2>3
<1>2. Failure("pin", p, "", i) \in failed <=> ~ClassifyUses(Captured(ref), setup.contract.local)
  BY PinsReported
<1>3. ClassifyUses(Captured(ref), setup.contract.local) <=> ClassifyUses(Captured(ref), TRUE)
  BY DEF ClassifyUses
<1> HIDE DEF ref
<1> QED
  BY <1>1, <1>2, <1>3, ReferencesAgree DEF ref

----------------------------------------------------------------------------
\* Theorems

\* A report of tools/check_template_contract.py names exactly the rules that the
\* checkout breaks, and only a path through a file, a directory with the name of
\* a workflow or a visibility without a hash keeps it from being written.
THEOREM ReportIsExactAlways == Spec => []ReportIsExact
BY ContractInvariant, InvariantIsExact, PTL

\* Next to a template whose manifest passes its gate, check_sync_drift reports
\* the targets whose text is not the template's, and nothing else.
THEOREM SyncDriftIsExactAlways == Spec => []SyncDriftIsExact
BY ContractInvariant, InvariantSyncs, PTL

\* An ADR that the gates of the template accept is in every runner that passes
\* next to it, with its sections in order.
THEOREM AdrsReachRunnersAlways == Spec => []AdrsReachRunners
BY ContractInvariant, InvariantReaches, PTL

\* The validator, the caller check and the hygiene policy agree about pins, but
\* for a second "@" and for quotes.
THEOREM PinChecksAgreeAlways == Spec => []PinChecksAgree
BY ContractInvariant, InvariantPins, PTL
=============================================================================
