-------------------------- MODULE LineScansProofs ---------------------------
(***************************************************************************)
(* Proofs about LineScans: what collect_run_blocks finds in the lines of a *)
(* workflow is what a parser of it would find, but for two places that are *)
(* named; and what strip_regions leaves of a text is what is outside of    *)
(* its regions.  Both are shown up to the line the scan is in, for every   *)
(* workflow and every text, by the inductive invariant IInv.               *)
(***************************************************************************)
EXTENDS LineScans, FiniteSetTheorems, SequenceTheorems, WellFoundedInduction, TLAPS

----------------------------------------------------------------------------
\* Lists

\* A list is a sequence of its elements.
LEMMA ListIsSeq ==
  ASSUME NEW l, IsList(l)
  PROVE  l \in Seq(ToSet(l)) /\ DOMAIN l = 1..Len(l) /\ Len(l) \in Nat
<1>1. DOMAIN l = 1..Len(l) /\ Len(l) \in Nat /\ l = [i \in 1..Len(l) |-> l[i]]
  BY DEF IsList
<1>2. \A i \in 1..Len(l) : l[i] \in ToSet(l)
  BY <1>1 DEF ToSet
<1>3. l \in [1..Len(l) -> ToSet(l)]
  BY <1>1, <1>2
<1> QED
  BY <1>1, <1>3

\* A sequence is a list.
LEMMA SeqIsList ==
  ASSUME NEW S, NEW l \in Seq(S)
  PROVE  IsList(l)
<1>1. Len(l) \in Nat /\ l \in [1..Len(l) -> S] /\ DOMAIN l = 1..Len(l)
  BY LenProperties
<1> QED
  BY <1>1 DEF IsList

\* The elements of two lists put together.
LEMMA ConcatElements ==
  ASSUME NEW p, NEW q, NEW c, IsList(p), IsList(q), c = p \o q
  PROVE  /\ IsList(c) /\ Len(c) = Len(p) + Len(q)
         /\ \A i \in 1..Len(p) : c[i] = p[i]
         /\ \A i \in 1..Len(q) : c[Len(p) + i] = q[i]
<1> DEFINE S == ToSet(p) \cup ToSet(q)
<1>1. p \in Seq(S) /\ q \in Seq(S)
  <2>1. p \in Seq(ToSet(p)) /\ q \in Seq(ToSet(q))
    BY ListIsSeq
  <2> HIDE DEF S
  <2>2. ToSet(p) \subseteq S /\ ToSet(q) \subseteq S
    BY DEF S
  <2> QED
    BY <2>1, <2>2, SeqMonotonic
<1>2. DOMAIN p = 1..Len(p) /\ Len(p) \in Nat /\ DOMAIN q = 1..Len(q) /\ Len(q) \in Nat
  BY ListIsSeq
<1> HIDE DEF S
<1>3. /\ c \in Seq(S) /\ Len(c) = Len(p) + Len(q)
      /\ \A i \in 1..(Len(p) + Len(q)) : c[i] = IF i <= Len(p) THEN p[i] ELSE q[i - Len(p)]
  BY <1>1, ConcatProperties
<1>4. \A i \in 1..Len(q) : Len(p) + i \in 1..(Len(p) + Len(q)) /\ ~(Len(p) + i <= Len(p))
                           /\ (Len(p) + i) - Len(p) = i
  BY <1>2
<1>5. \A i \in 1..Len(p) : i \in 1..(Len(p) + Len(q)) /\ i <= Len(p)
  BY <1>2
<1> QED
  BY <1>2, <1>3, <1>4, <1>5, SeqIsList

\* Two lists put together are a list.
LEMMA ConcatLists ==
  ASSUME NEW p, NEW q, IsList(p), IsList(q)
  PROVE  IsList(p \o q) /\ Len(p \o q) = Len(p) + Len(q)
<1> DEFINE c == p \o q
<1>1. IsList(c) /\ Len(c) = Len(p) + Len(q)
  <2>1. c = p \o q
    OBVIOUS
  <2> HIDE DEF c
  <2> QED
    BY <2>1, ConcatElements
<1> QED
  BY <1>1

\* A list behind a single element.
LEMMA OneAndList ==
  ASSUME NEW b, NEW d, NEW a, IsList(b), IsList(d), a = b \o d
  PROVE  Len(b) = 1 => /\ IsList(a) /\ Len(a) = 1 + Len(d) /\ a[1] = b[1]
                       /\ \A j \in 2..(1 + Len(d)) : a[j] = d[j - 1]
<1>1. Len(b) \in Nat /\ Len(d) \in Nat
  BY DEF IsList
<1>2. \A j \in 1..Len(b) : a[j] = b[j]
  BY <1>1, ConcatElements
<1>3. \A j \in 1..Len(d) : a[Len(b) + j] = d[j]
  BY <1>1, ConcatElements
<1>4. IsList(a) /\ Len(a) = Len(b) + Len(d)
  BY ConcatLists
<1>5. ASSUME Len(b) = 1, NEW j \in 2..(1 + Len(d)) PROVE a[j] = d[j - 1]
  <2>1. j - 1 \in 1..Len(d) /\ Len(b) + (j - 1) = j
    BY <1>1, <1>5
  <2> QED
    BY <1>3, <2>1
<1> QED
  BY <1>1, <1>2, <1>4, <1>5

\* A single element behind a list.
LEMMA ListAndOne ==
  ASSUME NEW b, NEW d, NEW a, IsList(b), IsList(d), a = b \o d
  PROVE  Len(d) = 1 => /\ IsList(a) /\ Len(a) = Len(b) + 1 /\ a[Len(b) + 1] = d[1]
                       /\ \A j \in 1..Len(b) : a[j] = b[j]
<1>1. Len(b) \in Nat /\ Len(d) \in Nat
  BY DEF IsList
<1>2. \A j \in 1..Len(b) : a[j] = b[j]
  BY <1>1, ConcatElements
<1>3. \A j \in 1..Len(d) : a[Len(b) + j] = d[j]
  BY <1>1, ConcatElements
<1>4. IsList(a) /\ Len(a) = Len(b) + Len(d)
  BY ConcatLists
<1> QED
  BY <1>1, <1>2, <1>3, <1>4

\* The first part of a list.
LEMMA FirstPart ==
  ASSUME NEW l, IsList(l), NEW n \in 0..Len(l)
  PROVE  /\ IsList(SubSeq(l, 1, n)) /\ Len(SubSeq(l, 1, n)) = n
         /\ \A i \in 1..n : SubSeq(l, 1, n)[i] = l[i]
         /\ SubSeq(l, 1, Len(l)) = l
<1>1. DOMAIN l = 1..Len(l) /\ Len(l) \in Nat /\ l \in Seq(ToSet(l))
  BY ListIsSeq
<1>2. \A i \in 1..n : l[i] \in ToSet(l)
  BY <1>1 DEF ToSet
<1>3. /\ SubSeq(l, 1, n) \in Seq(ToSet(l))
      /\ Len(SubSeq(l, 1, n)) = IF 1 <= n THEN n - 1 + 1 ELSE 0
      /\ \A i \in 1..(n - 1 + 1) : SubSeq(l, 1, n)[i] = l[1 + i - 1]
  BY <1>1, <1>2, SubSeqProperties
<1>4. /\ \A i \in 1..n : 1 + i - 1 = i /\ i \in 1..(n - 1 + 1)
      /\ (IF 1 <= n THEN n - 1 + 1 ELSE 0) = n
  BY <1>1
<1>5. SubSeq(l, 1, Len(l)) = l
  BY <1>1, SubSeqFull
<1>6. Len(SubSeq(l, 1, n)) = n
  BY <1>3, <1>4
<1>7. \A i \in 1..n : SubSeq(l, 1, n)[i] = l[i]
  BY <1>3, <1>4
<1>8. IsList(SubSeq(l, 1, n))
  BY <1>3, SeqIsList
<1> QED
  BY <1>5, <1>6, <1>7, <1>8

\* Lists with the same elements are the same.
LEMMA ListsEqual ==
  ASSUME NEW p, NEW q, IsList(p), IsList(q), Len(p) = Len(q),
         \A i \in 1..Len(p) : p[i] = q[i]
  PROVE  p = q
<1>1. p = [i \in 1..Len(p) |-> p[i]] /\ q = [i \in 1..Len(p) |-> q[i]]
  BY DEF IsList
<1> QED
  BY <1>1

\* The places of a list are numbers.
LEMMA NotAbove ==
  ASSUME NEW lines, IsList(lines), NEW i \in DOMAIN lines
  PROVE  i <= i /\ \A k \in DOMAIN lines : i < k => i <= k
<1>1. DOMAIN lines = 1..Len(lines) /\ Len(lines) \in Nat
  BY ListIsSeq
<1> QED
  BY <1>1

\* A first part of a list, with one more element.
LEMMA OneMoreElement ==
  ASSUME NEW l, IsList(l), NEW n \in 0..(Len(l) - 1)
  PROVE  SubSeq(l, 1, n + 1) = Append(SubSeq(l, 1, n), l[n + 1])
<1> DEFINE p == SubSeq(l, 1, n)
           q == SubSeq(l, 1, n + 1)
           e == l[n + 1]
           a == Append(p, e)
<1>1. Len(l) \in Nat /\ n \in 0..Len(l) /\ n + 1 \in 0..Len(l) /\ n \in Nat
  BY DEF IsList
<1>2. /\ IsList(p) /\ Len(p) = n /\ \A i \in 1..n : p[i] = l[i]
      /\ IsList(q) /\ Len(q) = n + 1 /\ \A i \in 1..(n + 1) : q[i] = l[i]
  BY <1>1, FirstPart
<1> HIDE DEF p, q
<1>3. p \in Seq(ToSet(p) \cup {e})
  <2>1. p \in Seq(ToSet(p))
    BY <1>2, ListIsSeq
  <2> QED
    BY <2>1, SeqMonotonic
<1> HIDE DEF e
<1>4. /\ a \in Seq(ToSet(p) \cup {e}) /\ Len(a) = Len(p) + 1
      /\ \A i \in 1..Len(p) : a[i] = p[i]
      /\ a[Len(p) + 1] = e
  BY <1>3, AppendProperties
<1> HIDE DEF a
<1>5. IsList(a)
  BY <1>4, SeqIsList
<1>6. \A i \in 1..(n + 1) : a[i] = q[i]
  <2>1. \A i \in 1..(n + 1) : i \in 1..n \/ i = n + 1
    BY <1>1
  <2> QED
    BY <1>2, <1>4, <2>1 DEF e
<1>7. a = q
  BY <1>2, <1>4, <1>5, <1>6, ListsEqual
<1> QED
  BY <1>7 DEF a, e, p, q

\* A set of numbers has a least one.
LEMMA LeastNumber ==
  ASSUME NEW S \in SUBSET Nat, S # {}
  PROVE  Least(S) \in S /\ \A m \in S : Least(S) <= m
<1>1. PICK n \in S : \A m \in S : ~(<<m, n>> \in OpToRel(<, Nat))
  BY NatLessThanWellFounded, WFMin
<1>2. \A m \in S : ~(m < n)
  BY <1>1 DEF OpToRel
<1>3. \A m \in S : m \in Nat /\ n \in Nat
  BY <1>1
<1>4. \A m \in S : n <= m
  BY <1>2, <1>3
<1> QED
  BY <1>4 DEF Least

\* The least number of a set is the one that is not above another.
LEMMA LeastIs ==
  ASSUME NEW S \in SUBSET Nat, NEW n \in S, \A m \in S : n <= m
  PROVE  Least(S) = n
<1>1. Least(S) \in S /\ Least(S) <= n
  BY LeastNumber
<1>2. n <= Least(S) /\ n \in Nat /\ Least(S) \in Nat
  BY <1>1
<1> QED
  BY <1>1, <1>2

----------------------------------------------------------------------------
\* Lists of lists

\* A set of numbers with 0 and the successor of each of its numbers has them all.
LEMMA AllNumbers ==
  ASSUME NEW T, 0 \in T, \A n \in Nat : n \in T => n + 1 \in T
  PROVE  Nat \subseteq T
<1> SUFFICES ASSUME Nat \ T # {} PROVE FALSE
  OBVIOUS
<1>1. PICK n \in Nat \ T : \A m \in Nat \ T : ~(<<m, n>> \in OpToRel(<, Nat))
  BY NatLessThanWellFounded, WFMin
<1>2. \A m \in Nat \ T : ~(m < n)
  BY <1>1 DEF OpToRel
<1>3. n # 0 /\ n - 1 \in Nat /\ n - 1 < n /\ (n - 1) + 1 = n
  <2>1. n \in Nat /\ n # 0
    BY <1>1
  <2> QED
    BY <2>1
<1>4. n - 1 \in T
  BY <1>2, <1>3
<1> QED
  BY <1>1, <1>3, <1>4

\* The recursive function of FlattenSeq, for the first n lists.
IsFlatten(f, s, n) == f = [i \in 1..n |-> IF i = 1 THEN s[i] ELSE f[i - 1] \o s[i]]

\* There is such a function.
LEMMA FlattenExists ==
  ASSUME NEW s
  PROVE  \A n \in Nat : \E f : IsFlatten(f, s, n)
<1> DEFINE T == {n \in Nat : \E f : IsFlatten(f, s, n)}
<1>1. 0 \in T
  <2>1. IsFlatten([i \in 1..0 |-> i], s, 0)
    BY DEF IsFlatten
  <2> QED
    BY <2>1
<1>2. ASSUME NEW n \in Nat, n \in T PROVE n + 1 \in T
  <2>1. PICK f : IsFlatten(f, s, n)
    BY <1>2
  <2> DEFINE g == [i \in 1..(n + 1) |-> IF i <= n THEN f[i]
                                        ELSE IF i = 1 THEN s[i] ELSE f[i - 1] \o s[i]]
  <2>2. \A i \in 1..n : f[i] = IF i = 1 THEN s[i] ELSE f[i - 1] \o s[i]
    BY <2>1 DEF IsFlatten
  <2>3. \A i \in 1..(n + 1) : i # 1 => i - 1 \in 1..n /\ i - 1 \in 1..(n + 1) /\ i - 1 <= n
    OBVIOUS
  <2>4. \A i \in 1..(n + 1) : i # 1 => g[i - 1] = f[i - 1]
    BY <2>3
  <2>5. ASSUME NEW i \in 1..(n + 1)
        PROVE  g[i] = IF i = 1 THEN s[i] ELSE g[i - 1] \o s[i]
    <3>1. g[i] = IF i = 1 THEN s[i] ELSE f[i - 1] \o s[i]
      BY <2>2
    <3> HIDE DEF g
    <3> QED
      BY <2>4, <3>1
  <2>6. g = [i \in 1..(n + 1) |-> g[i]]
    OBVIOUS
  <2> HIDE DEF g
  <2>7. IsFlatten(g, s, n + 1)
    BY <2>5, <2>6 DEF IsFlatten
  <2> QED
    BY <2>7
<1> HIDE DEF T
<1>3. Nat \subseteq T
  BY <1>1, <1>2, AllNumbers
<1> QED
  BY <1>3 DEF T

\* FlattenSeq takes the last value of it.
LEMMA FlattenSays ==
  ASSUME NEW s, Len(s) \in Nat
  PROVE  \E f : /\ IsFlatten(f, s, Len(s))
                /\ FlattenSeq(s) = IF Len(s) = 0 THEN s ELSE f[Len(s)]
<1> DEFINE f == CHOOSE g : IsFlatten(g, s, Len(s))
<1>1. IsFlatten(f, s, Len(s))
  BY FlattenExists
<1>2. FlattenSeq(s) = IF Len(s) = 0 THEN s ELSE f[Len(s)]
  BY DEF FlattenSeq, IsFlatten
<1> QED
  BY <1>1, <1>2

\* One more list, flattened, comes behind the others.
LEMMA FlattenOneMore ==
  ASSUME NEW s, IsList(s), \A i \in 1..Len(s) : IsList(s[i]), NEW n \in 0..(Len(s) - 1)
  PROVE  FlattenSeq(SubSeq(s, 1, n + 1)) = FlattenSeq(SubSeq(s, 1, n)) \o s[n + 1]
<1> DEFINE p == SubSeq(s, 1, n)
           q == SubSeq(s, 1, n + 1)
<1>1. Len(s) \in Nat /\ n \in 0..Len(s) /\ n + 1 \in 0..Len(s) /\ n + 1 \in 1..Len(s)
  BY DEF IsList
<1>2. /\ IsList(p) /\ Len(p) = n /\ \A i \in 1..n : p[i] = s[i]
      /\ IsList(q) /\ Len(q) = n + 1 /\ \A i \in 1..(n + 1) : q[i] = s[i]
  BY <1>1, FirstPart
<1> HIDE DEF p, q
<1>3. PICK f : IsFlatten(f, p, n) /\ FlattenSeq(p) = IF n = 0 THEN p ELSE f[n]
  BY <1>1, <1>2, FlattenSays
<1>4. PICK g : IsFlatten(g, q, n + 1) /\ FlattenSeq(q) = g[n + 1]
  BY <1>1, <1>2, FlattenSays
<1>5. /\ \A i \in 1..n : f[i] = IF i = 1 THEN s[i] ELSE f[i - 1] \o s[i]
      /\ \A i \in 1..(n + 1) : g[i] = IF i = 1 THEN s[i] ELSE g[i - 1] \o s[i]
  <2>1. \A i \in 1..n : f[i] = IF i = 1 THEN p[i] ELSE f[i - 1] \o p[i]
    BY <1>3 DEF IsFlatten
  <2>2. \A i \in 1..(n + 1) : g[i] = IF i = 1 THEN q[i] ELSE g[i - 1] \o q[i]
    BY <1>4 DEF IsFlatten
  <2> QED
    BY <1>2, <2>1, <2>2
<1>6. \A i \in Nat : i \in 1..n => g[i] = f[i]
  <2> DEFINE T == {i \in Nat : i \in 1..n => g[i] = f[i]}
  <2>1. 0 \in T
    OBVIOUS
  <2>2. ASSUME NEW i \in Nat, i \in T PROVE i + 1 \in T
    <3>1. CASE i + 1 \in 1..n
      <4>1. i + 1 \in 1..(n + 1) /\ (i + 1) - 1 = i
        BY <1>1, <3>1
      <4>2. i + 1 = 1 \/ (i \in 1..n /\ g[i] = f[i])
        BY <2>2, <3>1
      <4> QED
        BY <1>5, <3>1, <4>1, <4>2
    <3> QED
      BY <3>1
  <2> HIDE DEF T
  <2>3. Nat \subseteq T
    BY <2>1, <2>2, AllNumbers
  <2> QED
    BY <2>3 DEF T
<1>7. CASE n = 0
  <2>1. g[n + 1] = s[n + 1]
    BY <1>1, <1>5, <1>7
  <2>2. p = <<>>
    BY <1>2, <1>7 DEF IsList
  <2>3. s[n + 1] \in Seq(ToSet(s[n + 1]))
    BY <1>1, ListIsSeq
  <2>4. <<>> \o s[n + 1] = s[n + 1]
    BY <2>3, ConcatEmptySeq
  <2> QED
    BY <1>3, <1>4, <1>7, <2>1, <2>2, <2>4 DEF p, q
<1>8. CASE n # 0
  <2>1. n + 1 # 1 /\ (n + 1) - 1 = n /\ n \in 1..n
    BY <1>1, <1>8
  <2>2. g[n + 1] = g[n] \o s[n + 1]
    <3>1. n + 1 \in 1..(n + 1)
      BY <1>1
    <3>2. g[n + 1] = IF n + 1 = 1 THEN s[n + 1] ELSE g[(n + 1) - 1] \o s[n + 1]
      BY <1>5, <3>1
    <3> QED
      BY <2>1, <3>2
  <2>3. g[n] = f[n]
    BY <1>1, <1>6, <2>1
  <2> QED
    BY <1>3, <1>4, <1>8, <2>2, <2>3 DEF p, q
<1> QED
  BY <1>7, <1>8

\* The first lists, flattened, are the first part of all, flattened, and the next
\* one comes there behind them.
LEMMA FlattenFirst ==
  ASSUME NEW s, IsList(s), \A i \in 1..Len(s) : IsList(s[i])
  PROVE  LET F(n) == FlattenSeq(SubSeq(s, 1, n))
         IN  /\ IsList(FlattenSeq(s)) /\ F(Len(s)) = FlattenSeq(s) /\ Len(F(0)) = 0
             /\ \A n \in 0..Len(s) : IsList(F(n)) /\ Len(F(n)) <= Len(FlattenSeq(s))
             /\ \A n \in 0..(Len(s) - 1) :
                  /\ Len(F(n + 1)) = Len(F(n)) + Len(s[n + 1])
                  /\ \A i \in 1..Len(s[n + 1]) : FlattenSeq(s)[Len(F(n)) + i] = s[n + 1][i]
<1> DEFINE F(n) == FlattenSeq(SubSeq(s, 1, n))
<1>1. Len(s) \in Nat
  BY DEF IsList
<1>2. IsList(F(0)) /\ Len(F(0)) = 0
  <2>1. IsList(SubSeq(s, 1, 0)) /\ Len(SubSeq(s, 1, 0)) = 0
    BY <1>1, FirstPart
  <2>2. F(0) = SubSeq(s, 1, 0)
    BY <2>1 DEF FlattenSeq
  <2> QED
    BY <2>1, <2>2
<1>3. \A n \in 0..(Len(s) - 1) : F(n + 1) = F(n) \o s[n + 1]
  BY FlattenOneMore
<1>4. F(Len(s)) = FlattenSeq(s)
  <2>1. SubSeq(s, 1, Len(s)) = s
    BY <1>1, FirstPart
  <2> QED
    BY <2>1
<1> HIDE DEF F
<1>5. \A n \in Nat : n \in 0..Len(s) => IsList(F(n))
  <2> DEFINE T == {n \in Nat : n \in 0..Len(s) => IsList(F(n))}
  <2>1. 0 \in T
    BY <1>2
  <2>2. ASSUME NEW n \in Nat, n \in T PROVE n + 1 \in T
    <3>1. CASE n + 1 \in 0..Len(s)
      <4>1. n \in 0..(Len(s) - 1) /\ n \in 0..Len(s) /\ n + 1 \in 1..Len(s)
        BY <1>1, <3>1
      <4>2. IsList(F(n)) /\ IsList(s[n + 1])
        BY <2>2, <4>1
      <4>3. F(n + 1) = F(n) \o s[n + 1]
        BY <1>3, <4>1
      <4>4. IsList(F(n + 1))
        BY <4>2, <4>3, ConcatLists
      <4> QED
        BY <4>4
    <3> QED
      BY <3>1
  <2> HIDE DEF T
  <2>3. Nat \subseteq T
    BY <2>1, <2>2, AllNumbers
  <2> QED
    BY <2>3 DEF T
<1>6. \A n \in 0..(Len(s) - 1) :
        /\ n \in 0..Len(s) /\ n + 1 \in 0..Len(s) /\ n + 1 \in 1..Len(s) /\ n \in Nat
        /\ IsList(F(n)) /\ IsList(F(n + 1)) /\ IsList(s[n + 1])
  BY <1>1, <1>5
<1>7. ASSUME NEW n \in 0..(Len(s) - 1)
      PROVE  /\ Len(F(n + 1)) = Len(F(n)) + Len(s[n + 1])
             /\ Len(F(n)) \in Nat /\ Len(F(n)) <= Len(F(n + 1))
             /\ \A i \in 1..Len(F(n)) : F(n + 1)[i] = F(n)[i]
             /\ \A i \in 1..Len(s[n + 1]) : F(n + 1)[Len(F(n)) + i] = s[n + 1][i]
  <2>1. /\ IsList(F(n)) /\ IsList(s[n + 1]) /\ F(n + 1) = F(n) \o s[n + 1]
    BY <1>3, <1>6
  <2>2. /\ DOMAIN F(n) = 1..Len(F(n)) /\ DOMAIN s[n + 1] = 1..Len(s[n + 1])
        /\ Len(F(n)) \in Nat /\ Len(s[n + 1]) \in Nat
    BY <2>1, ListIsSeq
  <2> QED
    BY <2>1, <2>2, ConcatLists
<1>8. ASSUME NEW n \in 0..Len(s)
      PROVE  \A m \in Nat : m \in n..Len(s) =>
               Len(F(n)) <= Len(F(m)) /\ \A i \in 1..Len(F(n)) : F(m)[i] = F(n)[i]
  <2> DEFINE T == {m \in Nat : m \in n..Len(s) =>
                     Len(F(n)) <= Len(F(m)) /\ \A i \in 1..Len(F(n)) : F(m)[i] = F(n)[i]}
  <2>0. Len(F(n)) \in Nat /\ n \in Nat
    BY <1>5 DEF IsList
  <2>1. 0 \in T
    <3>1. 0 \in n..Len(s) => n = 0
      BY <2>0
    <3> QED
      BY <2>0, <3>1
  <2>2. ASSUME NEW m \in Nat, m \in T PROVE m + 1 \in T
    <3>1. CASE m + 1 \in n..Len(s) /\ n = m + 1
      BY <2>0, <3>1
    <3>2. CASE m + 1 \in n..Len(s) /\ n # m + 1
      <4>1. m \in n..Len(s) /\ m \in 0..(Len(s) - 1)
        BY <1>1, <2>0, <3>2
      <4>2. Len(F(n)) <= Len(F(m)) /\ \A i \in 1..Len(F(n)) : F(m)[i] = F(n)[i]
        BY <2>2, <4>1
      <4>3. /\ Len(F(m)) \in Nat /\ Len(F(m)) <= Len(F(m + 1)) /\ Len(F(m + 1)) \in Nat
            /\ \A i \in 1..Len(F(m)) : F(m + 1)[i] = F(m)[i]
        BY <1>6, <1>7, <4>1 DEF IsList
      <4>4. \A i \in 1..Len(F(n)) : i \in 1..Len(F(m))
        BY <2>0, <4>2, <4>3
      <4>5. Len(F(n)) <= Len(F(m + 1)) /\ \A i \in 1..Len(F(n)) : F(m + 1)[i] = F(n)[i]
        BY <2>0, <4>2, <4>3, <4>4
      <4> QED
        BY <4>5
    <3>3. CASE m + 1 \notin n..Len(s)
      BY <3>3
    <3> QED
      BY <3>1, <3>2, <3>3
  <2> HIDE DEF T
  <2>3. Nat \subseteq T
    BY <2>1, <2>2, AllNumbers
  <2> QED
    BY <2>3 DEF T
<1>9. \A n \in 0..Len(s) :
        /\ IsList(F(n)) /\ Len(F(n)) <= Len(FlattenSeq(s))
        /\ \A i \in 1..Len(F(n)) : FlattenSeq(s)[i] = F(n)[i]
  <2>1. \A n \in 0..Len(s) : n \in Nat /\ Len(s) \in n..Len(s)
    BY <1>1
  <2> QED
    BY <1>1, <1>4, <1>5, <1>8, <2>1
<1>10. ASSUME NEW n \in 0..(Len(s) - 1), NEW i \in 1..Len(s[n + 1])
       PROVE  FlattenSeq(s)[Len(F(n)) + i] = s[n + 1][i]
  <2>1. /\ F(n + 1)[Len(F(n)) + i] = s[n + 1][i]
        /\ Len(F(n + 1)) = Len(F(n)) + Len(s[n + 1]) /\ Len(F(n)) \in Nat
    BY <1>7
  <2>2. Len(s[n + 1]) \in Nat
    BY <1>6 DEF IsList
  <2>3. Len(F(n)) + i \in 1..Len(F(n + 1))
    BY <2>1, <2>2
  <2>4. FlattenSeq(s)[Len(F(n)) + i] = F(n + 1)[Len(F(n)) + i]
    BY <1>6, <1>9, <2>3
  <2> QED
    BY <2>1, <2>4
<1>11. IsList(FlattenSeq(s))
  BY <1>1, <1>4, <1>5
<1> QED
  BY <1>2, <1>4, <1>7, <1>9, <1>10, <1>11 DEF F

----------------------------------------------------------------------------
\* Texts and their chunks

\* The lines of a chunk.  Those of a region begin with its start anchor and have
\* the end anchor last, and only there.
LinesAre(kind, c) ==
  LET l == LinesOf(kind, c)
      p == Strips[kind][c.pattern]
  IN  /\ IsList(l) /\ Len(l) > 0 /\ DOMAIN l = 1..Len(l) /\ Len(l) \in Nat
      /\ ~IsRegion(c) => l = <<c>> /\ Len(l) = 1 /\ l[1] = c
      /\ IsRegion(c) => /\ c.pattern \in DOMAIN Strips[kind]
                        /\ l[1].is = p.start /\ l[Len(l)].is = p.end
                        /\ \A j \in 1..(Len(l) - 1) : l[j].is # p.end

LEMMA LinesOfSay ==
  ASSUME NEW kind, NEW chunks, IsText(kind, chunks), NEW i \in DOMAIN chunks
  PROVE  LinesAre(kind, chunks[i])
<1> DEFINE c == chunks[i]
           l == LinesOf(kind, c)
           p == Strips[kind][c.pattern]
<1>1. CASE ~IsRegion(c)
  <2>1. l = <<c>>
    BY <1>1 DEF LinesOf
  <2>2. IsList(<<c>>) /\ Len(<<c>>) = 1 /\ <<c>>[1] = c /\ DOMAIN <<c>> = 1..1
    BY DEF IsList
  <2> HIDE DEF c, l
  <2> QED
    BY <1>1, <2>1, <2>2 DEF c, l, LinesAre
<1>2. CASE IsRegion(c)
  <2> DEFINE Anchor(is) == <<[is |-> is, rest |-> c.rest]>>
  <2>1. c.pattern \in DOMAIN Strips[kind] /\ IsList(c.body)
    BY <1>2 DEF IsText
  <2>2. \A x \in ToSet(c.body) : x.is # p.end
    BY <1>2 DEF IsText
  <2>3. \A is : /\ IsList(Anchor(is)) /\ Len(Anchor(is)) = 1 /\ DOMAIN Anchor(is) = 1..1
                /\ Anchor(is)[1].is = is
    BY DEF IsList
  <2>4. l = IF p.start = p.end THEN Anchor(p.start) ELSE Anchor(p.start) \o c.body \o Anchor(p.end)
    BY <1>2 DEF LinesOf
  <2> HIDE DEF Anchor, l, p, c
  <2>5. CASE p.start = p.end
    <3>1. l = Anchor(p.start)
      BY <2>4, <2>5
    <3>2. IsList(l) /\ Len(l) = 1 /\ DOMAIN l = 1..1 /\ l[1].is = p.start
      BY <2>3, <3>1
    <3> QED
      BY <1>2, <2>1, <2>5, <3>2 DEF c, l, p, LinesAre
  <2>6. CASE p.start # p.end
    <3> DEFINE a == Anchor(p.start) \o c.body
               n == Len(c.body)
    <3>1. n \in Nat /\ DOMAIN c.body = 1..n
      BY <2>1 DEF IsList
    <3>2. /\ IsList(a) /\ Len(a) = 1 + n
          /\ a[1] = Anchor(p.start)[1]
          /\ \A j \in 2..(1 + n) : a[j] = c.body[j - 1]
      <4> DEFINE b == Anchor(p.start)
                 d == c.body
      <4>1. IsList(b) /\ IsList(d) /\ Len(b) = 1
        BY <2>1, <2>3
      <4>2. a = b \o d
        OBVIOUS
      <4> HIDE DEF a, b, d
      <4> QED
        <5>1. IsList(a) /\ Len(a) = 1 + Len(d)
          BY <4>1, <4>2, ConcatLists
        <5>2. a[1] = b[1]
          BY <4>1, <4>2, OneAndList
        <5>3. \A j \in 2..(1 + Len(d)) : a[j] = d[j - 1]
          BY <4>1, <4>2, OneAndList
        <5> QED
          BY <5>1, <5>2, <5>3 DEF b, d
    <3>3. a[1].is = p.start
      <4>1. a[1] = Anchor(p.start)[1]
        BY <3>2
      <4> HIDE DEF a
      <4> QED
        BY <2>3, <4>1
    <3>4. \A j \in 2..(1 + n) : a[j].is # p.end
      <4>1. \A j \in 2..(1 + n) : a[j] = c.body[j - 1]
        BY <3>1, <3>2
      <4>2. \A j \in 2..(1 + n) : c.body[j - 1] \in ToSet(c.body)
        BY <3>1 DEF ToSet
      <4> QED
        BY <2>2, <4>1, <4>2
    <3> HIDE DEF a, n
    <3>5. l = a \o Anchor(p.end)
      BY <2>4, <2>6 DEF a
    <3>6. DOMAIN a = 1..(1 + n)
      BY <3>2, ListIsSeq
    <3>7. /\ IsList(l) /\ Len(l) = (1 + n) + 1
          /\ \A j \in 1..(1 + n) : l[j] = a[j]
          /\ l[(1 + n) + 1] = Anchor(p.end)[1]
      <4> DEFINE e == Anchor(p.end)
      <4>1. IsList(e) /\ Len(e) = 1 /\ l = a \o e
        BY <2>3, <3>5
      <4> HIDE DEF e, l
      <4>2. IsList(l) /\ Len(l) = Len(a) + 1
        BY <3>2, <4>1, ConcatLists
      <4>3. l[Len(a) + 1] = e[1]
        BY <3>2, <4>1, ListAndOne
      <4>4. \A j \in 1..Len(a) : l[j] = a[j]
        BY <3>2, <4>1, ListAndOne
      <4> QED
        BY <3>2, <4>2, <4>3, <4>4 DEF e
    <3>8. l[1].is = p.start /\ l[Len(l)].is = p.end
      <4>1. 1 \in 1..(1 + n)
        BY <3>1 DEF n
      <4>2. l[1] = a[1] /\ l[(1 + n) + 1] = Anchor(p.end)[1]
        BY <2>3, <3>7, <4>1
      <4> QED
        BY <2>3, <3>3, <3>7, <4>2
    <3>9. ASSUME NEW j \in 1..(Len(l) - 1) PROVE l[j].is # p.end
      <4>1. n \in Nat
        BY <3>1 DEF n
      <4>2. j \in 1..(1 + n) /\ l[j] = a[j]
        BY <3>7, <4>1
      <4>3. j = 1 \/ j \in 2..(1 + n)
        BY <4>1, <4>2
      <4> QED
        BY <2>6, <3>3, <3>4, <4>2, <4>3
    <3>10. DOMAIN l = 1..Len(l) /\ Len(l) \in Nat /\ Len(l) > 0
      <4>1. n \in Nat
        BY <3>1 DEF n
      <4> QED
        BY <3>7, <4>1, ListIsSeq
    <3> QED
      BY <1>2, <2>1, <3>7, <3>8, <3>9, <3>10 DEF c, l, p, LinesAre
  <2> QED
    BY <2>5, <2>6
<1> QED
  BY <1>1, <1>2

\* No two patterns begin alike.
LEMMA StartsDiffer ==
  \A kind \in DOMAIN Strips : \A i, j \in DOMAIN Strips[kind] :
    Strips[kind][i].start = Strips[kind][j].start => i = j
<1>1. \A i, j \in DOMAIN Strips.validator :
        Strips.validator[i].start = Strips.validator[j].start => i = j
  <2> DEFINE v == Strips.validator
  <2>1. DOMAIN v = 1..3
    BY DEF Strips
  <2>2. /\ v[1].start = "The contract is" /\ v[2].start = "def inventory_files"
        /\ v[3].start = "        / contract"
    BY DEF Strips, Anchors
  <2>3. \A i \in 1..3 : i = 1 \/ i = 2 \/ i = 3
    OBVIOUS
  <2> HIDE DEF v
  <2>4. \A i, j \in DOMAIN v : v[i].start = v[j].start => i = j
    BY <2>1, <2>2, <2>3
  <2> QED
    BY <2>4 DEF v
<1>2. \A i, j \in DOMAIN Strips.harness :
        Strips.harness[i].start = Strips.harness[j].start => i = j
  <2> DEFINE v == Strips.harness
  <2>1. DOMAIN v = 1..6
    BY DEF Strips
  <2>2. /\ v[1].start = "EXPECTED_BAD_CONTRACT_FAILURES" /\ v[2].start = "EXPECTED_BAD_FAILURES"
        /\ v[3].start = "    default_contract" /\ v[4].start = "    for rel in"
        /\ v[5].start = "        malformed_contract" /\ v[6].start = "        help="
    BY DEF Strips, Anchors
  <2>3. \A i \in 1..6 : i = 1 \/ i = 2 \/ i = 3 \/ i = 4 \/ i = 5 \/ i = 6
    OBVIOUS
  <2> HIDE DEF v
  <2>4. \A i, j \in DOMAIN v : v[i].start = v[j].start => i = j
    BY <2>1, <2>2, <2>3
  <2> QED
    BY <2>4 DEF v
<1>3. DOMAIN Strips = {"validator", "harness"}
  BY DEF Strips
<1> QED
  BY <1>1, <1>2, <1>3

\* The first n chunks of a text are rendered as the first part of it.
LEMMA RenderFirst ==
  ASSUME NEW kind, NEW chunks, IsText(kind, chunks)
  PROVE  LET s == [i \in DOMAIN chunks |-> LinesOf(kind, chunks[i])]
         IN  /\ IsList(s) /\ Len(s) = Len(chunks) /\ DOMAIN chunks = 1..Len(chunks)
             /\ \A i \in 1..Len(s) : IsList(s[i])
             /\ Render(kind, chunks) = FlattenSeq(s)
             /\ \A n \in 0..Len(s) :
                  Render(kind, SubSeq(chunks, 1, n)) = FlattenSeq(SubSeq(s, 1, n))
<1> DEFINE s == [i \in DOMAIN chunks |-> LinesOf(kind, chunks[i])]
<1>1. IsList(chunks) /\ Len(chunks) \in Nat /\ DOMAIN chunks = 1..Len(chunks)
  BY ListIsSeq DEF IsText
<1>2. IsList(s) /\ Len(s) = Len(chunks)
  BY <1>1 DEF IsList
<1>3. \A i \in 1..Len(s) : s[i] = LinesOf(kind, chunks[i]) /\ IsList(s[i])
  BY <1>1, <1>2, LinesOfSay DEF LinesAre
<1>4. Render(kind, chunks) = FlattenSeq(s)
  BY DEF Render
<1>5. ASSUME NEW n \in 0..Len(s)
      PROVE  Render(kind, SubSeq(chunks, 1, n)) = FlattenSeq(SubSeq(s, 1, n))
  <2> DEFINE c == SubSeq(chunks, 1, n)
             t == [i \in DOMAIN c |-> LinesOf(kind, c[i])]
  <2> HIDE DEF s
  <2>1. IsList(c) /\ Len(c) = n /\ \A i \in 1..n : c[i] = chunks[i]
    BY <1>1, <1>2, FirstPart
  <2>2. DOMAIN c = 1..n
    BY <2>1, ListIsSeq
  <2>3. \A i \in 1..n : t[i] = s[i]
    <3>1. \A i \in 1..n : t[i] = LinesOf(kind, chunks[i])
      BY <2>1, <2>2
    <3>2. \A i \in 1..n : i \in 1..Len(s)
      BY <1>1, <1>2
    <3> HIDE DEF t, c
    <3> QED
      BY <1>3, <3>1, <3>2
  <2>4. IsList(t) /\ Len(t) = n
    BY <1>1, <1>2, <2>2 DEF IsList
  <2>5. IsList(SubSeq(s, 1, n)) /\ Len(SubSeq(s, 1, n)) = n
        /\ \A i \in 1..n : SubSeq(s, 1, n)[i] = s[i]
    BY <1>2, FirstPart
  <2> HIDE DEF t
  <2>6. t = SubSeq(s, 1, n)
    BY <2>3, <2>4, <2>5, ListsEqual
  <2> QED
    BY <2>6 DEF Render, t
<1> HIDE DEF s
<1> QED
  BY <1>1, <1>2, <1>3, <1>4, <1>5 DEF s

\* Where the chunks of a text are.
LEMMA OffsetsSay ==
  ASSUME NEW kind, NEW chunks, IsText(kind, chunks)
  PROVE  LET text == Render(kind, chunks)
             L(n) == LinesOf(kind, chunks[n])
             Off(n) == Offset(kind, chunks, n)
         IN  /\ IsList(text) /\ Off(Len(chunks)) = Len(text) /\ Off(0) = 0
             /\ \A n \in 0..Len(chunks) : Off(n) \in Nat /\ Off(n) <= Len(text)
             /\ \A n \in 1..Len(chunks) :
                  /\ Off(n) = Off(n - 1) + Len(L(n))
                  /\ \A i \in 1..Len(L(n)) : text[Off(n - 1) + i] = L(n)[i]
<1> DEFINE s == [i \in DOMAIN chunks |-> LinesOf(kind, chunks[i])]
<1>1. /\ IsList(s) /\ Len(s) = Len(chunks) /\ DOMAIN chunks = 1..Len(chunks)
      /\ \A i \in 1..Len(s) : IsList(s[i])
      /\ Render(kind, chunks) = FlattenSeq(s)
      /\ \A n \in 0..Len(s) :
           Render(kind, SubSeq(chunks, 1, n)) = FlattenSeq(SubSeq(s, 1, n))
  BY RenderFirst
<1>2. \A n \in 1..Len(chunks) : s[n] = LinesOf(kind, chunks[n])
  BY <1>1
<1> HIDE DEF s
<1> DEFINE F(n) == FlattenSeq(SubSeq(s, 1, n))
           text == FlattenSeq(s)
<1>3. /\ IsList(text) /\ F(Len(s)) = text /\ Len(F(0)) = 0
      /\ \A n \in 0..Len(s) : IsList(F(n)) /\ Len(F(n)) <= Len(text)
      /\ \A n \in 0..(Len(s) - 1) :
           /\ Len(F(n + 1)) = Len(F(n)) + Len(s[n + 1])
           /\ \A i \in 1..Len(s[n + 1]) : text[Len(F(n)) + i] = s[n + 1][i]
  BY <1>1, FlattenFirst
<1>4. Len(s) \in Nat
  BY <1>1 DEF IsList
<1>5. \A n \in 0..Len(s) : Offset(kind, chunks, n) = Len(F(n)) /\ Len(F(n)) \in Nat
  BY <1>1, <1>3 DEF Offset, IsList
<1>6. Render(kind, chunks) = text
  BY <1>1
<1> HIDE DEF F, text
<1>7. ASSUME NEW n \in 1..Len(chunks)
      PROVE  /\ Offset(kind, chunks, n) = Offset(kind, chunks, n - 1) + Len(LinesOf(kind, chunks[n]))
             /\ \A i \in 1..Len(LinesOf(kind, chunks[n])) :
                  text[Offset(kind, chunks, n - 1) + i] = LinesOf(kind, chunks[n])[i]
  <2>1. n - 1 \in 0..(Len(s) - 1) /\ (n - 1) + 1 = n /\ n - 1 \in 0..Len(s) /\ n \in 0..Len(s)
    BY <1>1, <1>4
  <2>2. /\ Len(F((n - 1) + 1)) = Len(F(n - 1)) + Len(s[(n - 1) + 1])
        /\ \A i \in 1..Len(s[(n - 1) + 1]) : text[Len(F(n - 1)) + i] = s[(n - 1) + 1][i]
    BY <1>3, <2>1
  <2> QED
    BY <1>2, <1>5, <2>1, <2>2
<1>8. 0 \in 0..Len(s) /\ Len(s) \in 0..Len(s)
  BY <1>4
<1>9. Offset(kind, chunks, Len(chunks)) = Len(text) /\ Offset(kind, chunks, 0) = 0
  BY <1>1, <1>3, <1>5, <1>8
<1>10. \A n \in 0..Len(chunks) :
         Offset(kind, chunks, n) \in Nat /\ Offset(kind, chunks, n) <= Len(text)
  BY <1>1, <1>3, <1>5
<1> QED
  BY <1>3, <1>6, <1>7, <1>9, <1>10

\* The lines of the next chunk come next.
NextIs(kind, chunks, n) ==
  LET L == LinesOf(kind, chunks[n + 1])
      text == Render(kind, chunks)
  IN  /\ Len(L) \in Nat /\ Len(L) > 0 /\ Len(text) \in Nat
      /\ Offset(kind, chunks, n) \in Nat
      /\ Offset(kind, chunks, n + 1) = Offset(kind, chunks, n) + Len(L)
      /\ Offset(kind, chunks, n + 1) <= Len(text)
      /\ \A i \in 1..Len(L) : text[Offset(kind, chunks, n) + i] = L[i]

LEMMA NextChunk ==
  ASSUME NEW kind, NEW chunks, IsText(kind, chunks), NEW n \in 0..(Len(chunks) - 1)
  PROVE  NextIs(kind, chunks, n)
<1> DEFINE L(m) == LinesOf(kind, chunks[m])
           text == Render(kind, chunks)
           Off(m) == Offset(kind, chunks, m)
<1>1. Len(chunks) \in Nat /\ DOMAIN chunks = 1..Len(chunks)
  BY ListIsSeq DEF IsText
<1>2. /\ n + 1 \in DOMAIN chunks /\ n + 1 \in 1..Len(chunks) /\ n + 1 \in 0..Len(chunks)
      /\ (n + 1) - 1 = n /\ n \in 0..Len(chunks)
  BY <1>1
<1>3. Len(L(n + 1)) \in Nat /\ Len(L(n + 1)) > 0
  BY <1>2, LinesOfSay DEF LinesAre
<1>4. /\ IsList(text)
      /\ \A m \in 0..Len(chunks) : Off(m) \in Nat /\ Off(m) <= Len(text)
      /\ \A m \in 1..Len(chunks) : /\ Off(m) = Off(m - 1) + Len(L(m))
                                   /\ \A i \in 1..Len(L(m)) : text[Off(m - 1) + i] = L(m)[i]
  BY OffsetsSay
<1> HIDE DEF L, text, Off
<1>5. /\ Off(n + 1) = Off((n + 1) - 1) + Len(L(n + 1))
      /\ \A i \in 1..Len(L(n + 1)) : text[Off((n + 1) - 1) + i] = L(n + 1)[i]
  BY <1>2, <1>4
<1>6. Len(text) \in Nat /\ Off(n) \in Nat /\ Off(n + 1) <= Len(text)
  BY <1>2, <1>4 DEF IsList
<1> QED
  BY <1>2, <1>3, <1>5, <1>6 DEF L, text, Off, NextIs

\* What is behind the first chunks is in a later one.
LEMMA ChunkOfLine ==
  ASSUME NEW kind, NEW chunks, IsText(kind, chunks), NEW n \in 0..Len(chunks),
         NEW j \in (Offset(kind, chunks, n) + 1)..Len(Render(kind, chunks))
  PROVE  \E m \in (n + 1)..Len(chunks) :
           Render(kind, chunks)[j] \in ToSet(LinesOf(kind, chunks[m]))
<1> DEFINE text == Render(kind, chunks)
           Off(m) == Offset(kind, chunks, m)
           L(m) == LinesOf(kind, chunks[m])
           S == {m \in n..Len(chunks) : j <= Off(m)}
<1>1. Len(chunks) \in Nat /\ DOMAIN chunks = 1..Len(chunks) /\ n \in Nat
  <2>1. Len(chunks) \in Nat /\ DOMAIN chunks = 1..Len(chunks)
    BY ListIsSeq DEF IsText
  <2> QED
    BY <2>1
<1>2. /\ Off(Len(chunks)) = Len(text)
      /\ \A m \in 0..Len(chunks) : Off(m) \in Nat /\ Off(m) <= Len(text)
      /\ \A m \in 1..Len(chunks) : /\ Off(m) = Off(m - 1) + Len(L(m))
                                   /\ \A i \in 1..Len(L(m)) : text[Off(m - 1) + i] = L(m)[i]
  BY OffsetsSay
<1>3. \A m \in 1..Len(chunks) : DOMAIN L(m) = 1..Len(L(m)) /\ Len(L(m)) \in Nat
  BY <1>1, LinesOfSay DEF LinesAre
<1>4. j \in (Off(n) + 1)..Len(text)
  OBVIOUS
<1> HIDE DEF text, Off, L
<1>5. S \in SUBSET Nat /\ S # {}
  BY <1>1, <1>2, <1>4
<1> DEFINE m == Least(S)
<1>6. m \in S /\ \A k \in S : m <= k
  BY <1>5, LeastNumber
<1>7. m \in n..Len(chunks) /\ j <= Off(m)
  BY <1>6
<1> HIDE DEF m
<1>8. m # n
  BY <1>1, <1>2, <1>4, <1>7
<1>9. m \in (n + 1)..Len(chunks) /\ m \in 1..Len(chunks) /\ m - 1 \in n..Len(chunks)
      /\ m - 1 \in 0..Len(chunks) /\ ~(m <= m - 1)
  BY <1>1, <1>7, <1>8
<1>10. ~(j <= Off(m - 1))
  BY <1>6, <1>9
<1>11. j - Off(m - 1) \in 1..Len(L(m)) /\ Off(m - 1) + (j - Off(m - 1)) = j
  <2>1. Off(m) = Off(m - 1) + Len(L(m)) /\ Off(m - 1) \in Nat /\ Len(L(m)) \in Nat
    BY <1>2, <1>3, <1>9
  <2>2. j \in Int
    BY <1>1, <1>2, <1>4
  <2> QED
    BY <1>7, <1>10, <2>1, <2>2
<1>12. text[j] = L(m)[j - Off(m - 1)]
  BY <1>2, <1>9, <1>11
<1>13. text[j] \in ToSet(L(m))
  BY <1>3, <1>9, <1>11, <1>12 DEF ToSet
<1> QED
  BY <1>9, <1>13 DEF text, L

----------------------------------------------------------------------------
\* Workflows

\* Each file of a scan of blocks is a workflow.
LEMMA FilesAreWorkflows ==
  ASSUME IsScan(scan), scan.kind = "blocks", NEW f \in DOMAIN scan.files
  PROVE  /\ IsWorkflow(scan.files[f]) /\ IsList(scan.files[f])
         /\ Len(scan.files[f]) \in Nat /\ DOMAIN scan.files[f] = 1..Len(scan.files[f])
         /\ \A i \in DOMAIN scan.files[f] : IsLine(scan.files[f][i])
<1>1. IsWorkflow(scan.files[f])
  BY DEF IsScan
<1> QED
  BY <1>1 DEF IsWorkflow, IsList

\* What is deeper than a line is a run of lines behind it.
LEMMA DeeperSays ==
  ASSUME NEW lines, IsList(lines), NEW i \in DOMAIN lines
  PROVE  /\ \A j \in Deeper(lines, i) :
              /\ j \in DOMAIN lines /\ i < j
              /\ lines[j].key = "blank" \/ lines[j].indent > lines[i].indent
              /\ \A k \in (i + 1)..j : k \in Deeper(lines, i)
         /\ i + 1 \notin Deeper(lines, i) => Deeper(lines, i) = {}
         /\ \A j \in Deeper(lines, i) \cup {i} :
              j + 1 \in DOMAIN lines
                /\ (lines[j + 1].key = "blank" \/ lines[j + 1].indent > lines[i].indent)
              => j + 1 \in Deeper(lines, i)
BY DEF IsList, Deeper

\* No script is in the block of another line.
LEMMA NoScriptInside ==
  ASSUME NEW lines, IsWorkflow(lines), NEW i \in DOMAIN lines, NEW j \in Deeper(lines, i),
         lines[i].key = "run", lines[i].value = "block"
  PROVE  ~IsRunKey(lines[j])
<1>1. CASE lines[i].of = 0
  <2>1. IsRunKey(lines[i])
    BY <1>1 DEF IsRunKey
  <2> QED
    BY <2>1 DEF IsWorkflow
<1>2. CASE lines[i].of # 0
  <2>1. lines[j].key = "blank" \/ lines[j].of = lines[i].of
    BY <1>2 DEF IsWorkflow
  <2> QED
    BY <1>2, <2>1 DEF IsRunKey
<1> QED
  BY <1>1, <1>2

\* The script of a run key is in its block, and what else is there is blank or
\* belongs to the same step.
LEMMA BlockOfScript ==
  ASSUME IsScan(scan), scan.kind = "blocks",
         NEW f \in DOMAIN scan.files, NEW i \in RunKeys(f)
  PROVE  /\ ScriptOf(f, i) \subseteq BlockOf(f, i).body
         /\ \A j \in BlockOf(f, i).body :
              \/ j \in ScriptOf(f, i) \cup Following(f, i)
              \/ scan.files[f][j].key = "blank"
<1> DEFINE lines == scan.files[f]
<1>1. /\ IsWorkflow(lines) /\ IsList(lines)
      /\ Len(lines) \in Nat /\ DOMAIN lines = 1..Len(lines)
  BY FilesAreWorkflows
<1>2. i \in DOMAIN lines /\ IsRunKey(lines[i])
  BY DEF RunKeys
<1>3. \A j \in DOMAIN lines : lines[j].indent \in Nat
  BY <1>1 DEF IsWorkflow, IsLine
<1>4. CASE lines[i].value = "line"
  <2>1. BlockOf(f, i).body = {i} /\ ScriptOf(f, i) = {i}
    BY <1>4 DEF BlockOf, ScriptOf
  <2> QED
    BY <2>1
<1>5. CASE lines[i].value # "line"
  <2>1. lines[i].value = "block"
    <3>1. IsLine(lines[i])
      BY <1>1, <1>2 DEF IsWorkflow
    <3>2. lines[i].key = "run" /\ lines[i].value \in ValueOf["run"]
      BY <1>2, <3>1 DEF IsLine, IsRunKey
    <3>3. lines[i].value \in {"block", "line", ""}
      BY <3>2 DEF ValueOf
    <3> QED
      BY <1>2, <1>5, <3>3 DEF IsRunKey
  <2>2. /\ BlockOf(f, i).body = Deeper(lines, i)
        /\ ScriptOf(f, i) = {j \in DOMAIN lines : lines[j].of = i}
    BY <1>5 DEF BlockOf, ScriptOf
  <2>3. ASSUME NEW j \in DOMAIN lines, lines[j].of = i PROVE j \in Deeper(lines, i)
    <3>1. i # 0
      BY <1>1, <1>2
    <3> QED
      BY <1>1, <2>3, <3>1 DEF IsWorkflow
  <2>4. ASSUME NEW j \in Deeper(lines, i), lines[j].key # "blank", lines[j].of # i
        PROVE  j \in Following(f, i)
    <3>1. lines[i].dash
      BY <1>1, <1>2, <2>1, <2>4 DEF IsWorkflow
    <3>2. /\ j \in DOMAIN lines /\ i < j
          /\ \A k \in (i + 1)..j : lines[k].key = "blank" \/ lines[k].indent > lines[i].indent
      BY <1>1, <1>2, DeeperSays
    <3>3. j \in (i + 1)..Len(lines)
      BY <1>1, <1>2, <3>2
    <3> QED
      BY <2>1, <3>1, <3>2, <3>3 DEF Following
  <2>5. \A j \in Deeper(lines, i) : j \in DOMAIN lines
    BY <1>1, <1>2, DeeperSays
  <2> HIDE DEF lines
  <2> QED
    BY <2>2, <2>3, <2>4, <2>5 DEF lines
<1> QED
  BY <1>4, <1>5

----------------------------------------------------------------------------
\* Run blocks: the steps

\* What only depends on the scan stays.
LEMMA ScanStays ==
  ASSUME UNCHANGED scan
  PROVE  /\ \A f : RunKeys(f)' = RunKeys(f)
         /\ \A f, i : BlockOf(f, i)' = BlockOf(f, i)
         /\ \A b : Parses(b)' <=> Parses(b)
         /\ \A f : Skeleton(f)' = Skeleton(f)
BY DEF RunKeys, BlockOf, Parses, Accepted, Written, Skeleton

\* The text of a file that is being scanned for blocks.
LEMMA TextOfBlocks ==
  ASSUME TypeOK, scan.kind = "blocks", file <= Len(scan.files)
  PROVE  /\ file \in DOMAIN scan.files /\ Text = scan.files[file]
         /\ IsWorkflow(Text) /\ IsList(Text)
         /\ Len(Text) \in Nat /\ DOMAIN Text = 1..Len(Text)
         /\ at \in 1..(Len(Text) + 1) /\ open \in 0..(at - 1) /\ open \in 0..Len(Text)
         /\ \A i \in DOMAIN Text : IsLine(Text[i])
<1>1. IsScan(scan) /\ file \in 1..(Len(scan.files) + 1)
  BY DEF TypeOK
<1>2. Len(scan.files) \in Nat /\ DOMAIN scan.files = 1..Len(scan.files)
  BY <1>1 DEF IsScan, IsList
<1>3. file \in DOMAIN scan.files
  BY <1>1, <1>2
<1>4. Text = scan.files[file]
  BY DEF Text
<1>5. /\ IsWorkflow(Text) /\ IsList(Text) /\ Len(Text) \in Nat /\ DOMAIN Text = 1..Len(Text)
      /\ \A i \in DOMAIN Text : IsLine(Text[i])
  BY <1>1, <1>3, <1>4, FilesAreWorkflows
<1>6. at \in 1..(Len(Text) + 1) /\ open \in 0..(at - 1)
  BY <1>2, <1>3 DEF TypeOK
<1> QED
  BY <1>3, <1>4, <1>5, <1>6

\* Types, for a step to the next line or back to no open block.
LEMMA TypeOfLine ==
  ASSUME TypeOK, InLine, scan.kind = "blocks", UNCHANGED <<scan, file, exit>>,
         at' \in {at, at + 1}, open' \in {0, open, at}, open' = at => at' = at + 1
  PROVE  TypeOK'
<1>1. file <= Len(scan.files) /\ at <= Len(Text)
  BY DEF InLine, InFile
<1>2. Text' = Text
  BY DEF Text
<1>3. Len(Text) \in Nat /\ at \in 1..(Len(Text) + 1) /\ open \in 0..(at - 1)
  BY <1>1, TextOfBlocks
<1>4. file <= Len(scan.files) /\ file \in 1..(Len(scan.files) + 1) /\ Len(scan.files) \in Nat
  BY <1>1 DEF TypeOK, IsScan, IsList
<1>5. at' \in 1..(Len(Text) + 1) /\ open' \in 0..(at' - 1)
  <2>1. CASE at' = at /\ open' \in {0, open}
    BY <1>1, <1>3, <2>1
  <2>2. CASE at' = at + 1
    BY <1>1, <1>3, <2>2
  <2>3. open' # at \/ at' = at + 1
    OBVIOUS
  <2> QED
    BY <2>1, <2>2, <2>3
<1>6. ~(file' > Len(scan.files)')
  BY <1>4
<1>7. IsScan(scan)' /\ file' \in 1..(Len(scan.files') + 1) /\ exit' \in {"none", "zero", "one"}
  BY <1>4 DEF TypeOK
<1> QED
  BY <1>2, <1>5, <1>6, <1>7 DEF TypeOK

\* The block of the run key just passed is all that the blocks lack.
LEMMA OneMoreLine ==
  ASSUME IInv, InLine, scan.kind = "blocks", open = 0, UNCHANGED <<scan, file>>, at' = at + 1,
         blocks \subseteq blocks', at \in RunKeys(file) => open' = at \/ BlockOf(file, at) \in blocks'
  PROVE  BlocksAreAll'
<1> SUFFICES ASSUME NEW f \in DOMAIN scan.files, NEW i \in RunKeys(f),
                    f < file \/ (f = file /\ i < at + 1 /\ i # open')
             PROVE  BlockOf(f, i) \in blocks'
  BY ScanStays DEF BlocksAreAll
<1>1. at \in Nat /\ i \in Nat \ {0}
  <2>1. TypeOK /\ IsScan(scan)
    BY DEF IInv, TypeOK
  <2>2. i \in DOMAIN scan.files[f]
    BY DEF RunKeys
  <2> QED
    BY <2>1, <2>2, FilesAreWorkflows, TextOfBlocks DEF InLine, InFile
<1>2. CASE f < file \/ (f = file /\ i < at)
  <2>1. i # open
    BY <1>1
  <2>2. BlockOf(f, i) \in blocks
    BY <1>2, <2>1 DEF IInv, BlocksAreAll, BlocksAreReal
  <2> QED
    BY <2>2
<1>3. CASE f = file /\ i = at
  <2>1. file \in Nat
    BY DEF IInv, TypeOK, IsScan, IsList
  <2>2. i # open'
    BY <1>3, <2>1
  <2> QED
    BY <1>3, <2>2, Zenon
<1> QED
  BY <1>1, <1>2, <1>3

\* The blocks found stay blocks of run keys, or of lines that look like one.
LEMMA BlocksStay ==
  ASSUME IInv, scan.kind = "blocks", UNCHANGED scan,
         \A b \in blocks' :
           b \in blocks \/ \E f \in DOMAIN scan.files : \E i \in DOMAIN scan.files[f] :
             /\ scan.files[f][i].key = "run" /\ scan.files[f][i].value # ""
             /\ b = BlockOf(f, i)
  PROVE  BlocksAreReal'
<1>1. \A b \in blocks :
        \E f \in DOMAIN scan.files : \E i \in DOMAIN scan.files[f] :
          /\ scan.files[f][i].key = "run" /\ scan.files[f][i].value # ""
          /\ b = BlockOf(f, i)
  BY DEF IInv, BlocksAreAll, BlocksAreReal
<1> QED
  BY <1>1, ScanStays DEF BlocksAreReal

\* The scan has not ended.
LEMMA NotEnded ==
  ASSUME exit' = "none"
  PROVE  Ended'
BY DEF Ended

\* PassLine keeps the invariant.
LEMMA PassLineKeeps == IInv /\ PassLine => IInv'
<1> SUFFICES ASSUME IInv, PassLine PROVE IInv'
  OBVIOUS
<1>1. /\ scan.kind = "blocks" /\ open = 0 /\ InLine /\ This.key # "run" /\ at' = at + 1
      /\ UNCHANGED <<scan, file, open, blocks, exit>> /\ exit = "none"
  BY DEF PassLine, Reading, InLine, InFile
<1>2. TypeOK'
  BY <1>1, TypeOfLine DEF IInv
<1>3. at \notin RunKeys(file)
  <2>1. Text = scan.files[file]
    BY <1>1 DEF Text
  <2> QED
    BY <1>1, <2>1 DEF RunKeys, IsRunKey, This
<1>4. BlocksAreReal' /\ BlocksAreAll' /\ OpenGoesOn'
  <2>1. BlocksAreAll'
    BY <1>1, <1>3, OneMoreLine
  <2>2. BlocksAreReal'
    BY <1>1, BlocksStay
  <2> QED
    BY <1>1, <2>1, <2>2 DEF OpenGoesOn
<1> QED
  BY <1>1, <1>2, <1>4, NotEnded DEF IInv

\* RunLine keeps the invariant.
LEMMA RunLineKeeps == IInv /\ RunLine => IInv'
<1> SUFFICES ASSUME IInv, RunLine PROVE IInv'
  OBVIOUS
<1>1. /\ scan.kind = "blocks" /\ open = 0 /\ InLine /\ at' = at + 1
      /\ This.key = "run" /\ This.value # "block"
      /\ blocks' = IF This.value = "line" THEN blocks \cup {Block(at, {at})} ELSE blocks
      /\ UNCHANGED <<scan, file, open, exit>> /\ exit = "none"
  BY DEF RunLine, Reading, InLine, InFile
<1>2. TypeOK'
  BY <1>1, TypeOfLine DEF IInv
<1>3. /\ file \in DOMAIN scan.files /\ at \in DOMAIN scan.files[file]
      /\ This = scan.files[file][at] /\ IsLine(This)
  BY <1>1, TextOfBlocks DEF IInv, InLine, InFile, This
<1>4. This.value = "line" => Block(at, {at}) = BlockOf(file, at)
  BY <1>3 DEF Block, BlockOf
<1>5. at \in RunKeys(file) => BlockOf(file, at) \in blocks'
  <2>1. This.value \in {"block", "line", ""}
    <3>1. This.value \in ValueOf["run"]
      BY <1>1, <1>3 DEF IsLine
    <3> QED
      BY <3>1 DEF ValueOf
  <2>2. at \in RunKeys(file) => This.value # ""
    BY <1>3 DEF RunKeys, IsRunKey
  <2> QED
    BY <1>1, <1>4, <2>1, <2>2
<1>6. BlocksAreReal' /\ BlocksAreAll' /\ OpenGoesOn'
  <2>1. BlocksAreAll'
    BY <1>1, <1>5, OneMoreLine
  <2>2. BlocksAreReal'
    <3>1. \A b \in blocks' : b \in blocks \/ (This.value = "line" /\ b = BlockOf(file, at))
      BY <1>1, <1>4
    <3> QED
      BY <1>1, <1>3, <3>1, BlocksStay
  <2> QED
    BY <1>1, <2>1, <2>2 DEF OpenGoesOn
<1> QED
  BY <1>1, <1>2, <1>6, NotEnded DEF IInv

\* OpenBlock keeps the invariant.
LEMMA OpenBlockKeeps == IInv /\ OpenBlock => IInv'
<1> SUFFICES ASSUME IInv, OpenBlock PROVE IInv'
  OBVIOUS
<1>1. /\ scan.kind = "blocks" /\ open = 0 /\ InLine /\ at' = at + 1 /\ open' = at
      /\ This.key = "run" /\ This.value = "block"
      /\ UNCHANGED <<scan, file, blocks, exit>> /\ exit = "none"
  BY DEF OpenBlock, Reading, InLine, InFile
<1>2. TypeOK'
  BY <1>1, TypeOfLine DEF IInv
<1>3. at \in Nat /\ Text' = Text
  BY <1>1, TextOfBlocks DEF IInv, InLine, InFile, Text
<1>4. BlocksAreAll'
  BY <1>1, OneMoreLine
<1>5. BlocksAreReal'
  BY <1>1, BlocksStay
<1>6. OpenGoesOn'
  BY <1>1, <1>3 DEF OpenGoesOn, This
<1> QED
  BY <1>1, <1>2, <1>4, <1>5, <1>6, NotEnded DEF IInv

\* TakeLine keeps the invariant: no run key is taken.
LEMMA TakeLineKeeps == IInv /\ TakeLine => IInv'
<1> SUFFICES ASSUME IInv, TakeLine PROVE IInv'
  OBVIOUS
<1>1. /\ open > 0 /\ InLine /\ at' = at + 1
      /\ This.key = "blank" \/ This.indent > Text[open].indent
      /\ UNCHANGED <<scan, file, open, blocks, exit>> /\ exit = "none"
  BY DEF TakeLine, InBlock, InLine, InFile
<1>2. scan.kind = "blocks"
  BY <1>1 DEF IInv, StrippedSoFar
<1>3. TypeOK'
  BY <1>1, <1>2, TypeOfLine DEF IInv
<1>4. /\ file \in DOMAIN scan.files /\ Text = scan.files[file] /\ Text' = Text
      /\ IsWorkflow(Text) /\ IsList(Text) /\ DOMAIN Text = 1..Len(Text) /\ Len(Text) \in Nat
      /\ at \in DOMAIN Text /\ open \in DOMAIN Text /\ open < at
  BY <1>1, <1>2, TextOfBlocks DEF IInv, InLine, InFile, Text
<1>5. at \in Deeper(Text, open)
  <2>1. \A j \in (open + 1)..(at - 1) : j \in Deeper(Text, open)
    BY <1>1, <1>2 DEF IInv, OpenGoesOn
  <2>2. \A j \in Deeper(Text, open) \cup {open} :
          j + 1 \in DOMAIN Text
            /\ (Text[j + 1].key = "blank" \/ Text[j + 1].indent > Text[open].indent)
          => j + 1 \in Deeper(Text, open)
    BY <1>4, DeeperSays
  <2>3. at - 1 \in Deeper(Text, open) \cup {open} /\ (at - 1) + 1 = at
    BY <1>4, <2>1
  <2> QED
    BY <1>1, <1>4, <2>2, <2>3 DEF This
<1>6. at \notin RunKeys(file)
  <2>1. Text[open].key = "run" /\ Text[open].value = "block"
    BY <1>1, <1>2 DEF IInv, OpenGoesOn
  <2>2. ~IsRunKey(Text[at])
    BY <1>4, <1>5, <2>1, NoScriptInside
  <2> QED
    BY <1>4, <2>2 DEF RunKeys
<1>7. BlocksAreAll'
  <2> SUFFICES ASSUME NEW f \in DOMAIN scan.files, NEW i \in RunKeys(f),
                      f < file \/ (f = file /\ i < at + 1 /\ i # open)
               PROVE  BlockOf(f, i) \in blocks
    BY <1>1, ScanStays DEF BlocksAreAll
  <2>1. i # at \/ f # file
    BY <1>6
  <2>2. i \in Nat
    BY <1>2, FilesAreWorkflows DEF IInv, TypeOK, RunKeys
  <2>3. f < file \/ (f = file /\ i < at /\ i # open)
    BY <1>4, <2>1, <2>2
  <2> QED
    BY <1>2, <2>3 DEF IInv, BlocksAreAll
<1>8. BlocksAreReal'
  BY <1>1, <1>2, BlocksStay
<1>9. OpenGoesOn'
  <2>1. \A j \in (open + 1)..at : j \in Deeper(Text, open)
    BY <1>4, <1>5, DeeperSays
  <2>2. Text[open].key = "run" /\ Text[open].value = "block"
    BY <1>1, <1>2 DEF IInv, OpenGoesOn
  <2>3. at' - 1 = at
    BY <1>1, <1>4
  <2> QED
    BY <1>1, <1>4, <2>1, <2>2, <2>3 DEF OpenGoesOn
<1> QED
  BY <1>1, <1>2, <1>3, <1>7, <1>8, <1>9, NotEnded DEF IInv

\* CloseBlock keeps the invariant: the block is whole.
LEMMA CloseBlockKeeps == IInv /\ CloseBlock => IInv'
<1> SUFFICES ASSUME IInv, CloseBlock PROVE IInv'
  OBVIOUS
<1>1. /\ open > 0 /\ ~InBlock /\ open' = 0
      /\ blocks' = blocks \cup {Block(open, (open + 1)..(at - 1))}
      /\ UNCHANGED <<scan, file, at, exit>>
  BY DEF CloseBlock
<1>2. scan.kind = "blocks" /\ TypeOK
  BY <1>1 DEF IInv, StrippedSoFar
<1>3. /\ IsScan(scan) /\ Len(scan.files) \in Nat /\ file \in 1..(Len(scan.files) + 1)
      /\ DOMAIN scan.files = 1..Len(scan.files)
  BY <1>2 DEF TypeOK, IsScan, IsList
<1>4. file <= Len(scan.files)
  <2>1. file > Len(scan.files) => at = 1 /\ open = 0
    BY <1>2 DEF TypeOK
  <2> QED
    BY <1>1, <1>3, <2>1
<1>5. exit = "none"
  BY <1>3, <1>4 DEF IInv, Ended
<1>6. /\ file \in DOMAIN scan.files /\ Text = scan.files[file] /\ Text' = Text
      /\ IsList(Text) /\ DOMAIN Text = 1..Len(Text) /\ Len(Text) \in Nat
      /\ at \in 1..(Len(Text) + 1) /\ open \in DOMAIN Text /\ open < at
  BY <1>1, <1>2, <1>4, TextOfBlocks DEF Text
<1>7. TypeOK'
  BY <1>1, <1>2, <1>4, <1>6 DEF TypeOK
<1>8. (open + 1)..(at - 1) = Deeper(Text, open)
  <2>1. (open + 1)..(at - 1) \subseteq Deeper(Text, open)
    BY <1>1, <1>2 DEF IInv, OpenGoesOn
  <2>2. ASSUME NEW j \in Deeper(Text, open) PROVE j \in (open + 1)..(at - 1)
    <3>1. /\ j \in DOMAIN Text /\ open < j
          /\ \A k \in (open + 1)..j : k \in Deeper(Text, open)
      BY <1>6, DeeperSays
    <3>2. CASE at <= j
      <4>1. at \in Deeper(Text, open) /\ at \in DOMAIN Text
        BY <1>6, <3>1, <3>2
      <4>2. This.key = "blank" \/ This.indent > Text[open].indent
        BY <1>6, <4>1, DeeperSays DEF This
      <4> QED
        BY <1>1, <1>4, <1>5, <1>6, <4>1, <4>2 DEF InBlock, InLine, InFile
    <3> QED
      BY <1>6, <3>1, <3>2
  <2> QED
    BY <2>1, <2>2
<1>9. /\ Text[open].key = "run" /\ Text[open].value = "block"
      /\ Block(open, (open + 1)..(at - 1)) = BlockOf(file, open)
  <2>1. Text[open].key = "run" /\ Text[open].value = "block"
    BY <1>1, <1>2 DEF IInv, OpenGoesOn
  <2> QED
    BY <1>6, <1>8, <2>1 DEF Block, BlockOf
<1>10. BlocksAreAll'
  <2> SUFFICES ASSUME NEW f \in DOMAIN scan.files, NEW i \in RunKeys(f),
                      f < file \/ (f = file /\ i < at)
               PROVE  BlockOf(f, i) \in blocks \cup {BlockOf(file, open)}
    BY <1>1, <1>9, ScanStays DEF BlocksAreAll
  <2>1. CASE f = file /\ i = open
    BY <2>1, Zenon
  <2>2. CASE ~(f = file /\ i = open)
    BY <1>2, <2>2 DEF IInv, BlocksAreAll
  <2> QED
    BY <2>1, <2>2
<1>11. BlocksAreReal'
  <2>1. \A b \in blocks' : b \in blocks \/ b = BlockOf(file, open)
    BY <1>1, <1>9
  <2> QED
    BY <1>1, <1>2, <1>6, <1>9, <2>1, BlocksStay
<1>12. OpenGoesOn'
  BY <1>1 DEF OpenGoesOn
<1> QED
  BY <1>1, <1>2, <1>5, <1>7, <1>10, <1>11, <1>12, NotEnded DEF IInv

----------------------------------------------------------------------------
\* Comparisons: the steps

\* The text of a file that is being stripped.
LEMMA FilesAreTexts ==
  ASSUME IsScan(scan), scan.kind # "blocks", NEW f \in DOMAIN scan.files
  PROVE  /\ IsText(scan.kind, scan.files[f]) /\ IsList(scan.files[f])
         /\ scan.kind \in DOMAIN Strips
         /\ Len(scan.files) = 2 /\ DOMAIN scan.files = 1..2
         /\ Len(scan.files[f]) \in Nat /\ DOMAIN scan.files[f] = 1..Len(scan.files[f])
<1>1. IsText(scan.kind, scan.files[f])
  BY DEF IsScan
<1>2. DOMAIN scan.files = 1..Len(scan.files)
  BY ListIsSeq DEF IsScan
<1> QED
  BY <1>1, <1>2, ListIsSeq DEF IsText, IsScan

LEMMA TextOfStrips ==
  ASSUME TypeOK, scan.kind # "blocks", file <= Len(scan.files)
  PROVE  /\ file \in DOMAIN scan.files
         /\ Text = Render(scan.kind, scan.files[file]) /\ Len(Text) \in Nat
         /\ at \in 1..(Len(Text) + 1)
<1>1. IsScan(scan) /\ file \in 1..(Len(scan.files) + 1)
  BY DEF TypeOK
<1>2. Len(scan.files) = 2 /\ DOMAIN scan.files = 1..2
  <2>1. Len(scan.files) = 2 /\ IsList(scan.files)
    BY <1>1 DEF IsScan
  <2> QED
    BY <2>1, ListIsSeq
<1>3. file \in DOMAIN scan.files
  BY <1>1, <1>2
<1>4. Text = Render(scan.kind, scan.files[file])
  BY DEF Text
<1>5. IsList(Text)
  BY <1>1, <1>3, <1>4, FilesAreTexts, OffsetsSay
<1>6. at \in 1..(Len(Text) + 1)
  BY <1>2, <1>3 DEF TypeOK
<1> QED
  BY <1>3, <1>4, <1>5, <1>6 DEF IsList

\* Where a region is, its pattern is the only one that starts, and it ends with it.
LEMMA RegionStarts ==
  ASSUME TypeOK, scan.kind # "blocks", InLine, NEW n \in 0..(Len(scan.files[file]) - 1),
         at = Offset(scan.kind, scan.files[file], n) + 1,
         IsRegion(scan.files[file][n + 1])
  PROVE  LET i == scan.files[file][n + 1].pattern
         IN  /\ Starting = {i} /\ Least(Starting) = i
             /\ Least(Ends(Strips[scan.kind][i])) = Offset(scan.kind, scan.files[file], n + 1)
<1> DEFINE kind == scan.kind
           chunks == scan.files[file]
           text == Render(kind, chunks)
           Off(m) == Offset(kind, chunks, m)
           L == LinesOf(kind, chunks[n + 1])
           i == chunks[n + 1].pattern
           p == Strips[kind][i]
<1>1. file \in DOMAIN scan.files /\ Text = text
  BY TextOfStrips DEF InLine, InFile
<1>2. /\ IsText(kind, chunks) /\ kind \in DOMAIN Strips
      /\ Len(chunks) \in Nat /\ DOMAIN chunks = 1..Len(chunks)
  BY <1>1, FilesAreTexts DEF TypeOK
<1>3. n + 1 \in DOMAIN chunks /\ n \in 0..(Len(chunks) - 1) /\ IsRegion(chunks[n + 1])
  BY <1>2
<1> HIDE DEF kind, chunks
<1>4. /\ i \in DOMAIN Strips[kind] /\ L[1].is = p.start /\ L[Len(L)].is = p.end
      /\ \A j \in 1..(Len(L) - 1) : L[j].is # p.end
  <2>1. LinesAre(kind, chunks[n + 1])
    BY <1>2, <1>3, LinesOfSay
  <2> QED
    BY <1>3, <2>1 DEF LinesAre
<1>5. /\ Len(L) \in Nat /\ Len(L) > 0 /\ Len(text) \in Nat
      /\ Off(n) \in Nat /\ Off(n + 1) = Off(n) + Len(L) /\ Off(n + 1) <= Len(text)
      /\ \A j \in 1..Len(L) : text[Off(n) + j] = L[j]
  <2>1. NextIs(kind, chunks, n)
    BY <1>2, <1>3, NextChunk
  <2> QED
    BY <2>1 DEF NextIs
<1>6. at = Off(n) + 1 /\ This = text[at]
  BY <1>1 DEF This, kind, chunks
<1>7. kind = scan.kind
  BY DEF kind
<1> HIDE DEF text, Off, L, i, p
<1>8. This.is = p.start
  <2>1. 1 \in 1..Len(L)
    BY <1>5
  <2>2. text[Off(n) + 1] = L[1]
    BY <1>5, <2>1
  <2> QED
    BY <1>4, <1>6, <2>2
<1>9. Ends(p) = {j \in at..Len(text) : text[j].is = p.end}
  BY <1>1 DEF Ends
<1>10. Off(n + 1) \in Ends(p)
  <2>1. Off(n + 1) \in at..Len(text)
    BY <1>4, <1>5, <1>6
  <2>2. Len(L) \in 1..Len(L)
    BY <1>5
  <2>3. text[Off(n + 1)] = L[Len(L)]
    BY <1>5, <2>2
  <2> QED
    BY <1>4, <1>9, <2>1, <2>3
<1>11. ASSUME NEW j \in Ends(p) PROVE Off(n + 1) <= j
  <2>1. j \in at..Len(text) /\ text[j].is = p.end
    BY <1>9
  <2> SUFFICES ASSUME ~(Off(n + 1) <= j) PROVE FALSE
    OBVIOUS
  <2>2. j - Off(n) \in 1..(Len(L) - 1) /\ j - Off(n) \in 1..Len(L) /\ Off(n) + (j - Off(n)) = j
    BY <1>4, <1>5, <1>6, <2>1
  <2>3. text[j] = L[j - Off(n)]
    BY <1>5, <2>2
  <2> QED
    BY <1>4, <2>1, <2>2, <2>3
<1>12. Ends(p) \in SUBSET Nat
  BY <1>5, <1>6, <1>9
<1>13. Least(Ends(p)) = Off(n + 1)
  BY <1>10, <1>11, <1>12, LeastIs
<1>14. Starting = {i}
  <2>1. i \in Starting
    BY <1>4, <1>7, <1>8, <1>10 DEF Starting, p
  <2>2. ASSUME NEW k \in Starting PROVE k = i
    <3>1. k \in DOMAIN Strips[kind] /\ This.is = Strips[kind][k].start
      BY <1>7 DEF Starting
    <3> QED
      BY <1>2, <1>4, <1>8, <3>1, StartsDiffer DEF p
  <2> QED
    BY <2>1, <2>2
<1>15. Least(Starting) = i
  <2>1. i \in Nat
    <3>1. DOMAIN Strips.validator = 1..3 /\ DOMAIN Strips.harness = 1..6
      BY DEF Strips
    <3>2. DOMAIN Strips = {"validator", "harness"}
      BY DEF Strips
    <3> QED
      BY <1>2, <1>4, <3>1, <3>2
  <2>2. {i} \in SUBSET Nat /\ i \in {i} /\ \A m \in {i} : i <= m
    BY <2>1
  <2> QED
    BY <1>14, <2>2, LeastIs
<1> QED
  BY <1>13, <1>14, <1>15 DEF kind, chunks, Off, i, p

\* Where another line is, no region starts.
LEMMA NothingStarts ==
  ASSUME TypeOK, scan.kind # "blocks", InLine, NEW n \in 0..(Len(scan.files[file]) - 1),
         at = Offset(scan.kind, scan.files[file], n) + 1,
         ~IsRegion(scan.files[file][n + 1])
  PROVE  /\ Starting = {} /\ This = scan.files[file][n + 1]
         /\ at = Offset(scan.kind, scan.files[file], n + 1)
<1> DEFINE kind == scan.kind
           chunks == scan.files[file]
           text == Render(kind, chunks)
           Off(m) == Offset(kind, chunks, m)
           c == chunks[n + 1]
<1>1. file \in DOMAIN scan.files /\ Text = text
  BY TextOfStrips DEF InLine, InFile
<1>2. /\ IsText(kind, chunks) /\ kind \in DOMAIN Strips
      /\ Len(chunks) \in Nat /\ DOMAIN chunks = 1..Len(chunks)
  BY <1>1, FilesAreTexts DEF TypeOK
<1>3. /\ n + 1 \in DOMAIN chunks /\ n \in 0..(Len(chunks) - 1) /\ n \in 0..Len(chunks)
      /\ ~IsRegion(c)
  BY <1>2
<1>4. Len(LinesOf(kind, c)) = 1 /\ LinesOf(kind, c)[1] = c
  BY <1>2, <1>3, LinesOfSay DEF LinesAre
<1>5. Off(n + 1) = Off(n) + 1 /\ text[Off(n) + 1] = c /\ Len(text) \in Nat /\ Off(n) \in Nat
  <2> HIDE DEF kind, chunks
  <2>1. /\ Off(n + 1) = Off(n) + Len(LinesOf(kind, c)) /\ Len(text) \in Nat /\ Off(n) \in Nat
        /\ \A i \in 1..Len(LinesOf(kind, c)) : text[Off(n) + i] = LinesOf(kind, c)[i]
    <3>1. NextIs(kind, chunks, n)
      BY <1>2, <1>3, NextChunk
    <3> QED
      BY <3>1 DEF NextIs
  <2>2. 1 \in 1..1
    OBVIOUS
  <2> HIDE DEF Off, text, c
  <2> QED
    BY <1>4, <2>1, <2>2
<1>6. at = Off(n) + 1 /\ This = text[at] /\ kind = scan.kind
  BY <1>1 DEF This
<1>7. \A j \in (Off(n) + 1)..Len(text) :
        \E m \in (n + 1)..Len(chunks) : text[j] \in ToSet(LinesOf(kind, chunks[m]))
  BY <1>2, <1>3, ChunkOfLine
<1>8. \A i \in DOMAIN Strips[kind] :
        c.is = Strips[kind][i].start =>
          \A m \in (n + 1)..Len(chunks) : \A l \in ToSet(LinesOf(kind, chunks[m])) :
            l.is # Strips[kind][i].end
  <2>1. \A q \in ToSet(Strips[kind]) :
          c.is = q.start =>
            \A m \in (n + 1)..Len(chunks) : \A l \in ToSet(LinesOf(kind, chunks[m])) :
              l.is # q.end
    BY <1>2, <1>3 DEF IsText
  <2>2. \A i \in DOMAIN Strips[kind] : Strips[kind][i] \in ToSet(Strips[kind])
    BY DEF ToSet
  <2> HIDE DEF kind, chunks, c
  <2> QED
    BY <2>1, <2>2
<1> HIDE DEF kind, chunks, text, Off, c
<1>9. This = c
  BY <1>5, <1>6
<1>10. ASSUME NEW i \in Starting PROVE FALSE
  <2>1. i \in DOMAIN Strips[kind] /\ c.is = Strips[kind][i].start /\ Ends(Strips[kind][i]) # {}
    BY <1>6, <1>9 DEF Starting
  <2>2. PICK j \in at..Len(text) : text[j].is = Strips[kind][i].end
    BY <1>1, <2>1 DEF Ends
  <2>3. PICK m \in (n + 1)..Len(chunks) : text[j] \in ToSet(LinesOf(kind, chunks[m]))
    BY <1>6, <1>7, <2>2
  <2> QED
    BY <1>8, <2>1, <2>2, <2>3
<1> QED
  BY <1>5, <1>6, <1>9, <1>10 DEF kind, chunks, Off, c

\* Text and Skeleton go by the same chunks.
LEMMA SkeletonSays ==
  ASSUME IsScan(scan), scan.kind # "blocks", NEW f \in DOMAIN scan.files
  PROVE  /\ IsList(Skeleton(f)) /\ Len(Skeleton(f)) = Len(scan.files[f])
         /\ \A i \in 1..Len(scan.files[f]) :
              Skeleton(f)[i] = IF IsRegion(scan.files[f][i])
                               THEN [is |-> "region", rest |-> scan.files[f][i].pattern]
                               ELSE scan.files[f][i]
<1>1. Len(scan.files[f]) \in Nat /\ DOMAIN scan.files[f] = 1..Len(scan.files[f])
  BY FilesAreTexts
<1> DEFINE s == Skeleton(f)
<1>2. s = [i \in 1..Len(scan.files[f]) |->
             IF IsRegion(scan.files[f][i])
             THEN [is |-> "region", rest |-> scan.files[f][i].pattern] ELSE scan.files[f][i]]
  BY <1>1 DEF Skeleton
<1>3. Len(s) = Len(scan.files[f])
  BY <1>1, <1>2
<1>4. IsList(s)
  BY <1>1, <1>2, <1>3 DEF IsList
<1> QED
  BY <1>2, <1>3, <1>4

\* In a line of a text there is a next chunk.
LEMMA ChunkIsNext ==
  ASSUME IInv, scan.kind # "blocks", InLine
  PROVE  /\ file \in DOMAIN scan.files /\ open = 0 /\ TypeOK /\ exit = "none"
         /\ DOMAIN out = DOMAIN scan.files
         /\ \E n \in 0..(Len(scan.files[file]) - 1) :
              /\ out[file] = SubSeq(Skeleton(file), 1, n)
              /\ at = Offset(scan.kind, scan.files[file], n) + 1
<1>1. TypeOK /\ StrippedSoFar /\ file <= Len(scan.files) /\ at <= Len(Text) /\ exit = "none"
  BY DEF IInv, InLine, InFile
<1>2. PICK n \in 0..Len(scan.files[file]) :
        /\ out[file] = SubSeq(Skeleton(file), 1, n)
        /\ at = Offset(scan.kind, scan.files[file], n) + 1
  BY <1>1 DEF StrippedSoFar
<1>3. /\ file \in DOMAIN scan.files /\ Text = Render(scan.kind, scan.files[file])
      /\ Len(Text) \in Nat /\ at \in 1..(Len(Text) + 1)
  BY <1>1, TextOfStrips
<1>4. IsText(scan.kind, scan.files[file]) /\ Len(scan.files[file]) \in Nat
  BY <1>1, <1>3, FilesAreTexts DEF TypeOK
<1>5. Offset(scan.kind, scan.files[file], Len(scan.files[file])) = Len(Text)
  BY <1>3, <1>4, OffsetsSay
<1>6. n # Len(scan.files[file])
  BY <1>1, <1>2, <1>3, <1>5
<1>7. n \in 0..(Len(scan.files[file]) - 1)
  BY <1>2, <1>4, <1>6
<1>8. open = 0 /\ DOMAIN out = DOMAIN scan.files
  BY <1>1 DEF StrippedSoFar
<1> QED
  BY <1>1, <1>2, <1>3, <1>7, <1>8

\* A step over the next chunk, which adds the next element of the skeleton.
LEMMA ChunkKeeps ==
  ASSUME IInv, scan.kind # "blocks", InLine, NEW n \in 0..(Len(scan.files[file]) - 1),
         out[file] = SubSeq(Skeleton(file), 1, n),
         out' = [out EXCEPT ![file] = Append(out[file], Skeleton(file)[n + 1])],
         at' = Offset(scan.kind, scan.files[file], n + 1) + 1,
         UNCHANGED <<scan, file, open, exit>>
  PROVE  IInv'
<1>1. /\ file \in DOMAIN scan.files /\ open = 0 /\ TypeOK /\ exit = "none"
      /\ DOMAIN out = DOMAIN scan.files
  BY ChunkIsNext
<1>2. StrippedSoFar /\ file <= Len(scan.files)
  BY DEF IInv, InLine, InFile
<1>3. /\ IsText(scan.kind, scan.files[file]) /\ Len(scan.files[file]) \in Nat
      /\ Len(scan.files) = 2 /\ DOMAIN scan.files = 1..2 /\ IsScan(scan)
  BY <1>1, FilesAreTexts DEF TypeOK
<1>4. Text = Render(scan.kind, scan.files[file]) /\ Text' = Text
  BY <1>1, <1>2, TextOfStrips DEF Text
<1>5. NextIs(scan.kind, scan.files[file], n)
  BY <1>3, NextChunk
<1>6. /\ Offset(scan.kind, scan.files[file], n + 1) \in Nat /\ Len(Text) \in Nat
      /\ Offset(scan.kind, scan.files[file], n + 1) <= Len(Text)
  BY <1>4, <1>5 DEF NextIs
<1>7. TypeOK'
  <2>1. at' \in 1..(Len(Text') + 1)
    BY <1>4, <1>6
  <2>2. ~(file' > Len(scan'.files))
    BY <1>1, <1>3
  <2>3. open' \in 0..(at' - 1)
    BY <1>1, <2>1, <1>6
  <2>4. IsScan(scan') /\ file' \in 1..(Len(scan'.files) + 1) /\ exit' \in {"none", "zero", "one"}
    BY <1>1 DEF TypeOK
  <2> QED
    BY <2>1, <2>2, <2>3, <2>4 DEF TypeOK
<1>8. SubSeq(Skeleton(file), 1, n + 1) = Append(SubSeq(Skeleton(file), 1, n), Skeleton(file)[n + 1])
  BY <1>1, <1>3, SkeletonSays, OneMoreElement
<1>9. StrippedSoFar'
  <2>1. DOMAIN out' = DOMAIN scan.files /\ open' = 0
    BY <1>1
  <2>2. out'[file] = SubSeq(Skeleton(file), 1, n + 1)
    BY <1>1, <1>8
  <2>3. \A f \in DOMAIN scan.files : f # file => out'[f] = out[f]
    BY <1>1
  <2>4. \A f \in DOMAIN scan.files : f < file \/ f > file => f # file
    BY <1>1, <1>3
  <2>5. \A f \in DOMAIN scan.files : /\ f < file => out[f] = Skeleton(f)
                                     /\ f > file => out[f] = <<>>
    BY <1>2 DEF StrippedSoFar
  <2>6. \A f \in DOMAIN scan.files : /\ f < file => out'[f] = Skeleton(f)
                                     /\ f > file => out'[f] = <<>>
    BY <2>3, <2>4, <2>5
  <2>7. n + 1 \in 0..Len(scan.files[file])
    BY <1>3
  <2>8. \A f : Skeleton(f)' = Skeleton(f)
    BY ScanStays
  <2> QED
    BY <2>1, <2>2, <2>6, <2>7, <2>8 DEF StrippedSoFar
<1> QED
  BY <1>1, <1>7, <1>9, NotEnded DEF IInv

\* StripRegion keeps the invariant.
LEMMA StripRegionKeeps == IInv /\ StripRegion => IInv'
<1> SUFFICES ASSUME IInv, StripRegion PROVE IInv'
  OBVIOUS
<1>1. /\ scan.kind # "blocks" /\ InLine /\ Starting # {}
      /\ out' = [out EXCEPT ![file] = Append(out[file], [is |-> "region", rest |-> Least(Starting)])]
      /\ at' = Least(Ends(Strips[scan.kind][Least(Starting)])) + 1
      /\ UNCHANGED <<scan, file, open, exit>>
  BY DEF StripRegion
<1>2. PICK n \in 0..(Len(scan.files[file]) - 1) :
        /\ out[file] = SubSeq(Skeleton(file), 1, n)
        /\ at = Offset(scan.kind, scan.files[file], n) + 1
  BY <1>1, ChunkIsNext
<1>3. TypeOK /\ file \in DOMAIN scan.files /\ IsScan(scan)
  BY <1>1, ChunkIsNext DEF TypeOK
<1>4. IsRegion(scan.files[file][n + 1])
  BY <1>1, <1>2, <1>3, NothingStarts
<1>5. /\ Least(Starting) = scan.files[file][n + 1].pattern
      /\ Least(Ends(Strips[scan.kind][scan.files[file][n + 1].pattern]))
           = Offset(scan.kind, scan.files[file], n + 1)
  BY <1>1, <1>2, <1>3, <1>4, RegionStarts
<1>6. Skeleton(file)[n + 1] = [is |-> "region", rest |-> scan.files[file][n + 1].pattern]
  <2>1. n + 1 \in 1..Len(scan.files[file])
    BY <1>1, <1>3, FilesAreTexts
  <2> QED
    BY <1>1, <1>3, <1>4, <2>1, SkeletonSays
<1>7. /\ out' = [out EXCEPT ![file] = Append(out[file], Skeleton(file)[n + 1])]
      /\ at' = Offset(scan.kind, scan.files[file], n + 1) + 1
  BY <1>1, <1>5, <1>6
<1> QED
  BY <1>1, <1>2, <1>7, ChunkKeeps

\* KeepLine keeps the invariant.
LEMMA KeepLineKeeps == IInv /\ KeepLine => IInv'
<1> SUFFICES ASSUME IInv, KeepLine PROVE IInv'
  OBVIOUS
<1>1. /\ scan.kind # "blocks" /\ InLine /\ Starting = {}
      /\ out' = [out EXCEPT ![file] = Append(out[file], This)]
      /\ at' = at + 1
      /\ UNCHANGED <<scan, file, open, exit>>
  BY DEF KeepLine
<1>2. PICK n \in 0..(Len(scan.files[file]) - 1) :
        /\ out[file] = SubSeq(Skeleton(file), 1, n)
        /\ at = Offset(scan.kind, scan.files[file], n) + 1
  BY <1>1, ChunkIsNext
<1>3. TypeOK /\ file \in DOMAIN scan.files /\ IsScan(scan)
  BY <1>1, ChunkIsNext DEF TypeOK
<1>4. ~IsRegion(scan.files[file][n + 1])
  <2>1. IsRegion(scan.files[file][n + 1]) =>
          Starting = {scan.files[file][n + 1].pattern}
    BY <1>1, <1>2, <1>3, RegionStarts
  <2> QED
    BY <1>1, <2>1
<1>5. /\ This = scan.files[file][n + 1]
      /\ at = Offset(scan.kind, scan.files[file], n + 1)
  BY <1>1, <1>2, <1>3, <1>4, NothingStarts
<1>6. Skeleton(file)[n + 1] = scan.files[file][n + 1]
  <2>1. n + 1 \in 1..Len(scan.files[file])
    BY <1>1, <1>3, FilesAreTexts
  <2> QED
    BY <1>1, <1>3, <1>4, <2>1, SkeletonSays
<1>7. /\ out' = [out EXCEPT ![file] = Append(out[file], Skeleton(file)[n + 1])]
      /\ at' = Offset(scan.kind, scan.files[file], n + 1) + 1
  BY <1>1, <1>5, <1>6
<1> QED
  BY <1>1, <1>2, <1>7, ChunkKeeps

----------------------------------------------------------------------------
\* The other steps

\* The text of each file has a length.
LEMMA TextHasLength ==
  ASSUME NEW s, IsScan(s), NEW f \in 1..(Len(s.files) + 1), ~(f > Len(s.files))
  PROVE  Len(IF s.kind = "blocks" THEN s.files[f] ELSE Render(s.kind, s.files[f])) \in Nat
<1>1. IsList(s.files) /\ Len(s.files) \in Nat /\ DOMAIN s.files = 1..Len(s.files)
  BY ListIsSeq DEF IsScan
<1>2. f \in DOMAIN s.files
  BY <1>1
<1>3. CASE s.kind = "blocks"
  <2>1. IsWorkflow(s.files[f])
    BY <1>2, <1>3 DEF IsScan
  <2> QED
    BY <1>3, <2>1 DEF IsWorkflow, IsList
<1>4. CASE s.kind # "blocks"
  <2>1. IsText(s.kind, s.files[f])
    BY <1>2, <1>4 DEF IsScan
  <2>2. IsList(Render(s.kind, s.files[f]))
    BY <2>1, OffsetsSay
  <2> QED
    BY <1>4, <2>2 DEF IsList
<1> QED
  BY <1>3, <1>4

\* Nothing of a text is stripped before its first line.
LEMMA NothingStripped ==
  ASSUME IsScan(scan), scan.kind # "blocks", NEW f \in DOMAIN scan.files
  PROVE  /\ SubSeq(Skeleton(f), 1, 0) = <<>> /\ Offset(scan.kind, scan.files[f], 0) = 0
         /\ 0 \in 0..Len(scan.files[f])
<1>1. IsList(Skeleton(f)) /\ IsText(scan.kind, scan.files[f]) /\ Len(scan.files[f]) \in Nat
  BY FilesAreTexts, SkeletonSays
<1>2. 0 \in 0..Len(Skeleton(f))
  BY <1>1 DEF IsList
<1>3. IsList(SubSeq(Skeleton(f), 1, 0)) /\ Len(SubSeq(Skeleton(f), 1, 0)) = 0
  BY <1>1, <1>2, FirstPart
<1> DEFINE e == SubSeq(Skeleton(f), 1, 0)
<1>4. e = <<>>
  <2>1. IsList(e) /\ Len(e) = 0
    BY <1>3
  <2> HIDE DEF e
  <2> QED
    BY <2>1 DEF IsList
<1>5. Offset(scan.kind, scan.files[f], 0) = 0
  BY <1>1, OffsetsSay
<1> QED
  BY <1>1, <1>4, <1>5

\* The initial states satisfy the invariant.
LEMMA InitKeeps == Init => IInv
<1> SUFFICES ASSUME Init PROVE IInv
  OBVIOUS
<1>1. /\ IsScan(scan) /\ file = 1 /\ at = 1 /\ open = 0 /\ blocks = {} /\ exit = "none"
      /\ out = [f \in DOMAIN scan.files |-> <<>>]
  BY ScansAssumption DEF Init
<1>2. Len(scan.files) \in Nat /\ DOMAIN scan.files = 1..Len(scan.files)
  BY <1>1, ListIsSeq DEF IsScan
<1>3. TypeOK
  <2>1. file \in 1..(Len(scan.files) + 1)
    BY <1>1, <1>2
  <2>2. ~(file > Len(scan.files)) => Len(Text) \in Nat
    BY <1>1, <2>1, TextHasLength DEF Text
  <2> QED
    BY <1>1, <2>1, <2>2 DEF TypeOK
<1>4. Ended
  BY <1>1 DEF Ended
<1>5. CASE scan.kind = "blocks"
  <2>1. BlocksAreReal /\ OpenGoesOn
    BY <1>1 DEF BlocksAreReal, OpenGoesOn
  <2>2. BlocksAreAll
    <3> SUFFICES ASSUME NEW f \in DOMAIN scan.files, NEW i \in RunKeys(f),
                        f < file \/ (f = file /\ i < at /\ i # open)
                 PROVE  FALSE
      BY DEF BlocksAreAll
    <3>1. i \in DOMAIN scan.files[f]
      BY DEF RunKeys
    <3>2. i \in 1..Len(scan.files[f]) /\ Len(scan.files[f]) \in Nat
      BY <1>1, <1>5, <3>1, FilesAreWorkflows
    <3> QED
      BY <1>1, <1>2, <3>2
  <2> QED
    BY <1>3, <1>4, <1>5, <2>1, <2>2 DEF IInv
<1>6. CASE scan.kind # "blocks"
  <2>0. Len(scan.files) = 2
    BY <1>1, <1>6 DEF IsScan
  <2>1. 1 \in DOMAIN scan.files
    BY <1>2, <2>0
  <2>2. /\ SubSeq(Skeleton(1), 1, 0) = <<>> /\ Offset(scan.kind, scan.files[1], 0) = 0
        /\ 0 \in 0..Len(scan.files[1])
    BY <1>1, <1>6, <2>1, NothingStripped
  <2>3. \A f \in DOMAIN scan.files : ~(f < file) /\ out[f] = <<>>
    BY <1>1, <1>2
  <2>4. \E n \in 0..Len(scan.files[file]) :
          /\ out[file] = SubSeq(Skeleton(file), 1, n)
          /\ at = Offset(scan.kind, scan.files[file], n) + 1
    BY <1>1, <2>1, <2>2
  <2>5. StrippedSoFar
    BY <1>1, <2>3, <2>4 DEF StrippedSoFar
  <2> QED
    BY <1>3, <1>4, <1>6, <2>5 DEF IInv
<1> QED
  BY <1>5, <1>6

\* NextFile keeps the invariant.
LEMMA NextFileKeeps == IInv /\ NextFile => IInv'
<1> SUFFICES ASSUME IInv, NextFile PROVE IInv'
  OBVIOUS
<1>1. /\ file <= Len(scan.files) /\ open = 0 /\ at > Len(Text) /\ exit = "none"
      /\ file' = file + 1 /\ at' = 1
      /\ UNCHANGED <<scan, open, blocks, out, exit>>
  BY DEF NextFile, InFile
<1>2. /\ TypeOK /\ IsScan(scan) /\ file \in 1..(Len(scan.files) + 1)
      /\ Len(scan.files) \in Nat /\ DOMAIN scan.files = 1..Len(scan.files)
  <2>1. TypeOK /\ IsScan(scan) /\ file \in 1..(Len(scan.files) + 1)
    BY DEF IInv, TypeOK
  <2> QED
    BY <2>1, ListIsSeq DEF IsScan
<1>3. file \in DOMAIN scan.files /\ file' \in 1..(Len(scan.files) + 1) /\ file \in Nat
  BY <1>1, <1>2
<1>4. TypeOK'
  <2>1. ~(file' > Len(scan.files)) => Len(Text') \in Nat
    BY <1>1, <1>2, <1>3, TextHasLength DEF Text
  <2> QED
    BY <1>1, <1>2, <1>3, <2>1 DEF TypeOK
<1>5. CASE scan.kind = "blocks"
  <2>1. BlocksAreAll'
    <3> SUFFICES ASSUME NEW f \in DOMAIN scan.files, NEW i \in RunKeys(f),
                        f < file + 1 \/ (f = file + 1 /\ i < 1)
                 PROVE  BlockOf(f, i) \in blocks
      BY <1>1, ScanStays DEF BlocksAreAll
    <3>1. i \in DOMAIN scan.files[f]
      BY DEF RunKeys
    <3>2. i \in 1..Len(scan.files[f]) /\ Len(scan.files[f]) \in Nat
      BY <1>2, <1>5, <3>1, FilesAreWorkflows
    <3>3. Text = scan.files[file] /\ at \in 1..(Len(Text) + 1)
      BY <1>1, <1>2, <1>5, TextOfBlocks
    <3>4. f < file \/ (f = file /\ i < at /\ i # open)
      BY <1>1, <1>2, <1>3, <3>2, <3>3
    <3> QED
      BY <1>5, <3>4 DEF IInv, BlocksAreAll
  <2>2. BlocksAreReal'
    BY <1>1, <1>5, BlocksStay
  <2>3. OpenGoesOn'
    BY <1>1 DEF OpenGoesOn
  <2> QED
    BY <1>1, <1>4, <1>5, <2>1, <2>2, <2>3, NotEnded DEF IInv
<1>6. CASE scan.kind # "blocks"
  <2>1. StrippedSoFar
    BY <1>6 DEF IInv
  <2>2. PICK n \in 0..Len(scan.files[file]) :
          /\ out[file] = SubSeq(Skeleton(file), 1, n)
          /\ at = Offset(scan.kind, scan.files[file], n) + 1
    BY <1>1, <2>1 DEF StrippedSoFar
  <2>3. /\ IsText(scan.kind, scan.files[file]) /\ Len(scan.files[file]) \in Nat
        /\ Text = Render(scan.kind, scan.files[file]) /\ Len(Text) \in Nat
    BY <1>1, <1>2, <1>3, <1>6, FilesAreTexts, TextOfStrips
  <2>4. n = Len(scan.files[file])
    <3> SUFFICES ASSUME n # Len(scan.files[file]) PROVE FALSE
      OBVIOUS
    <3>1. n \in 0..(Len(scan.files[file]) - 1)
      BY <2>3
    <3>2. NextIs(scan.kind, scan.files[file], n)
      BY <2>3, <3>1, NextChunk
    <3>3. /\ Len(LinesOf(scan.kind, scan.files[file][n + 1])) \in Nat
          /\ Len(LinesOf(scan.kind, scan.files[file][n + 1])) > 0
          /\ Offset(scan.kind, scan.files[file], n) \in Nat
          /\ Offset(scan.kind, scan.files[file], n + 1)
               = Offset(scan.kind, scan.files[file], n)
                 + Len(LinesOf(scan.kind, scan.files[file][n + 1]))
          /\ Offset(scan.kind, scan.files[file], n + 1) <= Len(Text)
      BY <2>3, <3>2 DEF NextIs
    <3> QED
      BY <1>1, <2>2, <2>3, <3>3
  <2>5. out[file] = Skeleton(file)
    <3>1. IsList(Skeleton(file)) /\ Len(Skeleton(file)) = Len(scan.files[file])
      BY <1>2, <1>3, <1>6, SkeletonSays
    <3>2. Len(Skeleton(file)) \in 0..Len(Skeleton(file))
      BY <2>3, <3>1
    <3>3. SubSeq(Skeleton(file), 1, Len(Skeleton(file))) = Skeleton(file)
      BY <3>1, <3>2, FirstPart
    <3> QED
      BY <2>2, <2>4, <3>1, <3>3
  <2>6. \A f \in DOMAIN scan.files : /\ f < file + 1 => out[f] = Skeleton(f)
                                     /\ f > file + 1 => out[f] = <<>>
    <3>1. \A f \in DOMAIN scan.files : /\ f < file + 1 => f = file \/ f < file
                                       /\ f > file + 1 => f > file
      BY <1>2, <1>3
    <3> QED
      BY <2>1, <2>5, <3>1 DEF StrippedSoFar
  <2>7. file + 1 <= Len(scan.files) =>
          \E m \in 0..Len(scan.files[file + 1]) :
            /\ out[file + 1] = SubSeq(Skeleton(file + 1), 1, m)
            /\ 1 = Offset(scan.kind, scan.files[file + 1], m) + 1
    <3> SUFFICES ASSUME file + 1 <= Len(scan.files)
                 PROVE  \E m \in 0..Len(scan.files[file + 1]) :
                          /\ out[file + 1] = SubSeq(Skeleton(file + 1), 1, m)
                          /\ 1 = Offset(scan.kind, scan.files[file + 1], m) + 1
      OBVIOUS
    <3>1. file + 1 \in DOMAIN scan.files /\ file + 1 > file
      BY <1>2, <1>3
    <3>2. out[file + 1] = <<>>
      BY <2>1, <3>1 DEF StrippedSoFar
    <3>3. /\ SubSeq(Skeleton(file + 1), 1, 0) = <<>>
          /\ Offset(scan.kind, scan.files[file + 1], 0) = 0
          /\ 0 \in 0..Len(scan.files[file + 1])
      BY <1>2, <1>6, <3>1, NothingStripped
    <3> QED
      BY <3>2, <3>3
  <2>8. \A f : Skeleton(f)' = Skeleton(f)
    BY <1>1, ScanStays
  <2>9. DOMAIN out = DOMAIN scan.files
    BY <2>1 DEF StrippedSoFar
  <2>10. StrippedSoFar'
    BY <1>1, <2>6, <2>7, <2>8, <2>9 DEF StrippedSoFar
  <2> QED
    BY <1>1, <1>4, <1>6, <2>10, NotEnded DEF IInv
<1> QED
  BY <1>5, <1>6

\* The end of a scan, and what is no step, keep the invariant.
LEMMA RestStays ==
  ASSUME IInv, UNCHANGED <<scan, file, at, open, blocks, out>>,
         exit' \in {"none", "zero", "one"}, Ended'
  PROVE  IInv'
<1>1. TypeOK'
  BY DEF IInv, TypeOK, Text
<1>2. CASE scan.kind = "blocks"
  <2>1. BlocksAreReal /\ BlocksAreAll /\ OpenGoesOn
    BY <1>2 DEF IInv
  <2>2. BlocksAreReal'
    BY <2>1, ScanStays DEF BlocksAreReal
  <2>3. BlocksAreAll'
    BY <2>1, ScanStays DEF BlocksAreAll
  <2>4. OpenGoesOn'
    BY <2>1 DEF OpenGoesOn, Text
  <2> QED
    BY <1>1, <1>2, <2>2, <2>3, <2>4 DEF IInv
<1>3. CASE scan.kind # "blocks"
  <2>1. StrippedSoFar
    BY <1>3 DEF IInv
  <2>2. StrippedSoFar'
    BY <2>1, ScanStays DEF StrippedSoFar
  <2> QED
    BY <1>1, <1>3, <2>2 DEF IInv
<1> QED
  BY <1>2, <1>3

\* ReportBlocks keeps the invariant.
LEMMA ReportBlocksKeeps == IInv /\ ReportBlocks => IInv'
<1> SUFFICES ASSUME IInv, ReportBlocks PROVE IInv'
  OBVIOUS
<1>1. /\ scan.kind = "blocks" /\ file > Len(scan.files)
      /\ exit' = IF \A b \in blocks : Parses(b) THEN "zero" ELSE "one"
      /\ UNCHANGED <<scan, file, at, open, blocks, out>>
  BY DEF ReportBlocks
<1>2. Ended'
  BY <1>1, ScanStays DEF Ended
<1>3. exit' \in {"none", "zero", "one"}
  BY <1>1
<1> QED
  BY <1>1, <1>2, <1>3, RestStays

\* Compare keeps the invariant.
LEMMA CompareKeeps == IInv /\ Compare => IInv'
<1> SUFFICES ASSUME IInv, Compare PROVE IInv'
  OBVIOUS
<1>1. /\ scan.kind # "blocks" /\ file > Len(scan.files)
      /\ exit' = IF out[1] = out[2] THEN "zero" ELSE "one"
      /\ UNCHANGED <<scan, file, at, open, blocks, out>>
  BY DEF Compare
<1>2. Ended'
  BY <1>1 DEF Ended
<1>3. exit' \in {"none", "zero", "one"}
  BY <1>1
<1> QED
  BY <1>1, <1>2, <1>3, RestStays

\* So does what is no step.
LEMMA NothingKeeps == IInv /\ UNCHANGED vars => IInv'
<1> SUFFICES ASSUME IInv, UNCHANGED vars PROVE IInv'
  OBVIOUS
<1>1. UNCHANGED <<scan, file, at, open, blocks, out, exit>>
  BY DEF vars
<1>2. Ended'
  BY <1>1, ScanStays DEF Ended, IInv
<1>3. exit' \in {"none", "zero", "one"}
  BY <1>1 DEF IInv, TypeOK
<1> QED
  BY <1>1, <1>2, <1>3, RestStays

----------------------------------------------------------------------------
\* The invariant, and what follows from it

\* The inductive invariant of the two scans holds: what they have found so far,
\* or left of the texts, is what a parser of the workflow would find, or the
\* skeleton, up to the line they are in.
THEOREM LineScansInvariant == Spec => []IInv
<1>1. Init => IInv
  BY InitKeeps
<1>2. IInv /\ [Next]_vars => IInv'
  <2> SUFFICES ASSUME IInv, [Next]_vars PROVE IInv'
    OBVIOUS
  <2>1. CASE PassLine
    BY <2>1, PassLineKeeps
  <2>2. CASE RunLine
    BY <2>2, RunLineKeeps
  <2>3. CASE OpenBlock
    BY <2>3, OpenBlockKeeps
  <2>4. CASE TakeLine
    BY <2>4, TakeLineKeeps
  <2>5. CASE CloseBlock
    BY <2>5, CloseBlockKeeps
  <2>6. CASE NextFile
    BY <2>6, NextFileKeeps
  <2>7. CASE ReportBlocks
    BY <2>7, ReportBlocksKeeps
  <2>8. CASE StripRegion
    BY <2>8, StripRegionKeeps
  <2>9. CASE KeepLine
    BY <2>9, KeepLineKeeps
  <2>10. CASE Compare
    BY <2>10, CompareKeeps
  <2>11. CASE UNCHANGED vars
    BY <2>11, NothingKeeps
  <2> QED
    BY <2>1, <2>2, <2>3, <2>4, <2>5, <2>6, <2>7, <2>8, <2>9, <2>10, <2>11 DEF Next
<1> QED
  BY <1>1, <1>2, PTL DEF Spec

\* At the end there is a block for every script.
LEMMA BlocksAtTheEnd ==
  ASSUME IInv, exit # "none", scan.kind = "blocks"
  PROVE  /\ IsScan(scan)
         /\ \A f \in DOMAIN scan.files : \A i \in RunKeys(f) : BlockOf(f, i) \in blocks
<1>1. IsScan(scan) /\ file \in 1..(Len(scan.files) + 1) /\ file > Len(scan.files)
  BY DEF IInv, TypeOK, Ended
<1>2. Len(scan.files) \in Nat /\ DOMAIN scan.files = 1..Len(scan.files)
  BY <1>1, ListIsSeq DEF IsScan
<1>3. \A f \in DOMAIN scan.files : f < file
  BY <1>1, <1>2
<1> QED
  BY <1>1, <1>3 DEF IInv, BlocksAreAll

\* Every script of every workflow is a block of its own, complete and from its
\* first line on, and nothing is in it that is not blank or of the same step.
THEOREM ScriptsAreBlocksAlways == Spec => []ScriptsAreBlocks
<1>1. IInv => ScriptsAreBlocks
  <2> SUFFICES ASSUME IInv, exit # "none", scan.kind = "blocks",
                      NEW f \in DOMAIN scan.files, NEW i \in RunKeys(f)
               PROVE  \E b \in blocks :
                        /\ b.file = f /\ b.line = i
                        /\ ScriptOf(f, i) \subseteq b.body
                        /\ \A j \in b.body : \/ j \in ScriptOf(f, i) \cup Following(f, i)
                                             \/ scan.files[f][j].key = "blank"
    BY DEF ScriptsAreBlocks
  <2> DEFINE b == BlockOf(f, i)
  <2>1. IsScan(scan) /\ b \in blocks
    BY BlocksAtTheEnd
  <2>2. b.file = f /\ b.line = i
    BY DEF BlockOf
  <2>3. /\ ScriptOf(f, i) \subseteq b.body
        /\ \A j \in b.body : \/ j \in ScriptOf(f, i) \cup Following(f, i)
                             \/ scan.files[f][j].key = "blank"
    BY <2>1, BlockOfScript
  <2> HIDE DEF b
  <2> QED
    BY <2>1, <2>2, <2>3
<1> QED
  BY <1>1, LineScansInvariant, PTL

\* The keys that follow a script in its step are deeper than the dash, and so are
\* their block scalars.
LEMMA FollowingIsDeeper ==
  ASSUME IsScan(scan), scan.kind = "blocks",
         NEW f \in DOMAIN scan.files, NEW i \in RunKeys(f), NEW j \in Following(f, i)
  PROVE  j \in Deeper(scan.files[f], i) /\ scan.files[f][i].value = "block"
<1> DEFINE lines == scan.files[f]
<1>1. /\ IsWorkflow(lines) /\ IsList(lines)
      /\ Len(lines) \in Nat /\ DOMAIN lines = 1..Len(lines)
  BY FilesAreWorkflows
<1>2. i \in DOMAIN lines /\ lines[i].of = 0
  BY DEF RunKeys, IsRunKey
<1>3. /\ j \in (i + 1)..Len(lines) /\ lines[i].value = "block"
      /\ \A k \in (i + 1)..j : lines[k].of = 0 /\ lines[k].key # "blank" =>
                               lines[k].indent > lines[i].indent
  BY DEF Following
<1>4. \A k \in DOMAIN lines : lines[k].indent \in Nat /\ lines[k].of \in Nat
  BY <1>1 DEF IsWorkflow, IsLine
<1> HIDE DEF lines
<1>5. ASSUME NEW k \in (i + 1)..j, lines[k].key # "blank"
      PROVE  lines[k].indent > lines[i].indent
  <2> DEFINE m == lines[k].of
  <2>1. k \in DOMAIN lines
    BY <1>1, <1>2, <1>3
  <2>2. CASE m = 0
    BY <1>3, <1>5, <2>2
  <2>3. CASE m # 0
    <3>1. /\ m < k /\ lines[m].of = 0 /\ lines[m].key # "blank" /\ k \in Deeper(lines, m)
          /\ \A n \in (m + 1)..k : lines[n].of = m
      BY <1>1, <2>1, <2>3 DEF IsWorkflow
    <3>2. m \in DOMAIN lines
      BY <1>1, <1>4, <2>1, <2>3, <3>1
    <3>3. lines[k].indent > lines[m].indent
      BY <1>1, <1>5, <3>1, <3>2, DeeperSays
    <3>4. m = i \/ m \in (i + 1)..j
      <4>1. ~(i \in (m + 1)..k)
        BY <1>2, <2>3, <3>1
      <4> QED
        BY <1>1, <1>2, <1>3, <3>1, <3>2, <4>1
    <3>5. lines[m].indent >= lines[i].indent
      BY <1>2, <1>3, <1>4, <3>1, <3>2, <3>4
    <3> QED
      BY <1>2, <1>4, <2>1, <3>2, <3>3, <3>5
  <2> QED
    BY <2>2, <2>3
<1> QED
  BY <1>3, <1>5 DEF lines, Deeper

\* What bash is given of the block of a run key is its script, with the keys that
\* follow it behind a dash.
LEMMA BlockIsAccepted ==
  ASSUME IsScan(scan), scan.kind = "blocks",
         NEW f \in DOMAIN scan.files, NEW i \in RunKeys(f)
  PROVE  Accepted(f, i, BlockOf(f, i).body)
           <=> Accepted(f, i, ScriptOf(f, i) \cup Following(f, i))
<1>1. ASSUME NEW j \in Following(f, i) PROVE j \in BlockOf(f, i).body
  BY FollowingIsDeeper DEF BlockOf
<1>2. Written(f, BlockOf(f, i).body) = Written(f, ScriptOf(f, i) \cup Following(f, i))
  BY <1>1, BlockOfScript DEF Written
<1> QED
  BY <1>2 DEF Accepted

\* Exit code 0 means that bash accepts every script, behind "- run: |" with the
\* keys that follow it; exit code 1, that it does not accept one of them, or what
\* is behind a line that looks like a run key.
THEOREM RunVerdictAlways == Spec => []RunVerdict
<1>1. IInv => RunVerdict
  <2> SUFFICES ASSUME IInv, scan.kind = "blocks" PROVE RunVerdict
    BY DEF RunVerdict
  <2> DEFINE Refused(f) == {i \in RunKeys(f) : ~Accepted(f, i, ScriptOf(f, i) \cup Following(f, i))}
             Lookalike(f) == \E i \in DOMAIN scan.files[f] :
                               /\ LooksLikeRun(scan.files[f][i])
                               /\ ~Accepted(f, i, IF scan.files[f][i].value = "line" THEN {i}
                                                  ELSE Deeper(scan.files[f], i))
  <2>1. IsScan(scan) /\ (exit # "none" => (exit = "zero" <=> \A b \in blocks : Parses(b)))
    BY DEF IInv, TypeOK, Ended
  <2>2. \A f, i : Parses(BlockOf(f, i)) <=> Accepted(f, i, BlockOf(f, i).body)
    BY DEF Parses, BlockOf
  <2>3. ASSUME exit = "zero", NEW f \in DOMAIN scan.files PROVE Refused(f) = {}
    <3> SUFFICES ASSUME NEW i \in RunKeys(f)
                 PROVE  Accepted(f, i, ScriptOf(f, i) \cup Following(f, i))
      OBVIOUS
    <3>1. BlockOf(f, i) \in blocks
      BY <2>3, BlocksAtTheEnd
    <3>2. Accepted(f, i, BlockOf(f, i).body)
      BY <2>1, <2>2, <2>3, <3>1
    <3> QED
      BY <2>1, <3>2, BlockIsAccepted
  <2>4. ASSUME exit = "one"
        PROVE  \E f \in DOMAIN scan.files : Refused(f) # {} \/ Lookalike(f)
    <3>1. PICK b \in blocks : ~Parses(b)
      BY <2>1, <2>4
    <3>2. PICK f \in DOMAIN scan.files : \E i \in DOMAIN scan.files[f] :
            /\ scan.files[f][i].key = "run" /\ scan.files[f][i].value # ""
            /\ b = BlockOf(f, i)
      BY DEF IInv, BlocksAreReal
    <3>3. PICK i \in DOMAIN scan.files[f] :
            /\ scan.files[f][i].key = "run" /\ scan.files[f][i].value # ""
            /\ b = BlockOf(f, i)
      BY <3>2
    <3>4. ~Accepted(f, i, BlockOf(f, i).body)
      BY <2>2, <3>1, <3>3
    <3>5. CASE scan.files[f][i].of = 0
      <4>1. i \in RunKeys(f)
        BY <3>3, <3>5 DEF RunKeys, IsRunKey
      <4>2. i \in Refused(f)
        BY <2>1, <3>4, <4>1, BlockIsAccepted
      <4> QED
        BY <4>2
    <3>6. CASE scan.files[f][i].of # 0
      <4>1. LooksLikeRun(scan.files[f][i])
        BY <3>3, <3>6 DEF LooksLikeRun
      <4>2. BlockOf(f, i).body = IF scan.files[f][i].value = "line" THEN {i}
                                 ELSE Deeper(scan.files[f], i)
        BY DEF BlockOf
      <4>3. Lookalike(f)
        BY <3>4, <4>1, <4>2
      <4> QED
        BY <4>3
    <3> QED
      BY <3>5, <3>6
  <2> QED
    BY <2>3, <2>4 DEF RunVerdict
<1> QED
  BY <1>1, LineScansInvariant, PTL

\* An entry with one arrow that the caller check passes is one that the overlay
\* step accepts, unless xargs misreads it.
LEMMA EntryIsAccepted ==
  ASSUME NEW e \in Seq(OverlayPath), Len(e) <= 2, EntryPasses(e)
  PROVE  OverlayStepAccepts(e) <=> ~Misread(e)
<1>1. CASE e = <<>>
  <2>1. Len(e) = 0 /\ DOMAIN e = {}
    BY <1>1
  <2>2. {i \in DOMAIN e : e[i].form = "unpaired"} = {}
    BY <2>1
  <2>3. ~HasOpenQuote(e)
    BY <2>2, FS_EmptySet DEF HasOpenQuote
  <2> QED
    BY <2>1, <2>3 DEF OverlayStepAccepts, Misread
<1>2. CASE e # <<>>
  <2>1. Len(e) = 2 /\ ValidateOverlayPath(e[1]) /\ DestinationPasses(Tail(e))
    <3>1. e \in Seq(OverlayPath) /\ Len(e) \in Nat
      BY LenProperties
    <3>2. Len(e) > 1 /\ ValidateOverlayPath(e[1]) /\ DestinationPasses(Tail(e))
      BY <1>2 DEF EntryPasses
    <3>3. \A n \in Nat : n > 1 /\ n <= 2 => n = 2
      OBVIOUS
    <3>4. Len(e) = 2
      BY <3>1, <3>2, <3>3
    <3> QED
      BY <3>2, <3>4
  <2>2. Last(e) = e[2]
    BY <2>1 DEF Last
  <2>3. Len(Tail(e)) = 1 /\ Tail(e)[1] = e[2]
    <3>1. Len(Tail(e)) = Len(e) - 1 /\ \A i \in 1..Len(Tail(e)) : Tail(e)[i] = e[i + 1]
      BY <1>2, HeadTailProperties
    <3> QED
      BY <2>1, <3>1
  <2>4. NormalizeOverlayPath(e[2]) \in {"below", "root"}
    BY <2>1, <2>3 DEF DestinationPasses
  <2>5. e[1] \in OverlayPath /\ e[2] \in OverlayPath
    <3> DEFINE P == OverlayPath
    <3>1. e \in Seq(P) /\ Len(e) = 2
      BY <2>1
    <3> HIDE DEF P
    <3>2. \A i \in 1..2 : e[i] \in P
      BY <3>1, ElementOfSeq
    <3> QED
      BY <3>2 DEF P
  <2>6. Trimmed(e[2]) \in {"below", "root"} <=> e[2].form # "backslash"
    BY <2>4, <2>5 DEF NormalizeOverlayPath, Trimmed, OverlayPath
  <2>7. Trimmed(e[1]) \in {"empty", "absolute", "parent"}
          <=> /\ e[1].form \in {"quoted", "unpaired"}
              /\ e[1].is \in {"empty", "absolute", "parent"}
    BY <2>1, <2>5 DEF ValidateOverlayPath, NormalizeOverlayPath, Trimmed, OverlayPath
  <2> QED
    BY <2>1, <2>2, <2>6, <2>7 DEF OverlayStepAccepts, Misread
<1> QED
  BY <1>1, <1>2

\* What the caller check passes in a block of overlay_paths is what the overlay
\* step accepts, but for what xargs misreads.
THEOREM OverlayChecksAgreeAlways == Spec => []OverlayChecksAgree
<1>1. IInv => OverlayChecksAgree
  <2> SUFFICES ASSUME IInv, scan.kind = "blocks",
                      NEW f \in DOMAIN scan.files, NEW i \in DOMAIN scan.files[f],
                      LET l == scan.files[f][i]
                      IN  /\ l.key = "entry" /\ l.of # 0 /\ Len(l.value) <= 2
                          /\ scan.files[f][l.of].key = "overlay" /\ scan.files[f][l.of].value
                          /\ CallersPass(scan.files)
               PROVE  OverlayStepAccepts(scan.files[f][i].value)
                        <=> ~Misread(scan.files[f][i].value)
    BY DEF OverlayChecksAgree
  <2> DEFINE lines == scan.files[f]
  <2>1. /\ IsWorkflow(lines) /\ IsLine(lines[i])
        /\ Len(lines) \in Nat /\ DOMAIN lines = 1..Len(lines)
    BY FilesAreWorkflows DEF IInv, TypeOK
  <2>2. /\ lines[i].key = "entry" /\ lines[i].of # 0 /\ Len(lines[i].value) <= 2
        /\ lines[lines[i].of].key = "overlay" /\ lines[lines[i].of].value
        /\ Findings(lines) = {}
    BY DEF CallersPass
  <2> HIDE DEF lines
  <2>3. /\ lines[i].of \in Nat /\ lines[i].of < i /\ i \in Deeper(lines, lines[i].of)
        /\ lines[i].value \in Seq(OverlayPath)
    <3>1. lines[i].of \in Nat /\ lines[i].value \in ValueOf["entry"]
      BY <2>1, <2>2 DEF IsLine
    <3>2. ValueOf["entry"] = Seq(OverlayPath)
      BY DEF ValueOf
    <3>3. lines[i].of < i /\ i \in Deeper(lines, lines[i].of)
      BY <2>2, <2>1 DEF IsWorkflow, lines
    <3> QED
      BY <3>1, <3>2, <3>3
  <2>4. lines[i].of \in DOMAIN lines /\ i \in DOMAIN lines
    BY <2>1, <2>2, <2>3 DEF lines
  <2>5. i \in EntriesOf(lines)
    BY <2>2, <2>3, <2>4 DEF EntriesOf
  <2>6. EntryPasses(lines[i].value)
    <3>1. i \notin Findings(lines)
      BY <2>2
    <3> QED
      BY <2>2, <2>4, <2>5, <3>1 DEF Findings
  <2>7. OverlayStepAccepts(lines[i].value) <=> ~Misread(lines[i].value)
    BY <2>2, <2>3, <2>6, EntryIsAccepted
  <2> QED
    BY <2>7 DEF lines
<1> QED
  BY <1>1, LineScansInvariant, PTL

\* Two texts are the same to the drift check exactly when they are the same but
\* for what is between the anchors of a pattern.
THEOREM StripComparesOutsideAlways == Spec => []StripComparesOutside
<1>1. IInv => StripComparesOutside
  <2> SUFFICES ASSUME IInv, scan.kind # "blocks", exit # "none"
               PROVE  exit = "zero" <=> Skeleton(1) = Skeleton(2)
    BY DEF StripComparesOutside
  <2>1. /\ StrippedSoFar /\ IsScan(scan) /\ file \in 1..(Len(scan.files) + 1)
        /\ file > Len(scan.files) /\ (exit = "zero" <=> out[1] = out[2])
    BY DEF IInv, TypeOK, Ended
  <2>2. Len(scan.files) = 2 /\ IsList(scan.files)
    BY <2>1 DEF IsScan
  <2>3. 1 \in DOMAIN scan.files /\ 2 \in DOMAIN scan.files /\ 1 < file /\ 2 < file
    BY <2>1, <2>2, ListIsSeq
  <2>4. out[1] = Skeleton(1) /\ out[2] = Skeleton(2)
    BY <2>1, <2>3 DEF StrippedSoFar
  <2> QED
    BY <2>1, <2>4
<1> QED
  BY <1>1, LineScansInvariant, PTL
=============================================================================
