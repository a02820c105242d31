--------------------------- MODULE SequenceLemmas ---------------------------
(***************************************************************************)
(* Theorems about sequences that the proofs about the editors share: what  *)
(* joining, inserting, removing and selecting does to each place.          *)
(***************************************************************************)
EXTENDS Integers, ListEdits, SequencesExt, SequenceTheorems, FiniteSetTheorems,
        WellFoundedInduction, TLAPS

\* Every set of numbers that is not empty has a least element.
LEMMA LeastElement ==
  ASSUME NEW S \in SUBSET Nat, S # {}
  PROVE  \E k \in S : \A j \in S : k <= j
<1> DEFINE R == OpToRel(<, Nat)
<1>1. IsWellFoundedOn(R, Nat)
  BY NatLessThanWellFounded
<1> HIDE DEF R
<1>2. PICK k \in S : \A j \in S : <<j, k>> \notin R
  BY <1>1, WFMin
<1>3. \A j \in S : j < k => <<j, k>> \in R
  BY DEF R, OpToRel
<1>4. ASSUME NEW j \in S PROVE k <= j
  <2>1. ~(j < k)
    BY <1>2, <1>3
  <2>2. j \in Nat /\ k \in Nat
    OBVIOUS
  <2> QED
    BY <2>1, <2>2
<1> QED
  BY <1>4

\* There is only one.
LEMMA LeastIs ==
  ASSUME NEW S \in SUBSET Nat, NEW c \in S, \A j \in S : c <= j
  PROVE  (CHOOSE k \in S : \A j \in S : k <= j) = c
<1> DEFINE l == CHOOSE k \in S : \A j \in S : k <= j
<1>1. l \in S /\ \A j \in S : l <= j
  OBVIOUS
<1> HIDE DEF l
<1>2. l <= c /\ c <= l /\ l \in Nat /\ c \in Nat
  BY <1>1
<1>3. l = c
  BY <1>2
<1> QED
  BY <1>3 DEF l

-----------------------------------------------------------------------------
LEMMA ConcatType ==
  ASSUME NEW S, NEW a \in Seq(S), NEW b \in Seq(S)
  PROVE  /\ a \o b \in Seq(S)
         /\ Len(a \o b) = Len(a) + Len(b)
         /\ \A k \in 1 .. Len(a) + Len(b) :
              (a \o b)[k] = IF k <= Len(a) THEN a[k] ELSE b[k - Len(a)]
  OBVIOUS

LEMMA InsertAtType ==
  ASSUME NEW S, NEW seq \in Seq(S), NEW pos \in 1 .. Len(seq) + 1, NEW elt \in S
  PROVE  /\ InsertAt(seq, pos, elt) \in Seq(S)
         /\ Len(InsertAt(seq, pos, elt)) = Len(seq) + 1
         /\ \A k \in 1 .. Len(seq) + 1 :
              InsertAt(seq, pos, elt)[k] = IF k < pos THEN seq[k] ELSE IF k = pos THEN elt ELSE seq[k - 1]
<1>0. Len(seq) \in Nat /\ pos \in Nat \ {0} /\ pos <= Len(seq) + 1
  OBVIOUS
<1> DEFINE a == SubSeq(seq, 1, pos - 1)
           b == SubSeq(seq, pos, Len(seq))
           o == <<elt>>
<1>1. a \in Seq(S) /\ Len(a) = pos - 1 /\ \A k \in 1 .. pos - 1 : a[k] = seq[k]
  OBVIOUS
<1>2. b \in Seq(S) /\ Len(b) = Len(seq) - pos + 1
      /\ \A k \in 1 .. Len(seq) - pos + 1 : b[k] = seq[k + pos - 1]
  OBVIOUS
<1>3. o \in Seq(S) /\ Len(o) = 1 /\ o[1] = elt
  OBVIOUS
<1>4. InsertAt(seq, pos, elt) = a \o o \o b
  BY DEF InsertAt
<1> HIDE DEF a, b, o
<1> DEFINE c == a \o o
<1>c. c \in Seq(S) /\ Len(c) = Len(a) + Len(o)
      /\ \A k \in 1 .. Len(a) + Len(o) :
           c[k] = IF k <= Len(a) THEN a[k] ELSE o[k - Len(a)]
  BY <1>1, <1>3, ConcatType
<1>5. c \in Seq(S) /\ Len(c) = pos /\ \A k \in 1 .. pos : c[k] = IF k < pos THEN seq[k] ELSE elt
  BY <1>0, <1>1, <1>3, <1>c
<1> HIDE DEF c
<1> DEFINE r == c \o b
<1>r. r \in Seq(S) /\ Len(r) = Len(c) + Len(b)
      /\ \A k \in 1 .. Len(c) + Len(b) :
           r[k] = IF k <= Len(c) THEN c[k] ELSE b[k - Len(c)]
  BY <1>2, <1>5, ConcatType
<1> HIDE DEF r
<1>6. r \in Seq(S) /\ Len(r) = Len(seq) + 1
  BY <1>0, <1>2, <1>5, <1>r
<1>7. \A k \in 1 .. Len(seq) + 1 : r[k] = IF k <= pos THEN c[k] ELSE b[k - pos]
  BY <1>0, <1>2, <1>5, <1>r
<1>8. \A k \in 1 .. Len(seq) + 1 :
        r[k] = IF k < pos THEN seq[k] ELSE IF k = pos THEN elt ELSE seq[k - 1]
  BY <1>0, <1>2, <1>5, <1>7
<1> QED
  BY <1>4, <1>6, <1>8 DEF c, r

LEMMA RemoveAtType ==
  ASSUME NEW S, NEW seq \in Seq(S), NEW pos \in 1 .. Len(seq)
  PROVE  /\ RemoveAt(seq, pos) \in Seq(S)
         /\ Len(RemoveAt(seq, pos)) = Len(seq) - 1
         /\ \A k \in 1 .. Len(seq) - 1 :
              RemoveAt(seq, pos)[k] = IF k < pos THEN seq[k] ELSE seq[k + 1]
<1>0. Len(seq) \in Nat /\ pos \in Nat \ {0} /\ pos <= Len(seq)
  OBVIOUS
<1> DEFINE a == SubSeq(seq, 1, pos - 1)
           b == SubSeq(seq, pos + 1, Len(seq))
<1>1. a \in Seq(S) /\ Len(a) = pos - 1 /\ \A k \in 1 .. pos - 1 : a[k] = seq[k]
  OBVIOUS
<1>2. b \in Seq(S) /\ Len(b) = Len(seq) - pos
      /\ \A k \in 1 .. Len(seq) - pos : b[k] = seq[k + pos]
  OBVIOUS
<1> HIDE DEF a, b
<1> DEFINE r == a \o b
<1>r. r \in Seq(S) /\ Len(r) = Len(a) + Len(b)
      /\ \A k \in 1 .. Len(a) + Len(b) :
           r[k] = IF k <= Len(a) THEN a[k] ELSE b[k - Len(a)]
  BY <1>1, <1>2, ConcatType
<1> HIDE DEF r
<1>3. r \in Seq(S) /\ Len(r) = Len(seq) - 1
  BY <1>0, <1>1, <1>2, <1>r
<1>4. ASSUME NEW k \in 1 .. Len(seq) - 1
      PROVE  r[k] = IF k < pos THEN a[k] ELSE b[k - pos + 1]
  <2>1. k \in 1 .. Len(a) + Len(b) /\ (k <= Len(a) <=> k < pos)
    BY <1>0, <1>1, <1>2
  <2>2. k - Len(a) = k - pos + 1
    BY <1>0, <1>1
  <2> QED
    BY <1>r, <2>1, <2>2
<1>5. ASSUME NEW k \in 1 .. Len(seq) - 1
      PROVE  r[k] = IF k < pos THEN seq[k] ELSE seq[k + 1]
  <2>1. CASE k < pos
    BY <1>0, <1>1, <1>4, <2>1
  <2>2. CASE ~(k < pos)
    <3>1. k - pos + 1 \in 1 .. Len(seq) - pos /\ (k - pos + 1) + pos = k + 1
      BY <1>0, <2>2
    <3>2. b[k - pos + 1] = seq[k + 1]
      BY <1>2, <3>1
    <3> QED
      BY <1>4, <2>2, <3>2
  <2> QED
    BY <2>1, <2>2
<1> QED
  BY <1>3, <1>5 DEF RemoveAt, a, b, r

\* A sequence with f put in behind its first a entries.
Around(l, a, f) == SubSeq(l, 1, a) \o f \o SubSeq(l, a + 1, Len(l))

LEMMA AroundType ==
  ASSUME NEW S, NEW l \in Seq(S), NEW a \in 0 .. Len(l), NEW f \in Seq(S)
  PROVE  /\ Around(l, a, f) \in Seq(S)
         /\ Len(Around(l, a, f)) = Len(l) + Len(f)
         /\ \A k \in 1 .. Len(l) + Len(f) :
              Around(l, a, f)[k] =
                IF k <= a THEN l[k] ELSE IF k <= a + Len(f) THEN f[k - a] ELSE l[k - Len(f)]
<1>0. Len(l) \in Nat /\ Len(f) \in Nat /\ a \in Nat /\ a <= Len(l)
  OBVIOUS
<1> DEFINE p == SubSeq(l, 1, a)
           q == SubSeq(l, a + 1, Len(l))
<1>1. p \in Seq(S) /\ Len(p) = a /\ \A k \in 1 .. a : p[k] = l[k]
  OBVIOUS
<1>2. q \in Seq(S) /\ Len(q) = Len(l) - a /\ \A k \in 1 .. Len(l) - a : q[k] = l[k + a]
  OBVIOUS
<1> HIDE DEF p, q
<1> DEFINE c == p \o f
<1>3. c \in Seq(S) /\ Len(c) = Len(p) + Len(f)
      /\ \A k \in 1 .. Len(p) + Len(f) :
           c[k] = IF k <= Len(p) THEN p[k] ELSE f[k - Len(p)]
  BY <1>1, ConcatType
<1>4. c \in Seq(S) /\ Len(c) = a + Len(f)
      /\ \A k \in 1 .. a + Len(f) : c[k] = IF k <= a THEN l[k] ELSE f[k - a]
  BY <1>0, <1>1, <1>3
<1> HIDE DEF c
<1> DEFINE r == c \o q
<1>5. r \in Seq(S) /\ Len(r) = Len(c) + Len(q)
      /\ \A k \in 1 .. Len(c) + Len(q) :
           r[k] = IF k <= Len(c) THEN c[k] ELSE q[k - Len(c)]
  BY <1>2, <1>4, ConcatType
<1> HIDE DEF r
<1>6. r \in Seq(S) /\ Len(r) = Len(l) + Len(f)
  BY <1>0, <1>2, <1>4, <1>5
<1>7. ASSUME NEW k \in 1 .. Len(l) + Len(f)
      PROVE  r[k] = IF k <= a THEN l[k] ELSE IF k <= a + Len(f) THEN f[k - a] ELSE l[k - Len(f)]
  <2>1. k \in 1 .. Len(c) + Len(q)
    BY <1>0, <1>2, <1>4
  <2>2. CASE k <= a + Len(f)
    BY <1>0, <1>4, <1>5, <2>1, <2>2
  <2>3. CASE ~(k <= a + Len(f))
    <3>1. k - Len(c) \in 1 .. Len(l) - a /\ k - Len(c) + a = k - Len(f)
      BY <1>0, <1>4, <2>3
    <3>2. q[k - Len(c)] = l[k - Len(f)]
      BY <1>2, <3>1
    <3>3. r[k] = q[k - Len(c)]
      BY <1>0, <1>4, <1>5, <2>1, <2>3
    <3> QED
      BY <1>0, <2>3, <3>2, <3>3
  <2> QED
    BY <2>2, <2>3
<1> QED
  BY <1>6, <1>7 DEF r, c, p, q, Around

LEMMA AroundNothing ==
  ASSUME NEW S, NEW l \in Seq(S), NEW a \in 0 .. Len(l), NEW f \in Seq(S)
  PROVE  Len(f) = 0 => Around(l, a, f) = l
<1>1. /\ Around(l, a, f) \in Seq(S)
      /\ Len(Around(l, a, f)) = Len(l) + Len(f)
      /\ \A k \in 1 .. Len(l) + Len(f) :
           Around(l, a, f)[k] =
             IF k <= a THEN l[k] ELSE IF k <= a + Len(f) THEN f[k - a] ELSE l[k - Len(f)]
  BY AroundType
<1>2. SUFFICES ASSUME Len(f) = 0 PROVE Around(l, a, f) = l
  OBVIOUS
<1> DEFINE r == Around(l, a, f)
<1>3. r \in Seq(S) /\ Len(r) = Len(l) + Len(f)
      /\ \A k \in 1 .. Len(l) + Len(f) :
           r[k] = IF k <= a THEN l[k] ELSE IF k <= a + Len(f) THEN f[k - a] ELSE l[k - Len(f)]
  BY <1>1
<1> HIDE DEF r
<1>4. Len(r) = Len(l) /\ \A k \in 1 .. Len(r) : r[k] = l[k]
  BY <1>2, <1>3
<1>5. r = l
  BY <1>3, <1>4, SeqEqual
<1> QED
  BY <1>5 DEF r

\* The next entry of what is put in goes behind those that are in already.
LEMMA AroundGrows ==
  ASSUME NEW S, NEW l \in Seq(S), NEW a \in 0 .. Len(l), NEW f \in Seq(S),
         NEW x \in S, NEW g \in Seq(S),
         Len(g) = Len(f) + 1, \A k \in 1 .. Len(f) : g[k] = f[k], g[Len(f) + 1] = x
  PROVE  InsertAt(Around(l, a, f), a + Len(f) + 1, x)
           = Around(l, a, g)
<1>0. Len(l) \in Nat /\ Len(f) \in Nat /\ a \in Nat /\ a <= Len(l)
  OBVIOUS
<1> DEFINE u == Around(l, a, f)
           v == Around(l, a, g)
           w == InsertAt(u, a + Len(f) + 1, x)
<1>1. u \in Seq(S) /\ Len(u) = Len(l) + Len(f)
      /\ \A k \in 1 .. Len(l) + Len(f) :
           u[k] = IF k <= a THEN l[k] ELSE IF k <= a + Len(f) THEN f[k - a] ELSE l[k - Len(f)]
  BY AroundType
<1>2. v \in Seq(S) /\ Len(v) = Len(l) + Len(g)
      /\ \A k \in 1 .. Len(l) + Len(g) :
           v[k] = IF k <= a THEN l[k] ELSE IF k <= a + Len(g) THEN g[k - a] ELSE l[k - Len(g)]
  BY AroundType
<1> HIDE DEF u, v
<1>3. a + Len(f) + 1 \in 1 .. Len(u) + 1
  BY <1>0, <1>1
<1>4. w \in Seq(S) /\ Len(w) = Len(u) + 1
      /\ \A k \in 1 .. Len(u) + 1 :
           w[k] = IF k < a + Len(f) + 1 THEN u[k] ELSE IF k = a + Len(f) + 1 THEN x ELSE u[k - 1]
  <2>1. \A seq \in Seq(S) : \A pos \in 1 .. Len(seq) + 1 : \A elt \in S :
          /\ InsertAt(seq, pos, elt) \in Seq(S)
          /\ Len(InsertAt(seq, pos, elt)) = Len(seq) + 1
          /\ \A k \in 1 .. Len(seq) + 1 :
               InsertAt(seq, pos, elt)[k] =
                 IF k < pos THEN seq[k] ELSE IF k = pos THEN elt ELSE seq[k - 1]
    BY InsertAtType
  <2>2. PICK here : here = a + Len(f) + 1
    OBVIOUS
  <2>3. u \in Seq(S) /\ here \in 1 .. Len(u) + 1 /\ x \in S
    BY <1>1, <1>3, <2>2
  <2>4. /\ InsertAt(u, here, x) \in Seq(S)
        /\ Len(InsertAt(u, here, x)) = Len(u) + 1
        /\ \A k \in 1 .. Len(u) + 1 :
             InsertAt(u, here, x)[k] = IF k < here THEN u[k] ELSE IF k = here THEN x ELSE u[k - 1]
    BY <2>1, <2>3
  <2> QED
    BY <2>2, <2>4
<1> HIDE DEF w
<1>5. Len(w) = Len(v)
  BY <1>0, <1>1, <1>2, <1>4
<1>6. ASSUME NEW k \in 1 .. Len(w) PROVE w[k] = v[k]
  <2>1. k \in 1 .. Len(u) + 1 /\ k \in 1 .. Len(l) + Len(g) /\ Len(g) = Len(f) + 1
    BY <1>0, <1>1, <1>4
  <2>2. CASE k <= a
    <3>1. k \in 1 .. Len(l) + Len(f)
      BY <1>0, <2>2
    <3>2. v[k] = l[k] /\ u[k] = l[k]
      BY <1>1, <1>2, <2>1, <2>2, <3>1
    <3>3. k < a + Len(f) + 1
      BY <1>0, <2>2
    <3>4. w[k] = u[k]
      BY <1>4, <2>1, <3>3
    <3> QED
      BY <3>2, <3>4
  <2>3. CASE a < k /\ k <= a + Len(f)
    <3>1. k \in 1 .. Len(l) + Len(f) /\ k - a \in 1 .. Len(f)
      BY <1>0, <2>3
    <3>2. v[k] = g[k - a] /\ w[k] = u[k] /\ u[k] = f[k - a]
      BY <1>0, <1>1, <1>2, <1>4, <2>1, <2>3, <3>1
    <3> QED
      BY <3>1, <3>2
  <2>4. CASE k = a + Len(f) + 1
    <3>1. v[k] = g[k - a] /\ w[k] = x /\ k - a = Len(f) + 1
      BY <1>0, <1>2, <1>4, <2>1, <2>4
    <3> QED
      BY <3>1
  <2>5. CASE k > a + Len(f) + 1
    <3>1. k - 1 \in 1 .. Len(l) + Len(f) /\ ~(k - 1 <= a) /\ ~(k - 1 <= a + Len(f))
          /\ (k - 1) - Len(f) = k - Len(g)
      BY <1>0, <1>1, <2>1, <2>5
    <3>2. v[k] = l[k - Len(g)] /\ w[k] = u[k - 1]
      BY <1>0, <1>2, <1>4, <2>1, <2>5
    <3>3. u[k - 1] = l[(k - 1) - Len(f)]
      BY <1>1, <3>1
    <3> QED
      BY <3>1, <3>2, <3>3
  <2> QED
    BY <1>0, <2>1, <2>2, <2>3, <2>4, <2>5
<1>7. w = v
  <2>1. w \in Seq(S) /\ v \in Seq(S)
    BY <1>2, <1>4
  <2> QED
    BY <1>5, <1>6, <2>1, SeqEqual
<1> QED
  BY <1>7 DEF u, v, w
-----------------------------------------------------------------------------
(***************************************************************************)
(* Selecting entries by their places.                                      *)
(***************************************************************************)
\* Counting the places of a set goes up by one at each of them.
LEMMA CountingPlaces ==
  ASSUME NEW n \in Nat, NEW S \in SUBSET (1 .. n)
  PROVE  /\ IsFiniteSet(S) /\ Cardinality(S) \in Nat
         /\ \A p \in Nat : IsFiniteSet({q \in S : q <= p}) /\ CountTo(S, p) \in Nat
         /\ CountTo(S, 0) = 0
         /\ \A p \in Nat : CountTo(S, p + 1) = CountTo(S, p) + (IF p + 1 \in S THEN 1 ELSE 0)
         /\ \A p \in Nat : p >= n => CountTo(S, p) = Cardinality(S)
<1>0. \A q \in S : q \in Nat /\ q > 0 /\ q <= n
  OBVIOUS
<1>1. IsFiniteSet(S) /\ Cardinality(S) \in Nat
  <2>1. IsFiniteSet(1 .. n)
    BY FS_Interval
  <2>2. IsFiniteSet(S)
    BY <2>1, FS_Subset
  <2> QED
    BY <2>2, FS_CardinalityType
<1>2. ASSUME NEW p \in Nat PROVE IsFiniteSet({q \in S : q <= p}) /\ CountTo(S, p) \in Nat
  <2>1. {q \in S : q <= p} \in SUBSET S
    OBVIOUS
  <2>2. IsFiniteSet({q \in S : q <= p})
    BY <1>1, <2>1, FS_Subset
  <2> QED
    BY <2>2, FS_CardinalityType DEF CountTo
<1>3. CountTo(S, 0) = 0
  <2>0. \A q \in S : ~(q <= 0)
    BY <1>0
  <2>1. {q \in S : q <= 0} = {}
    BY <2>0, Zenon
  <2> QED
    BY <2>1, FS_EmptySet DEF CountTo
<1>4. ASSUME NEW p \in Nat
      PROVE  CountTo(S, p + 1) = CountTo(S, p) + (IF p + 1 \in S THEN 1 ELSE 0)
  <2>1. CASE p + 1 \in S
    <3>1. {q \in S : q <= p + 1} = {q \in S : q <= p} \cup {p + 1} /\ p + 1 \notin {q \in S : q <= p}
      <4>1. \A q \in S : q <= p + 1 <=> (q <= p \/ q = p + 1)
        BY <1>0
      <4>2. ~(p + 1 <= p) /\ p + 1 <= p + 1
        OBVIOUS
      <4> QED
        BY <2>1, <4>1, <4>2, Zenon
    <3>2. Cardinality({q \in S : q <= p} \cup {p + 1}) = Cardinality({q \in S : q <= p}) + 1
      BY <1>2, <3>1, FS_AddElement
    <3> QED
      BY <2>1, <3>1, <3>2 DEF CountTo
  <2>2. CASE p + 1 \notin S
    <3>1. {q \in S : q <= p + 1} = {q \in S : q <= p}
      <4>1. \A q \in S : q <= p + 1 <=> q <= p
        BY <1>0, <2>2
      <4> QED
        BY <4>1
    <3>2. CountTo(S, p + 1) = CountTo(S, p)
      BY <3>1, Zenon DEF CountTo
    <3>3. CountTo(S, p) \in Nat
      BY <1>2
    <3> QED
      BY <2>2, <3>2, <3>3
  <2> QED
    BY <2>1, <2>2
<1>5. ASSUME NEW p \in Nat, p >= n PROVE CountTo(S, p) = Cardinality(S)
  <2>0. \A q \in S : q <= p
    BY <1>0, <1>5
  <2>1. {q \in S : q <= p} = S
    BY <2>0
  <2> QED
    BY <2>1 DEF CountTo
<1> QED
  BY <1>1, <1>2, <1>3, <1>4, <1>5

LEMMA CountingIsMonotonic ==
  ASSUME NEW n \in Nat, NEW S \in SUBSET (1 .. n), NEW p \in Nat, NEW r \in Nat, p < r
  PROVE  /\ CountTo(S, p) <= CountTo(S, r)
         /\ r \in S => CountTo(S, p) < CountTo(S, r)
<1> DEFINE P == {q \in S : q <= p}
           T == {q \in S : q <= r}
<1>0. \A q \in S : q \in Nat
  OBVIOUS
<1>1. IsFiniteSet(T) /\ P \in SUBSET T /\ CountTo(S, p) \in Nat /\ CountTo(S, r) \in Nat
  <2>1. \A x \in Nat : IsFiniteSet({q \in S : q <= x}) /\ CountTo(S, x) \in Nat
    BY CountingPlaces
  <2>2. \A q \in S : q <= p => q <= r
    BY <1>0
  <2> QED
    BY <2>1, <2>2
<1>2. Cardinality(P) <= Cardinality(T) /\ (Cardinality(T) = Cardinality(P) => T = P)
  BY <1>1, FS_Subset
<1>3. r \in S => T # P
  <2>1. r \in S => r \in T /\ r \notin P
    OBVIOUS
  <2> QED
    BY <2>1
<1> QED
  BY <1>1, <1>2, <1>3 DEF CountTo

\* The places of a set are numbered from 1 to its cardinality.
LEMMA NthPlaceIs ==
  ASSUME NEW n \in Nat, NEW S \in SUBSET (1 .. n), NEW k \in 1 .. Cardinality(S)
  PROVE  NthPlace(S, k) \in S /\ CountTo(S, NthPlace(S, k)) = k
<1>1. Cardinality(S) \in Nat /\ k \in Nat /\ k > 0 /\ k <= Cardinality(S)
  BY CountingPlaces
<1> DEFINE C == {p \in Nat : CountTo(S, p) >= k}
<1>2. n \in C
  BY <1>1, CountingPlaces
<1>3. PICK p \in C : \A j \in C : p <= j
  BY <1>2, LeastElement
<1> HIDE DEF C
<1>c. /\ CountTo(S, 0) = 0
      /\ \A q \in Nat : CountTo(S, q) \in Nat
      /\ \A q \in Nat : CountTo(S, q + 1) = CountTo(S, q) + (IF q + 1 \in S THEN 1 ELSE 0)
  BY CountingPlaces
<1>d. p \in Nat /\ CountTo(S, p) >= k
  BY <1>3 DEF C
<1>e. p # 0
  BY <1>1, <1>c, <1>d
<1>4. p - 1 \in Nat /\ (p - 1) + 1 = p
  BY <1>d, <1>e
<1>5. CountTo(S, p - 1) \in Nat /\ CountTo(S, p) \in Nat
      /\ CountTo(S, p) = CountTo(S, p - 1) + (IF p \in S THEN 1 ELSE 0)
  BY <1>4, <1>c, <1>d
<1>6. ~(CountTo(S, p - 1) >= k)
  <2>1. \A j \in Nat : CountTo(S, j) >= k => p <= j
    BY <1>3 DEF C
  <2> QED
    BY <1>4, <1>d, <2>1
<1>7. p \in S /\ CountTo(S, p) = k
  BY <1>1, <1>d, <1>5, <1>6
<1> QED
  BY <1>7 DEF NthPlace

LEMMA NthPlaceOf ==
  ASSUME NEW n \in Nat, NEW S \in SUBSET (1 .. n), NEW p \in S
  PROVE  CountTo(S, p) \in 1 .. Cardinality(S) /\ NthPlace(S, CountTo(S, p)) = p
<1>1. p \in Nat /\ p > 0 /\ p <= n
  OBVIOUS
<1>c. /\ CountTo(S, 0) = 0 /\ Cardinality(S) \in Nat
      /\ \A q \in Nat : CountTo(S, q) \in Nat
      /\ CountTo(S, n) = Cardinality(S)
  <2>1. /\ Cardinality(S) \in Nat /\ CountTo(S, 0) = 0
        /\ \A q \in Nat : CountTo(S, q) \in Nat
    BY CountingPlaces
  <2>2. \A q \in Nat : q >= n => CountTo(S, q) = Cardinality(S)
    BY CountingPlaces
  <2> QED
    BY <2>1, <2>2
<1>m. \A x \in Nat : \A y \in Nat :
        x < y => CountTo(S, x) <= CountTo(S, y) /\ (y \in S => CountTo(S, x) < CountTo(S, y))
  BY CountingIsMonotonic
<1>2. CountTo(S, 0) < CountTo(S, p) /\ CountTo(S, p) \in Nat
  BY <1>1, <1>c, <1>m
<1>3. CountTo(S, p) <= Cardinality(S)
  BY <1>1, <1>c, <1>m
<1>4. CountTo(S, p) \in 1 .. Cardinality(S)
  BY <1>2, <1>3, <1>c
<1> DEFINE r == NthPlace(S, CountTo(S, p))
<1>5. r \in S /\ CountTo(S, r) = CountTo(S, p)
  BY <1>4, NthPlaceIs
<1> HIDE DEF r
<1>6. r \in Nat
  BY <1>5
<1>7. ~(r < p) /\ ~(p < r)
  BY <1>1, <1>2, <1>5, <1>6, <1>m
<1>8. r = p
  BY <1>1, <1>6, <1>7
<1> QED
  BY <1>4, <1>8 DEF r

LEMMA SelectedType ==
  ASSUME NEW X, NEW s \in Seq(X), NEW S \in SUBSET (1 .. Len(s))
  PROVE  /\ Selected(s, S) \in Seq(X)
         /\ Len(Selected(s, S)) = Cardinality(S) /\ Cardinality(S) \in Nat
         /\ \A k \in 1 .. Cardinality(S) :
              NthPlace(S, k) \in S /\ Selected(s, S)[k] = s[NthPlace(S, k)]
<1> DEFINE n == Len(s)
<1>0. n \in Nat /\ S \in SUBSET (1 .. n)
  OBVIOUS
<1> HIDE DEF n
<1>1. Cardinality(S) \in Nat
  BY <1>0, CountingPlaces
<1>2. \A k \in 1 .. Cardinality(S) : NthPlace(S, k) \in S
  BY <1>0, NthPlaceIs
<1>3. \A k \in 1 .. Cardinality(S) : s[NthPlace(S, k)] \in X
  <2>1. \A q \in S : q \in 1 .. Len(s) /\ s[q] \in X
    OBVIOUS
  <2> QED
    BY <1>2, <2>1
<1>4. Selected(s, S) \in [1 .. Cardinality(S) -> X]
  BY <1>3 DEF Selected
<1> QED
  BY <1>1, <1>2, <1>4 DEF Selected

\* Only the entries in those places matter.
LEMMA SelectedAgree ==
  ASSUME NEW n \in Nat, NEW S \in SUBSET (1 .. n), NEW s, NEW t,
         \A p \in S : s[p] = t[p]
  PROVE  Selected(s, S) = Selected(t, S)
<1>1. \A k \in 1 .. Cardinality(S) : NthPlace(S, k) \in S
  BY NthPlaceIs
<1> QED
  BY <1>1 DEF Selected

\* All entries, in the places they have.
LEMMA SelectedAll ==
  ASSUME NEW X, NEW s \in Seq(X)
  PROVE  /\ Selected(s, 1 .. Len(s)) = s
         /\ \A q \in 1 .. Len(s) : CountTo(1 .. Len(s), q) = q
<1> DEFINE m == Len(s)
           r == Selected(s, 1 .. m)
<1>0. m \in Nat /\ 1 .. m \in SUBSET (1 .. m)
  OBVIOUS
<1> HIDE DEF m
<1>1. Cardinality(1 .. m) = m
  <2>1. m < 1 => m = 0
    BY <1>0
  <2> QED
    BY <1>0, <2>1, FS_Interval
<1>2. ASSUME NEW q \in 1 .. m PROVE CountTo(1 .. m, q) = q
  <2>1. {j \in 1 .. m : j <= q} = 1 .. q
    BY <1>0
  <2>2. Cardinality(1 .. q) = q
    BY <1>0, FS_Interval
  <2> QED
    BY <2>1, <2>2 DEF CountTo
<1>3. ASSUME NEW q \in 1 .. m PROVE NthPlace(1 .. m, q) = q
  BY <1>0, <1>2, NthPlaceOf
<1>4. /\ r \in Seq(X) /\ Len(r) = m /\ \A k \in 1 .. m : r[k] = s[NthPlace(1 .. m, k)]
  BY <1>0, <1>1, SelectedType DEF m
<1> HIDE DEF r
<1>5. Len(r) = Len(s) /\ \A k \in 1 .. Len(r) : r[k] = s[k]
  BY <1>3, <1>4 DEF m
<1>6. r = s
  BY <1>4, <1>5, SeqEqual
<1> QED
  BY <1>2, <1>6 DEF r, m

LEMMA SelectedNone == ASSUME NEW s PROVE Selected(s, {}) = << >>
  BY FS_EmptySet DEF Selected

\* A place behind the others adds its entry at the end.
LEMMA SelectedLast ==
  ASSUME NEW X, NEW s \in Seq(X), NEW S \in SUBSET (1 .. Len(s)), NEW m \in 1 .. Len(s),
         \A p \in S : p < m
  PROVE  Selected(s, S \cup {m}) = Append(Selected(s, S), s[m])
<1> DEFINE T == S \cup {m}
           c == Cardinality(S)
<1>0. T \in SUBSET (1 .. Len(s)) /\ Len(s) \in Nat /\ m \notin S
  OBVIOUS
<1>1. IsFiniteSet(S) /\ c \in Nat /\ Cardinality(T) = c + 1
  BY <1>0, CountingPlaces, FS_AddElement
<1>2. ASSUME NEW p \in S PROVE CountTo(T, p) = CountTo(S, p)
  <2>0. \A q \in S : q \in Nat /\ q < m
    OBVIOUS
  <2>1. {q \in T : q <= p} = {q \in S : q <= p}
    <3>1. p \in Nat /\ p < m /\ m \in Nat /\ ~(m <= p)
      BY <2>0
    <3> QED
      BY <3>1
  <2> QED
    BY <2>1, Zenon DEF CountTo
<1>3. CountTo(T, m) = c + 1
  <2>0. m \in Nat /\ \A q \in T : q <= m
    OBVIOUS
  <2>1. {q \in T : q <= m} = T
    BY <2>0
  <2> QED
    BY <1>1, <2>1 DEF CountTo
<1>4. NthPlace(T, c + 1) = m
  <2>1. \A p \in T : NthPlace(T, CountTo(T, p)) = p
    BY <1>0, NthPlaceOf
  <2> QED
    BY <1>3, <2>1
<1>5. ASSUME NEW k \in 1 .. c PROVE NthPlace(T, k) = NthPlace(S, k)
  <2>1. NthPlace(S, k) \in S /\ CountTo(S, NthPlace(S, k)) = k
    BY <1>0, NthPlaceIs
  <2>2. \A p \in T : NthPlace(T, CountTo(T, p)) = p
    BY <1>0, NthPlaceOf
  <2> QED
    BY <1>2, <2>1, <2>2
<1>z. \A Z \in SUBSET (1 .. Len(s)) :
        /\ Selected(s, Z) \in Seq(X) /\ Len(Selected(s, Z)) = Cardinality(Z)
        /\ \A k \in 1 .. Cardinality(Z) : Selected(s, Z)[k] = s[NthPlace(Z, k)]
  BY SelectedType
<1>6. /\ Selected(s, S) \in Seq(X) /\ Len(Selected(s, S)) = c
      /\ \A k \in 1 .. c : Selected(s, S)[k] = s[NthPlace(S, k)]
  BY <1>z
<1>7. /\ Selected(s, T) \in Seq(X) /\ Len(Selected(s, T)) = c + 1
      /\ \A k \in 1 .. c + 1 : Selected(s, T)[k] = s[NthPlace(T, k)]
  <2>1. Cardinality(T) = c + 1
    BY <1>1
  <2> HIDE DEF T
  <2> QED
    BY <1>0, <1>z, <2>1
<1> DEFINE a == Append(Selected(s, S), s[m])
<1>8. a \in Seq(X) /\ Len(a) = c + 1
      /\ \A k \in 1 .. c + 1 : a[k] = IF k = c + 1 THEN s[m] ELSE Selected(s, S)[k]
  BY <1>6
<1> HIDE DEF a
<1>9. \A k \in 1 .. c + 1 : Selected(s, T)[k] = a[k]
  <2> TAKE k \in 1 .. c + 1
  <2>1. CASE k = c + 1
    BY <1>4, <1>7, <1>8, <2>1
  <2>2. CASE k # c + 1
    <3>1. k \in 1 .. c
      BY <1>1, <2>2
    <3> QED
      BY <1>5, <1>6, <1>7, <1>8, <2>2, <3>1
  <2> QED
    BY <2>1, <2>2
<1>10. Selected(s, T) = a
  BY <1>7, <1>8, <1>9, SeqEqual
<1> QED
  BY <1>10 DEF a

\* Selecting all places but one removes the entry there.
LEMMA SelectedAllBut ==
  ASSUME NEW X, NEW s \in Seq(X), NEW d \in 1 .. Len(s)
  PROVE  Selected(s, (1 .. Len(s)) \ {d}) = RemoveAt(s, d)
<1> DEFINE n == Len(s)
           S == (1 .. n) \ {d}
           r == RemoveAt(s, d)
<1>0. n \in Nat /\ S \in SUBSET (1 .. n) /\ d \in Nat /\ d > 0 /\ d <= n
  OBVIOUS
<1>1. r \in Seq(X) /\ Len(r) = n - 1
      /\ \A k \in 1 .. n - 1 : r[k] = IF k < d THEN s[k] ELSE s[k + 1]
  BY RemoveAtType
<1> HIDE DEF r
<1>2. Cardinality(S) = n - 1
  <2>1. IsFiniteSet(1 .. n) /\ Cardinality(1 .. n) = n
    BY <1>0, FS_Interval
  <2> QED
    BY <1>0, <2>1, FS_RemoveElement
<1>3. ASSUME NEW p \in S PROVE CountTo(S, p) = IF p < d THEN p ELSE p - 1
  <2>1. p \in Nat /\ p > 0 /\ IsFiniteSet(1 .. p) /\ Cardinality(1 .. p) = p
    BY FS_Interval
  <2>2. CASE p < d
    <3>1. {q \in S : q <= p} = 1 .. p
      BY <1>0, <2>2
    <3> QED
      BY <2>1, <2>2, <3>1 DEF CountTo
  <2>3. CASE ~(p < d)
    <3>1. {q \in S : q <= p} = (1 .. p) \ {d} /\ d \in 1 .. p
      BY <1>0, <2>3
    <3>2. Cardinality((1 .. p) \ {d}) = p - 1
      BY <2>1, <3>1, FS_RemoveElement
    <3> QED
      BY <2>3, <3>1, <3>2 DEF CountTo
  <2> QED
    BY <2>2, <2>3
<1>4. /\ Selected(s, S) \in Seq(X) /\ Len(Selected(s, S)) = n - 1
      /\ \A k \in 1 .. n - 1 : Selected(s, S)[k] = s[NthPlace(S, k)]
  <2>1. \A Z \in SUBSET (1 .. Len(s)) :
          /\ Selected(s, Z) \in Seq(X) /\ Len(Selected(s, Z)) = Cardinality(Z)
          /\ \A k \in 1 .. Cardinality(Z) : Selected(s, Z)[k] = s[NthPlace(Z, k)]
    BY SelectedType
  <2> HIDE DEF S
  <2> QED
    BY <1>0, <1>2, <2>1
<1>5. ASSUME NEW k \in 1 .. n - 1 PROVE Selected(s, S)[k] = r[k]
  <2> DEFINE p == IF k < d THEN k ELSE k + 1
  <2>1. p \in S /\ (IF p < d THEN p ELSE p - 1) = k
    BY <1>0
  <2>2. CountTo(S, p) = k
    BY <1>3, <2>1
  <2>3. \A x \in S : NthPlace(S, CountTo(S, x)) = x
    BY <1>0, NthPlaceOf
  <2>4. NthPlace(S, k) = p
    BY <2>1, <2>2, <2>3
  <2> QED
    BY <1>1, <1>4, <2>4
<1>6. Selected(s, S) = r
  BY <1>1, <1>4, <1>5, SeqEqual
<1> QED
  BY <1>6 DEF r

\* Taking one place out of a set removes the entry there, and those behind it
\* move up.
LEMMA SelectedWithout ==
  ASSUME NEW X, NEW s \in Seq(X), NEW S \in SUBSET (1 .. Len(s)), NEW m \in S
  PROVE  /\ CountTo(S, m) \in 1 .. Cardinality(S)
         /\ Selected(s, S \ {m}) = RemoveAt(Selected(s, S), CountTo(S, m))
         /\ \A p \in Nat : p >= m => CountTo(S \ {m}, p) = CountTo(S, p) - 1
<1> DEFINE n == Len(s)
           T == S \ {m}
           c == Cardinality(S)
           d == CountTo(S, m)
           r == RemoveAt(Selected(s, S), d)
<1>0. n \in Nat /\ S \in SUBSET (1 .. n) /\ T \in SUBSET (1 .. n) /\ m \in 1 .. n /\ m \in Nat
      /\ \A q \in S : q \in Nat
  OBVIOUS
<1> HIDE DEF n
<1>1. IsFiniteSet(S) /\ c \in Nat /\ Cardinality(T) = c - 1
  BY <1>0, CountingPlaces, FS_RemoveElement
<1>2. d \in 1 .. c
  BY <1>0, NthPlaceOf
<1>3. ASSUME NEW p \in Nat, p < m PROVE CountTo(T, p) = CountTo(S, p)
  <2>1. ~(m <= p)
    BY <1>0, <1>3
  <2>2. {q \in T : q <= p} = {q \in S : q <= p}
    BY <2>1
  <2> QED
    BY <2>2, Zenon DEF CountTo
<1>4. ASSUME NEW p \in Nat, p >= m PROVE CountTo(T, p) = CountTo(S, p) - 1
  <2>1. {q \in T : q <= p} = {q \in S : q <= p} \ {m} /\ m \in {q \in S : q <= p}
    BY <1>0, <1>4
  <2>2. IsFiniteSet({q \in S : q <= p})
    BY <1>0, CountingPlaces
  <2>3. Cardinality({q \in S : q <= p} \ {m}) = Cardinality({q \in S : q <= p}) - 1
    BY <2>1, <2>2, FS_RemoveElement
  <2> QED
    BY <2>1, <2>3 DEF CountTo
<1>5. /\ Selected(s, S) \in Seq(X) /\ Len(Selected(s, S)) = c
      /\ \A k \in 1 .. c : Selected(s, S)[k] = s[NthPlace(S, k)]
  BY SelectedType
<1>6. /\ Selected(s, T) \in Seq(X) /\ Len(Selected(s, T)) = c - 1
      /\ \A k \in 1 .. c - 1 : Selected(s, T)[k] = s[NthPlace(T, k)]
  <2>1. \A Z \in SUBSET (1 .. Len(s)) :
          /\ Selected(s, Z) \in Seq(X) /\ Len(Selected(s, Z)) = Cardinality(Z)
          /\ \A k \in 1 .. Cardinality(Z) : Selected(s, Z)[k] = s[NthPlace(Z, k)]
    BY SelectedType
  <2>2. T \in SUBSET (1 .. Len(s))
    BY <1>0 DEF n
  <2> HIDE DEF T
  <2> QED
    BY <1>1, <2>1, <2>2
<1> HIDE DEF c, d
<1>7. /\ r \in Seq(X) /\ Len(r) = c - 1
      /\ \A k \in 1 .. c - 1 :
           r[k] = IF k < d THEN Selected(s, S)[k] ELSE Selected(s, S)[k + 1]
  <2>1. d \in 1 .. Len(Selected(s, S))
    BY <1>2, <1>5
  <2> QED
    BY <1>5, <2>1, RemoveAtType
<1> HIDE DEF r
<1>8. ASSUME NEW k \in 1 .. c - 1 PROVE Selected(s, T)[k] = r[k]
  <2>1. PICK p : p = NthPlace(T, k)
    OBVIOUS
  <2>2. p \in T /\ CountTo(T, p) = k
    BY <1>0, <1>1, <2>1, NthPlaceIs
  <2>3. p \in Nat /\ p # m /\ p \in S
    BY <1>0, <2>2
  <2>4. NthPlace(S, CountTo(S, p)) = p /\ CountTo(S, p) \in 1 .. c
    BY <1>0, <2>3, NthPlaceOf DEF c
  <2>5. CASE p < m
    <3>1. CountTo(S, p) = k
      BY <1>3, <2>2, <2>3, <2>5
    <3>2. CountTo(S, p) < CountTo(S, m)
      BY <1>0, <2>3, <2>5, CountingIsMonotonic
    <3>3. k < d /\ k \in 1 .. c
      BY <2>4, <3>1, <3>2 DEF d
    <3>4. NthPlace(S, k) = p
      BY <2>4, <3>1
    <3>5. Selected(s, S)[k] = s[p]
      BY <1>5, <3>3, <3>4
    <3>6. Selected(s, T)[k] = s[p]
      BY <1>6, <2>1
    <3>7. r[k] = Selected(s, S)[k]
      BY <1>7, <3>3
    <3> QED
      BY <3>5, <3>6, <3>7
  <2>6. CASE m < p
    <3>1. CountTo(S, p) = k + 1
      <4>0. p >= m
        BY <1>0, <2>3, <2>6
      <4>1. CountTo(T, p) = CountTo(S, p) - 1
        BY <1>4, <2>3, <4>0
      <4> QED
        BY <1>1, <2>2, <2>4, <4>1
    <3>2. CountTo(S, m) < CountTo(S, p)
      BY <1>0, <2>3, <2>6, CountingIsMonotonic
    <3>3. ~(k < d) /\ k + 1 \in 1 .. c
      BY <1>1, <1>2, <2>4, <3>1, <3>2 DEF d
    <3>4. NthPlace(S, k + 1) = p
      BY <2>4, <3>1
    <3>5. Selected(s, S)[k + 1] = s[p]
      BY <1>5, <3>3, <3>4
    <3>6. Selected(s, T)[k] = s[p]
      BY <1>6, <2>1
    <3>7. r[k] = Selected(s, S)[k + 1]
      BY <1>7, <3>3
    <3> QED
      BY <3>5, <3>6, <3>7
  <2> QED
    BY <1>0, <2>3, <2>5, <2>6
<1>9. Selected(s, T) = r
  BY <1>1, <1>6, <1>7, <1>8, SeqEqual
<1> QED
  BY <1>2, <1>4, <1>9 DEF c, d, r

\* The entries up to place m, and those up to the next.
LEMMA PrefixGrows ==
  ASSUME NEW X, NEW s \in Seq(X), NEW m \in Nat
  PROVE  /\ SubSeq(s, 1, 0) = << >>
         /\ SubSeq(s, 1, Len(s)) = s
         /\ m <= Len(s) => SubSeq(s, 1, m) \in Seq(X) /\ Len(SubSeq(s, 1, m)) = m
         /\ m < Len(s) => SubSeq(s, 1, m + 1) = Append(SubSeq(s, 1, m), s[m + 1])
<1>1. SubSeq(s, 1, 0) = << >> /\ SubSeq(s, 1, Len(s)) = s
  OBVIOUS
<1>2. m <= Len(s) => SubSeq(s, 1, m) \in Seq(X) /\ Len(SubSeq(s, 1, m)) = m
  OBVIOUS
<1>3. ASSUME m < Len(s) PROVE SubSeq(s, 1, m + 1) = Append(SubSeq(s, 1, m), s[m + 1])
  <2> DEFINE a == SubSeq(s, 1, m + 1)
             b == Append(SubSeq(s, 1, m), s[m + 1])
  <2>1. a \in Seq(X) /\ Len(a) = m + 1 /\ \A k \in 1 .. m + 1 : a[k] = s[k]
    BY <1>3
  <2>2. b \in Seq(X) /\ Len(b) = m + 1 /\ \A k \in 1 .. m + 1 : b[k] = s[k]
    BY <1>3
  <2> HIDE DEF a, b
  <2>3. a = b
    BY <2>1, <2>2, SeqEqual
  <2> QED
    BY <2>3 DEF a, b
<1> QED
  BY <1>1, <1>2, <1>3

\* A sequence that is another and one entry more.
LEMMA GrownByOne ==
  ASSUME NEW X, NEW s \in Seq(X), NEW t \in Seq(X), Len(t) = Len(s) + 1,
         \A k \in 1 .. Len(s) : t[k] = s[k]
  PROVE  t = Append(s, t[Len(s) + 1])
<1> DEFINE u == Append(s, t[Len(s) + 1])
<1>1. u \in Seq(X) /\ Len(u) = Len(t) /\ \A k \in 1 .. Len(t) : t[k] = u[k]
  OBVIOUS
<1> HIDE DEF u
<1>2. t = u
  BY <1>1, SeqEqual
<1> QED
  BY <1>2 DEF u

LEMMA OneAndTwo ==
  ASSUME NEW X, NEW x \in X, NEW y \in X
  PROVE  /\ << >> \in Seq(X) /\ <<x>> \in Seq(X) /\ <<x, y>> \in Seq(X)
         /\ Append(<< >>, x) = <<x>> /\ Append(<<x>>, y) = <<x, y>>
<1>1. << >> \in Seq(X) /\ <<x>> \in Seq(X) /\ <<x, y>> \in Seq(X)
  OBVIOUS
<1>2. Len(<<x>>) = Len(<< >>) + 1 /\ \A k \in 1 .. Len(<< >>) : <<x>>[k] = << >>[k]
  OBVIOUS
<1>3. <<x>> = Append(<< >>, <<x>>[Len(<< >>) + 1])
  BY <1>1, <1>2, GrownByOne
<1>4. Len(<<x, y>>) = Len(<<x>>) + 1 /\ \A k \in 1 .. Len(<<x>>) : <<x, y>>[k] = <<x>>[k]
  OBVIOUS
<1>5. <<x, y>> = Append(<<x>>, <<x, y>>[Len(<<x>>) + 1])
  BY <1>1, <1>4, GrownByOne
<1>6. <<x>>[Len(<< >>) + 1] = x /\ <<x, y>>[Len(<<x>>) + 1] = y
  OBVIOUS
<1>7. Append(<< >>, x) = <<x>>
  BY <1>3, <1>6, Zenon
<1>8. Append(<<x>>, y) = <<x, y>>
  BY <1>5, <1>6, Zenon
<1> QED
  BY <1>1, <1>7, <1>8, Zenon

\* Selecting from a sequence that has grown by an entry.
LEMMA SelectedAppend ==
  ASSUME NEW X, NEW s \in Seq(X), NEW x \in X, NEW S \in SUBSET (1 .. Len(s))
  PROVE  /\ Selected(Append(s, x), S) = Selected(s, S)
         /\ Selected(Append(s, x), S \cup {Len(s) + 1}) = Append(Selected(s, S), x)
<1> DEFINE t == Append(s, x)
           m == Len(s) + 1
<1>1. /\ t \in Seq(X) /\ Len(t) = m /\ m \in 1 .. Len(t) /\ t[m] = x
      /\ \A p \in S : t[p] = s[p]
      /\ S \in SUBSET (1 .. Len(t)) /\ \A p \in S : p < m
      /\ Len(s) \in Nat
  OBVIOUS
<1> HIDE DEF t, m
<1>2. Selected(t, S) = Selected(s, S)
  BY <1>1, SelectedAgree
<1>3. Selected(t, S \cup {m}) = Append(Selected(t, S), t[m])
  BY <1>1, SelectedLast
<1> QED
  BY <1>1, <1>2, <1>3 DEF t, m

-----------------------------------------------------------------------------
(***************************************************************************)
(* What the edits of ListEdits come to.                                    *)
(***************************************************************************)
LEMMA EditOfOnePlace ==
  ASSUME NEW k \in Int PROVE (CHOOSE j \in {k} : TRUE) = k
  OBVIOUS

LEMMA ReplaceEdit ==
  ASSUME NEW X, NEW s \in Seq(X), NEW k \in 1 .. Len(s), NEW x
  PROVE  Applied([op |-> "replace", at |-> {k - 1}, new |-> <<x>>], s) = [s EXCEPT ![k] = x]
<1>1. (CHOOSE j \in {k - 1} : TRUE) + 1 = k
  BY EditOfOnePlace
<1> QED
  BY <1>1 DEF Applied

LEMMA BeforeEdit ==
  ASSUME NEW s, NEW k \in Int, NEW new
  PROVE  Applied([op |-> "before", at |-> {k}, new |-> new], s) = Around(s, k, new)
<1>1. (CHOOSE j \in {k} : TRUE) = k
  BY EditOfOnePlace
<1> QED
  BY <1>1 DEF Applied, SpliceIn, Around

LEMMA AfterEdit ==
  ASSUME NEW s, NEW k \in Int, NEW new
  PROVE  Applied([op |-> "after", at |-> {k}, new |-> new], s) = Around(s, k + 1, new)
<1>1. (CHOOSE j \in {k} : TRUE) = k
  BY EditOfOnePlace
<1> QED
  BY <1>1 DEF Applied, SpliceIn, Around

LEMMA DropEdit ==
  ASSUME NEW X, NEW s \in Seq(X), NEW k \in 1 .. Len(s), NEW new
  PROVE  Applied([op |-> "drop", at |-> {k - 1}, new |-> new], s) = RemoveAt(s, k)
<1>1. {j \in 1 .. Len(s) : j - 1 \notin {k - 1}} = (1 .. Len(s)) \ {k}
  OBVIOUS
<1>2. Without(s, {k - 1}) = RemoveAt(s, k)
  BY <1>1, SelectedAllBut DEF Without
<1> QED
  BY <1>2 DEF Applied

LEMMA AssignEdit ==
  ASSUME NEW s, NEW D, NEW new
  PROVE  Applied([op |-> "assign", at |-> D, new |-> new], s) = new
  BY DEF Applied

LEMMA RefusedEdit ==
  ASSUME NEW s, NEW D, NEW new
  PROVE  Applied([op |-> "refused", at |-> D, new |-> new], s) = s
  BY DEF Applied

-----------------------------------------------------------------------------
(***************************************************************************)
(* Sequences joined end to end                                             *)
(***************************************************************************)
\* f joins the first of the sequences ss, up to each place
Joins(f, ss, n) ==
  f = [i \in 1 .. n |-> IF i = 1 THEN ss[i] ELSE f[i - 1] \o ss[i]]

LEMMA JoinsExist ==
  ASSUME NEW ss, NEW n \in Nat
  PROVE  \E f : Joins(f, ss, n)
<1> DEFINE Bad == {m \in Nat : ~ \E f : Joins(f, ss, m)}
<1>1. Bad = {}
  <2> SUFFICES ASSUME Bad # {} PROVE FALSE
    OBVIOUS
  <2>1. Bad \in SUBSET Nat
    OBVIOUS
  <2>2. PICK m \in Bad : \A j \in Bad : m <= j
    BY <2>1, LeastElement
  <2>3. m \in Nat /\ ~ \E f : Joins(f, ss, m)
    BY <2>2
  <2>4. CASE m = 0
    <3>1. Joins([i \in 1 .. 0 |-> ss[i]], ss, 0)
      BY DEF Joins
    <3> QED
      BY <2>3, <2>4, <3>1
  <2>5. CASE m # 0
    <3>1. m - 1 \in Nat /\ ~ m <= m - 1
      BY <2>3, <2>5
    <3>2. PICK g : Joins(g, ss, m - 1)
      BY <2>2, <3>1
    <3> DEFINE h == [i \in 1 .. m |-> IF i < m THEN g[i]
                                      ELSE IF i = 1 THEN ss[i] ELSE g[i - 1] \o ss[i]]
    <3>3. ASSUME NEW i \in 1 .. m
          PROVE  h[i] = IF i = 1 THEN ss[i] ELSE h[i - 1] \o ss[i]
      <4>1. CASE i = 1
        <5>1. i < m => i \in 1 .. m - 1
          BY <2>3, <4>1
        <5>2. i < m => g[i] = ss[i]
          BY <3>2, <4>1, <5>1 DEF Joins
        <5> QED
          BY <4>1, <5>2
      <4>2. CASE i # 1
        <5>1. i - 1 \in 1 .. m /\ i - 1 < m
          BY <2>3, <4>2
        <5>2. h[i - 1] = g[i - 1]
          BY <5>1
        <5>3. CASE i < m
          <6>1. i \in 1 .. m - 1
            BY <2>3, <5>3
          <6>2. g[i] = g[i - 1] \o ss[i]
            BY <3>2, <4>2, <6>1 DEF Joins
          <6> QED
            BY <4>2, <5>2, <5>3, <6>2
        <5>4. CASE ~ i < m
          BY <4>2, <5>2, <5>4
        <5> QED
          BY <5>3, <5>4
      <4> QED
        BY <4>1, <4>2
    <3>4. Joins(h, ss, m)
      BY <3>3 DEF Joins
    <3> QED
      BY <2>3, <3>4
  <2> QED
    BY <2>4, <2>5
<1>2. n \notin Bad
  <2> HIDE DEF Bad
  <2> QED
    BY <1>1
<1> QED
  BY <1>2

\* Joining sequences over a set gives a sequence over it.
LEMMA FlattenType ==
  ASSUME NEW X, NEW ss \in Seq(Seq(X))
  PROVE  FlattenSeq(ss) \in Seq(X)
<1>1. PICK n : n = Len(ss)
  OBVIOUS
<1>2. n \in Nat /\ \A i \in 1 .. n : ss[i] \in Seq(X)
  BY <1>1
<1>3. CASE n = 0
  <2>1. ss = << >> /\ ss \in Seq(X)
    BY <1>1, <1>3, EmptySeq
  <2> QED
    BY <1>1, <1>3, <2>1 DEF FlattenSeq
<1>4. CASE n # 0
  <2> DEFINE f == CHOOSE f : Joins(f, ss, n)
  <2>1. Joins(f, ss, n)
    BY <1>2, JoinsExist
  <2>2. FlattenSeq(ss) = f[n]
    BY <1>1, <1>4 DEF FlattenSeq, Joins
  <2> HIDE DEF f
  <2>3. f = [i \in 1 .. n |-> IF i = 1 THEN ss[i] ELSE f[i - 1] \o ss[i]]
    BY <2>1 DEF Joins
  <2> DEFINE Bad == {i \in 1 .. n : f[i] \notin Seq(X)}
  <2>4. Bad = {}
    <3> SUFFICES ASSUME Bad # {} PROVE FALSE
      OBVIOUS
    <3>1. Bad \in SUBSET Nat
      OBVIOUS
    <3>2. PICK i \in Bad : \A j \in Bad : i <= j
      BY <3>1, LeastElement
    <3>3. i \in 1 .. n /\ f[i] \notin Seq(X) /\ i # 1
      BY <1>2, <2>3, <3>2
    <3>4. i - 1 \in 1 .. n /\ ~ i <= i - 1
      BY <1>2, <3>3
    <3>5. f[i - 1] \in Seq(X) /\ ss[i] \in Seq(X)
      BY <1>2, <3>2, <3>3, <3>4
    <3>6. f[i] = f[i - 1] \o ss[i]
      BY <2>3, <3>3
    <3>7. f[i - 1] \o ss[i] \in Seq(X)
      BY <3>5, ConcatType
    <3> QED
      BY <3>3, <3>6, <3>7
  <2>5. n \in 1 .. n
    BY <1>2, <1>4
  <2> QED
    BY <2>2, <2>4, <2>5
<1> QED
  BY <1>3, <1>4
=============================================================================
