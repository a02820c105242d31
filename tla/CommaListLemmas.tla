--------------------------- MODULE CommaListLemmas ---------------------------
(***************************************************************************)
(* What the array operations of CommaList return, for arrays of any length *)
(* over any set of nodes, and that they keep items and commas alternating; *)
(* and that the item a number names is the one KwIndex finds.              *)
(***************************************************************************)
EXTENDS CommaList, SequenceTheorems, TLAPS, KwIndex

\* The length of an alternating array in terms of its number of items.
LEMMA AlternatingLength ==
  ASSUME NEW S, NEW a \in Seq(S), Alternating(a)
  PROVE  /\ ItemCount(a) \in Nat
         /\ a = << >> <=> ItemCount(a) = 0
         /\ a # << >> => Len(a) = 2 * ItemCount(a) - 1
  BY DEF Alternating, ItemCount

\* utarray_erase of any two neighbours keeps the array alternating: the
\* elements behind them move by two places and keep their parity.
LEMMA ErasePair ==
  ASSUME NEW S, NEW a \in Seq(S), Alternating(a),
         NEW pos \in Nat, pos + 2 <= Len(a)
  PROVE  Erase(a, pos, 2) \in Seq(S) /\ Alternating(Erase(a, pos, 2))
<1> DEFINE r == Erase(a, pos, 2)
<1>1. r = [i \in 1 .. Len(a) - 2 |-> IF i <= pos THEN a[i] ELSE a[i + 2]]
  BY DEF Erase
<1>2. Len(a) - 2 \in Nat
  OBVIOUS
<1>3. r \in Seq(S) /\ Len(r) = Len(a) - 2
  BY <1>1, <1>2
<1>4. r = << >> \/ Len(r) % 2 = 1
  BY <1>2, <1>3 DEF Alternating
<1>5. ASSUME NEW i \in 1 .. Len(r)
      PROVE  r[i] = Comma <=> i % 2 = 0
  BY <1>1, <1>2, <1>3 DEF Alternating
<1> QED
  BY <1>3, <1>4, <1>5 DEF Alternating

\* Removing an item removes one item and one comma, or the only item.
LEMMA RemoveItemAlternates ==
  ASSUME NEW S, NEW a \in Seq(S), Alternating(a),
         NEW k \in 0 .. ItemCount(a) - 1
  PROVE  RemoveItem(a, k) \in Seq(S) /\ Alternating(RemoveItem(a, k))
<1> DEFINE pos == IF k = ItemCount(a) - 1 THEN 2 * k - 1 ELSE 2 * k
<1>1. ItemCount(a) \in Nat /\ Len(a) = 2 * ItemCount(a) - 1
  BY AlternatingLength
<1>2. CASE Len(a) = 1
  BY <1>2 DEF RemoveItem, Alternating
<1>3. CASE Len(a) # 1
  <2>1. pos \in Nat /\ pos + 2 <= Len(a)
    BY <1>1, <1>3
  <2>2. RemoveItem(a, k) = Erase(a, pos, 2)
    BY <1>3 DEF RemoveItem
  <2> QED
    BY <2>1, <2>2, ErasePair
<1> QED
  BY <1>2, <1>3

\* Inserting an item inserts one item, and a comma unless the list is empty.
LEMMA InsertItemAlternates ==
  ASSUME NEW S, Comma \in S, NEW a \in Seq(S), Alternating(a),
         NEW k \in 0 .. ItemCount(a), NEW x \in S, x # Comma
  PROVE  InsertItem(a, k, x) \in Seq(S) /\ Alternating(InsertItem(a, k, x))
<1> DEFINE m == IF a = << >> THEN 1 ELSE Len(a) + 2
           r == InsertItem(a, k, x)
<1>1. ItemCount(a) \in Nat /\ (a = << >> <=> ItemCount(a) = 0)
      /\ (a # << >> => Len(a) = 2 * ItemCount(a) - 1)
  BY AlternatingLength
<1>2. m \in Nat /\ m % 2 = 1
  <2>1. CASE a = << >>
    BY <2>1
  <2>2. CASE a # << >>
    BY <1>1, <2>2
  <2> QED
    BY <2>1, <2>2
<1>3. ASSUME NEW i \in 1 .. m, i % 2 # 0, i # 2 * k + 1
      PROVE  /\ i < 2 * k + 1 => i \in 1 .. Len(a)
             /\ ~(i < 2 * k + 1) => i - 2 \in 1 .. Len(a)
  BY <1>1, <1>2, <1>3
<1>4. r \in Seq(S) /\ Len(r) = m
  BY <1>2, <1>3 DEF InsertItem
<1>5. ASSUME NEW i \in 1 .. m
      PROVE  r[i] = Comma <=> i % 2 = 0
  BY <1>2, <1>3, <1>5 DEF InsertItem, Alternating
<1> QED
  BY <1>2, <1>4, <1>5 DEF Alternating

\* utarray_resize to an odd length cuts behind an item.
LEMMA ShrinkAlternates ==
  ASSUME NEW S, NEW a \in Seq(S), Alternating(a),
         NEW m \in 1 .. ItemCount(a)
  PROVE  Shrink(a, 2 * m - 1) \in Seq(S) /\ Alternating(Shrink(a, 2 * m - 1))
<1>1. ItemCount(a) \in Nat /\ Len(a) = 2 * ItemCount(a) - 1
  BY AlternatingLength
<1>2. 2 * m - 1 \in Nat /\ 2 * m - 1 <= Len(a) /\ (2 * m - 1) % 2 = 1
  BY <1>1
<1> QED
  BY <1>2 DEF Shrink, Alternating

\* Overwriting an item with an item.
LEMMA OverwriteAlternates ==
  ASSUME NEW S, NEW a \in Seq(S), Alternating(a),
         NEW j \in 1 .. Len(a), j % 2 = 1, NEW x \in S, x # Comma
  PROVE  [a EXCEPT ![j] = x] \in Seq(S) /\ Alternating([a EXCEPT ![j] = x])
  BY DEF Alternating

LEMMA SetItemAlternates ==
  ASSUME NEW S, NEW a \in Seq(S), Alternating(a),
         NEW k \in 0 .. ItemCount(a) - 1, NEW x \in S, x # Comma
  PROVE  SetItem(a, k, x) \in Seq(S) /\ Alternating(SetItem(a, k, x))
<1>1. ItemCount(a) \in Nat /\ Len(a) = 2 * ItemCount(a) - 1
  BY AlternatingLength
<1>2. 2 * k + 1 \in 1 .. Len(a) /\ (2 * k + 1) % 2 = 1
  BY <1>1
<1> QED
  BY <1>2, OverwriteAlternates DEF SetItem

\* The items of an alternating array over S are items, not commas.
LEMMA ItemsType ==
  ASSUME NEW S, NEW a \in Seq(S \cup {Comma}), Alternating(a)
  PROVE  Items(a) \in Seq(S) /\ Len(Items(a)) = ItemCount(a)
<1>1. ItemCount(a) \in Nat /\ (a = << >> <=> ItemCount(a) = 0)
      /\ (a # << >> => Len(a) = 2 * ItemCount(a) - 1)
  BY AlternatingLength
<1>2. ASSUME NEW k \in 1 .. ItemCount(a)
      PROVE  a[2 * k - 1] \in S
  BY <1>1 DEF Alternating
<1>3. Items(a) \in [1 .. ItemCount(a) -> S]
  BY <1>2 DEF Items
<1> QED
  BY <1>1, <1>3

\* The items after an insertion: the new one is item k, those from k on have
\* moved by one.
LEMMA InsertItemItems ==
  ASSUME NEW S, NEW a \in Seq(S), Alternating(a),
         NEW k \in 0 .. ItemCount(a), NEW x
  PROVE  /\ ItemCount(InsertItem(a, k, x)) = ItemCount(a) + 1
         /\ \A i \in 1 .. ItemCount(a) + 1 :
              Items(InsertItem(a, k, x))[i]
                = IF i <= k THEN Items(a)[i] ELSE IF i = k + 1 THEN x ELSE Items(a)[i - 1]
<1> DEFINE m == IF a = << >> THEN 1 ELSE Len(a) + 2
           r == InsertItem(a, k, x)
           c == ItemCount(a)
<1>1. c \in Nat /\ (a = << >> <=> c = 0) /\ (a # << >> => Len(a) = 2 * c - 1)
  BY AlternatingLength
<1>2. m = 2 * c + 1
  BY <1>1
<1>3. Len(r) = m
  BY <1>1, <1>2 DEF InsertItem
<1>4. ItemCount(r) = c + 1
  <2>1. ItemCount(r) = (Len(r) + 1) \div 2
    BY DEF ItemCount
  <2>2. Len(r) = 2 * c + 1
    BY <1>2, <1>3
  <2> HIDE DEF r, c
  <2>3. (Len(r) + 1) \div 2 = c + 1
    BY <1>1, <2>2
  <2> QED
    BY <2>1, <2>3
<1>5. ASSUME NEW i \in 1 .. c + 1
      PROVE  r[2 * i - 1] = IF i <= k THEN Items(a)[i] ELSE IF i = k + 1 THEN x ELSE Items(a)[i - 1]
  <2>1. 2 * i - 1 \in 1 .. m /\ (2 * i - 1) % 2 # 0
    BY <1>1, <1>2
  <2>2. r[2 * i - 1] = IF 2 * i - 1 = 2 * k + 1 THEN x
                       ELSE IF 2 * i - 1 < 2 * k + 1 THEN a[2 * i - 1] ELSE a[2 * i - 3]
    BY <2>1 DEF InsertItem
  <2>3. CASE i <= k
    BY <1>1, <2>2, <2>3 DEF Items
  <2>4. CASE i = k + 1
    BY <1>1, <2>2, <2>4
  <2>5. CASE i > k + 1
    <3>1. i - 1 \in 1 .. c /\ 2 * (i - 1) - 1 = 2 * i - 3
      BY <1>1, <2>5
    <3>2. Items(a)[i - 1] = a[2 * i - 3]
      BY <3>1 DEF Items
    <3> QED
      BY <1>1, <2>2, <2>5, <3>2
  <2> QED
    BY <1>1, <2>3, <2>4, <2>5
<1>6. ASSUME NEW i \in 1 .. c + 1
      PROVE  Items(r)[i] = r[2 * i - 1]
  BY <1>4 DEF Items
<1> QED
  BY <1>4, <1>5, <1>6

\* The items after an item was erased with a comma next to it, the one
\* behind or the one before: those behind it have moved up.
LEMMA ErasedItems ==
  ASSUME NEW S, NEW a \in Seq(S), Alternating(a),
         NEW k \in 0 .. ItemCount(a) - 1,
         NEW pos \in Nat, pos = 2 * k \/ pos = 2 * k - 1, pos + 2 <= Len(a)
  PROVE  /\ ItemCount(Erase(a, pos, 2)) = ItemCount(a) - 1
         /\ \A i \in 1 .. ItemCount(a) - 1 :
              Items(Erase(a, pos, 2))[i] = IF i <= k THEN Items(a)[i] ELSE Items(a)[i + 1]
<1> DEFINE r == Erase(a, pos, 2)
           c == ItemCount(a)
<1>1. c \in Nat /\ Len(a) = 2 * c - 1 /\ c >= 1 /\ k \in Int
  BY AlternatingLength
<1> HIDE DEF c
<1>2. c >= 2 /\ pos \in Int /\ Len(a) - 2 = 2 * c - 3
  BY <1>1
<1>3. r = [i \in 1 .. 2 * c - 3 |-> IF i <= pos THEN a[i] ELSE a[i + 2]]
  BY <1>2 DEF Erase
<1>4. Len(r) = 2 * c - 3
  BY <1>1, <1>2, <1>3
<1> HIDE DEF r
<1>5. ItemCount(r) = c - 1
  BY <1>1, <1>4 DEF ItemCount
<1>6. ASSUME NEW i \in 1 .. c - 1
      PROVE  Items(r)[i] = IF i <= k THEN Items(a)[i] ELSE Items(a)[i + 1]
  <2>1. 2 * i - 1 \in 1 .. 2 * c - 3
    BY <1>1, <1>2
  <2>2. r[2 * i - 1] = IF 2 * i - 1 <= pos THEN a[2 * i - 1] ELSE a[2 * i + 1]
    BY <1>3, <2>1
  <2>3. 2 * i - 1 <= pos <=> i <= k
    BY <1>1, <1>2
  <2>4. Items(r)[i] = r[2 * i - 1]
    BY <1>5 DEF Items
  <2>5. Items(a)[i] = a[2 * i - 1] /\ Items(a)[i + 1] = a[2 * i + 1]
    <3>1. i \in 1 .. c /\ i + 1 \in 1 .. c /\ 2 * (i + 1) - 1 = 2 * i + 1
      BY <1>1
    <3>2. Items(a)[i] = a[2 * i - 1] /\ Items(a)[i + 1] = a[2 * (i + 1) - 1]
      BY <3>1 DEF Items, c
    <3> QED
      BY <3>1, <3>2
  <2> QED
    BY <2>2, <2>3, <2>4, <2>5
<1> QED
  BY <1>5, <1>6 DEF r, c

\* The items after one was removed.
LEMMA RemoveItemItems ==
  ASSUME NEW S, NEW a \in Seq(S), Alternating(a),
         NEW k \in 0 .. ItemCount(a) - 1
  PROVE  /\ ItemCount(RemoveItem(a, k)) = ItemCount(a) - 1
         /\ \A i \in 1 .. ItemCount(a) - 1 :
              Items(RemoveItem(a, k))[i] = IF i <= k THEN Items(a)[i] ELSE Items(a)[i + 1]
<1> DEFINE pos == IF k = ItemCount(a) - 1 THEN 2 * k - 1 ELSE 2 * k
           r == RemoveItem(a, k)
           c == ItemCount(a)
<1>1. c \in Nat /\ Len(a) = 2 * c - 1 /\ c >= 1 /\ k \in Int
  BY AlternatingLength
<1>2. CASE Len(a) = 1
  <2>1. r = << >>
    BY <1>2 DEF RemoveItem
  <2>2. c = 1
    <3>1. 2 * c - 1 = 1 /\ c \in Nat
      BY <1>1, <1>2
    <3> HIDE DEF c
    <3> QED
      BY <3>1
  <2>3. ItemCount(<< >>) = 0
    BY DEF ItemCount
  <2> QED
    BY <2>1, <2>2, <2>3
<1>3. CASE Len(a) # 1
  <2>1. pos \in Nat /\ (pos = 2 * k \/ pos = 2 * k - 1) /\ pos + 2 <= Len(a)
    BY <1>1, <1>3
  <2>2. r = Erase(a, pos, 2)
    BY <1>3 DEF RemoveItem
  <2> HIDE DEF pos
  <2> QED
    BY <2>1, <2>2, ErasedItems
<1> QED
  BY <1>2, <1>3

\* The items after the array was cut behind item m.
LEMMA ShrinkItems ==
  ASSUME NEW S, NEW a \in Seq(S), Alternating(a),
         NEW m \in 1 .. ItemCount(a)
  PROVE  Items(Shrink(a, 2 * m - 1)) = [i \in 1 .. m |-> Items(a)[i]]
<1> DEFINE r == Shrink(a, 2 * m - 1)
<1>1. ItemCount(a) \in Nat /\ m \in Nat /\ m >= 1 /\ m <= ItemCount(a)
  BY AlternatingLength
<1>2. r = [i \in 1 .. 2 * m - 1 |-> a[i]] /\ Len(r) = 2 * m - 1
  BY <1>1 DEF Shrink
<1> HIDE DEF r
<1>3. ItemCount(r) = m
  BY <1>1, <1>2 DEF ItemCount
<1>4. ASSUME NEW i \in 1 .. m PROVE r[2 * i - 1] = Items(a)[i]
  <2>1. 2 * i - 1 \in 1 .. 2 * m - 1 /\ i \in 1 .. ItemCount(a)
    BY <1>1
  <2> QED
    BY <1>2, <2>1 DEF Items
<1>5. Items(r) = [i \in 1 .. m |-> r[2 * i - 1]]
  BY <1>3 DEF Items
<1> QED
  BY <1>4, <1>5 DEF r

\* The items after one was replaced.
LEMMA SetItemItems ==
  ASSUME NEW S, NEW a \in Seq(S), Alternating(a),
         NEW k \in 0 .. ItemCount(a) - 1, NEW x
  PROVE  Items(SetItem(a, k, x)) = [Items(a) EXCEPT ![k + 1] = x]
<1>1. ItemCount(a) \in Nat /\ Len(a) = 2 * ItemCount(a) - 1 /\ k \in Int
  BY AlternatingLength
<1>2. 2 * k + 1 \in 1 .. Len(a)
  BY <1>1
<1>3. Len(SetItem(a, k, x)) = Len(a)
  BY DEF SetItem
<1>4. ItemCount(SetItem(a, k, x)) = ItemCount(a)
  BY <1>3 DEF ItemCount
<1>5. ASSUME NEW i \in 1 .. ItemCount(a)
      PROVE  SetItem(a, k, x)[2 * i - 1] = IF i = k + 1 THEN x ELSE a[2 * i - 1]
  <2>1. 2 * i - 1 \in 1 .. Len(a) /\ (2 * i - 1 = 2 * k + 1 <=> i = k + 1)
    BY <1>1
  <2> QED
    BY <1>2, <2>1 DEF SetItem
<1>6. Items(SetItem(a, k, x)) =
        [i \in 1 .. ItemCount(a) |-> IF i = k + 1 THEN x ELSE a[2 * i - 1]]
  BY <1>4, <1>5 DEF Items
<1>7. [Items(a) EXCEPT ![k + 1] = x] =
        [i \in 1 .. ItemCount(a) |-> IF i = k + 1 THEN x ELSE Items(a)[i]]
  BY DEF Items
<1>8. \A i \in 1 .. ItemCount(a) : Items(a)[i] = a[2 * i - 1]
  BY DEF Items
<1> QED
  BY <1>6, <1>7, <1>8

-----------------------------------------------------------------------------
(***************************************************************************)
(* Indices                                                                 *)
(***************************************************************************)
LEMMA CIntType == ASSUME NEW i \in Int PROVE CInt(i) \in Int
  BY IntMinAssumption DEF CInt

LEMMA FittingInt ==
  ASSUME NEW i \in IntMin .. -IntMin - 1 PROVE CInt(i) = i
<1> DEFINE d == i - IntMin
           w == -2 * IntMin
<1>1. d \in Nat /\ w \in Nat /\ d < w
  BY IntMinAssumption
<1> HIDE DEF d, w
<1>2. d % w = d
  BY <1>1
<1> QED
  BY <1>2, IntMinAssumption DEF CInt, d, w

\* INT_MIN, whose absolute value overflows, counts from the end like the
\* other negative numbers, or names nothing.
LEMMA NumberNames ==
  ASSUME NEW step, step.n \in Int, FitsInt(step), IsIndex(step), NEW ct \in Nat
  PROVE  LET p == Normalize(ct, KwIndex(step))
             k == IndexNamed(step, ct)
         IN  /\ p \in 0 .. ct - 1 <=> k \in 0 .. ct - 1
             /\ p \in 0 .. ct - 1 => k = p
<1> DEFINE i == KwIndex(step)
           p == Normalize(ct, i)
           k == IndexNamed(step, ct)
<1>1. step.n \in Int /\ IntMin \in Int /\ IntMin < -1
  BY IntMinAssumption
<1>2. p = IF i < 0 /\ CAbs(i) <= ct THEN ct + i ELSE i
  BY DEF Normalize
<1>3. SUFFICES (p \in 0 .. ct - 1 <=> k \in 0 .. ct - 1) /\ (p \in 0 .. ct - 1 => k = p)
  OBVIOUS
<1> HIDE DEF i, p
<1>4. CASE step.kind = "int"
  <2>1. step.n \in IntMin .. -IntMin - 1
    BY <1>4 DEF FitsInt
  <2>2. i = step.n
    BY <1>1, <1>4, <2>1, FittingInt DEF KwIndex, i
  <2>3. k = IF step.n >= 0 THEN step.n ELSE IF -step.n <= ct THEN ct + step.n ELSE ct
    BY <1>1, <1>4 DEF IndexNamed
  <2>4. step.n < 0 => CAbs(step.n) = IF step.n = IntMin THEN step.n ELSE -step.n
    BY <1>1 DEF CAbs
  <2> HIDE DEF k
  <2>5. CASE step.n >= 0
    BY <1>1, <1>2, <2>2, <2>3, <2>5
  <2>6. CASE step.n < 0 /\ -step.n <= ct
    <3>1. CAbs(step.n) <= ct
      BY <1>1, <2>4, <2>6
    <3> QED
      BY <1>1, <1>2, <2>2, <2>3, <2>6, <3>1
  <2>7. CASE step.n < 0 /\ -step.n > ct
    <3>1. p < 0
      BY <1>1, <1>2, <2>2, <2>7
    <3>2. k = ct
      BY <1>1, <2>3, <2>7
    <3> QED
      BY <3>1, <3>2
  <2> QED
    BY <1>1, <2>5, <2>6, <2>7
<1>5. CASE step.kind = "kwnum"
  <2>1. step.n \in 0 .. -IntMin - 1 /\ i = step.n
    BY <1>5 DEF FitsInt, KwIndex, i
  <2>2. k = step.n
    BY <1>1, <1>5, <2>1 DEF IndexNamed
  <2>3. p = step.n
    BY <1>1, <1>2, <2>1
  <2> QED
    BY <2>2, <2>3
<1>6. CASE step.kind = "-kwnum"
  <2>1. step.n \in 0 .. -IntMin /\ i = -step.n
    BY <1>6 DEF FitsInt, KwIndex, i
  <2>2. k = IF step.n \in 1 .. ct THEN ct - step.n ELSE IF step.n = 0 THEN 0 ELSE ct
    BY <1>1, <1>6 DEF IndexNamed
  <2>3. step.n > 0 => CAbs(-step.n) = IF -step.n = IntMin THEN -step.n ELSE step.n
    BY <1>1 DEF CAbs
  <2> HIDE DEF k
  <2>4. CASE step.n < 1
    <3>1. i = 0 /\ step.n = 0
      BY <1>1, <2>1, <2>4
    <3>2. p = 0 /\ k = 0
      BY <1>2, <2>2, <2>4, <3>1
    <3> QED
      BY <3>2
  <2>5. CASE step.n \in 1 .. ct
    <3>1. CAbs(-step.n) <= ct /\ -step.n < 0
      BY <1>1, <2>3, <2>5
    <3> QED
      BY <1>1, <1>2, <2>1, <2>2, <2>5, <3>1
  <2>6. CASE step.n > ct
    <3>1. p < 0
      BY <1>1, <1>2, <2>1, <2>6
    <3>2. k = ct
      BY <1>1, <2>2, <2>6
    <3> QED
      BY <3>1, <3>2
  <2> QED
    BY <1>1, <2>1, <2>4, <2>5, <2>6
<1> QED
  BY <1>4, <1>5, <1>6 DEF IsIndex
=============================================================================
