----------------------------- MODULE HeapProofs -----------------------------
(***************************************************************************)
(* Theorems about BindingHeap, for every set of texts, every number of     *)
(* variables, every parsed target and every bound on the calls.            *)
(***************************************************************************)
EXTENDS BindingHeap, SequenceLemmas

\* The slots that hold a struct: places of the arg_list and made bindings.
Slots == {p \in Pointer : Valid(p)}

\* Every struct points to an array that exists, or existed.
SubsExist == \A p \in Slots : StructAt(p).sub \in DOMAIN heap

\* Two structs with one array were joined, the made ones included; an array
\* no longer live belonged to a joined or a collected binding.  PartsAreOwn
\* of the tree alone is not kept: what is inserted comes from anywhere.
Ownership ==
  /\ \A p \in Slots : \A q \in Slots :
       p # q /\ StructAt(p).sub = StructAt(q).sub =>
         StructAt(p).id \in joined /\ StructAt(q).id \in joined
  /\ \A p \in Slots :
       heap[StructAt(p).sub].live \/ StructAt(p).id \in joined \cup collected

IInv == TypeOK /\ SubsExist /\ Ownership

-----------------------------------------------------------------------------
(***************************************************************************)
(* Slots                                                                   *)
(***************************************************************************)
LEMMA SlotIs ==
  ASSUME TypeOK, NEW p
  PROVE  p \in Slots <=> /\ p \in Pointer
                         /\ \/ p.in = "tree" /\ p.k \in 1 .. Len(tree)
                            \/ p.in = "made" /\ p.k \in 1 .. Len(made)
  BY DEF TypeOK, Slots, Valid, Pointer

LEMMA StructType ==
  ASSUME TypeOK, NEW p \in Slots
  PROVE  StructAt(p) \in Struct /\ StructAt(p).sub \in Nat /\ StructAt(p).id \in Nat
<1>1. \/ p.in = "tree" /\ p.k \in 1 .. Len(tree)
      \/ p.in = "made" /\ p.k \in 1 .. Len(made)
  BY SlotIs
<1>2. StructAt(p) \in Struct
  BY <1>1 DEF TypeOK, StructAt
<1> QED
  BY <1>2 DEF Struct

\* What a variable holds is a slot, if a struct is there.
LEMMA HeldSlot ==
  ASSUME TypeOK, NEW x \in Names, Valid(w[x])
  PROVE  w[x] \in Slots
  BY DEF TypeOK, Slots

LEMMA ArrayAt ==
  ASSUME IInv, NEW p \in Slots
  PROVE  /\ StructAt(p).sub \in 1 .. Len(heap)
         /\ heap[StructAt(p).sub] \in Array
  BY DEF IInv, TypeOK, SubsExist

\* How the structs of a step come from those before it: the structs outside
\* New come, each from another, from structs that were there; their arrays
\* live on or they are excused; and those in New are what Ownership demands.
Carries(New, f) ==
  /\ New \in SUBSET Slots' /\ f \in [Slots' \ New -> Slots]
  /\ \A q \in Slots' \ New : StructAt(q)' = StructAt(f[q])
  /\ \A q \in Slots' \ New : \A r \in Slots' \ New : q # r => f[q] # f[r]
  /\ DOMAIN heap \subseteq DOMAIN heap'
  /\ joined \subseteq joined' /\ collected \subseteq collected'
  /\ \A q \in Slots' \ New :
       \/ heap'[StructAt(f[q]).sub].live = heap[StructAt(f[q]).sub].live
       \/ StructAt(f[q]).id \in joined' \cup collected'
  /\ \A q \in New :
       /\ StructAt(q)'.sub \in DOMAIN heap'
       /\ heap'[StructAt(q)'.sub].live \/ StructAt(q)'.id \in joined' \cup collected'
       /\ \A r \in Slots' :
            r # q /\ StructAt(r)'.sub = StructAt(q)'.sub =>
              StructAt(q)'.id \in joined' /\ StructAt(r)'.id \in joined'

\* Ownership is carried over such a step.
LEMMA Transfer ==
  ASSUME IInv, TypeOK', NEW New, NEW f, Carries(New, f)
  PROVE  SubsExist' /\ Ownership'
<1>1. \A q \in Slots' \ New : f[q] \in Slots
  BY DEF Carries
<1>2. SubsExist'
  BY <1>1 DEF Carries, IInv, SubsExist
<1>3. ASSUME NEW q \in Slots'
      PROVE  heap'[StructAt(q)'.sub].live \/ StructAt(q)'.id \in joined' \cup collected'
  BY <1>1 DEF Carries, IInv, Ownership
<1>4. ASSUME NEW q \in Slots', NEW r \in Slots', q # r,
             StructAt(q)'.sub = StructAt(r)'.sub
      PROVE  StructAt(q)'.id \in joined' /\ StructAt(r)'.id \in joined'
  <2>1. CASE q \in New \/ r \in New
    BY <1>4, <2>1 DEF Carries
  <2>2. CASE q \notin New /\ r \notin New
    <3>1. f[q] # f[r] /\ f[q] \in Slots /\ f[r] \in Slots
      BY <1>1, <1>4, <2>2 DEF Carries
    <3>2. StructAt(f[q]).sub = StructAt(f[r]).sub
      BY <1>4, <2>2 DEF Carries
    <3>3. StructAt(f[q]).id \in joined /\ StructAt(f[r]).id \in joined
      BY <3>1, <3>2 DEF IInv, Ownership
    <3> QED
      BY <2>2, <3>3 DEF Carries
  <2> QED
    BY <2>1, <2>2
<1> QED
  BY <1>2, <1>3, <1>4 DEF Ownership

\* A step that leaves the structs, and which arrays live, alone.
LEMMA StructsStay ==
  ASSUME IInv, TypeOK', UNCHANGED <<tree, made, joined, collected>>,
         DOMAIN heap \subseteq DOMAIN heap',
         \A k \in DOMAIN heap : heap'[k].live = heap[k].live
  PROVE  SubsExist' /\ Ownership'
<1>1. Slots' = Slots /\ \A p \in Slots : StructAt(p)' = StructAt(p)
  BY DEF Slots, Valid, StructAt
<1> QED
  BY <1>1 DEF IInv, SubsExist, Ownership

-----------------------------------------------------------------------------
(***************************************************************************)
(* Types                                                                   *)
(***************************************************************************)
LEMMA ReturnsType ==
  ASSUME TypeOK, calls < MaxCalls, NEW op, NEW x, NEW key, NEW val,
         NEW out \in {"ok", "error"}, Returns(op, x, key, val, out)
  PROVE  call'.out \in {"ok", "error"} /\ calls' \in 0 .. MaxCalls
  BY MaxCallsAssumption DEF Returns, TypeOK

LEMMA EndsType ==
  ASSUME IInv, NEW how \in {"undefined", "exited"}, calls < MaxCalls, Ends(how)
  PROVE  IInv'
<1>1. /\ pc' = how /\ call'.out = "ok" /\ calls' = calls + 1
      /\ UNCHANGED <<heap, tree, made, w, garbage, edition>>
  BY DEF Ends, NoCall, memory, script, history
<1>3. calls' \in 0 .. MaxCalls
  BY <1>1, MaxCallsAssumption DEF IInv, TypeOK
<1>4. TypeOK'
  BY <1>1, <1>3 DEF IInv, TypeOK
<1>2. UNCHANGED <<heap, tree, made, joined, collected>>
  BY DEF Ends, memory, history
<1> QED
  BY <1>2, <1>4, StructsStay DEF IInv

\* Nothing in memory changes.
LEMMA RefusesKeeps ==
  ASSUME IInv, calls < MaxCalls, NEW op, NEW x, NEW key, NEW val,
         NEW out \in {"ok", "error"}, Refuses(x, op, key, val, out)
  PROVE  IInv'
<1>1. call'.out \in {"ok", "error"} /\ calls' \in 0 .. MaxCalls
  BY ReturnsType DEF Refuses, IInv
<1>2. UNCHANGED <<heap, tree, made, w, garbage, edition, joined, collected, pc>>
  BY DEF Refuses, memory, script, history
<1>3. TypeOK'
  BY <1>1, <1>2 DEF IInv, TypeOK
<1> QED
  BY <1>2, <1>3, StructsStay DEF IInv

LEMMA HoldType ==
  ASSUME TypeOK, NEW x \in Names, NEW p \in Pointer, NEW id, Hold(x, p, id)
  PROVE  w' \in [Names -> Pointer] /\ garbage' \subseteq Pointer \ {Nowhere}
  BY DEF Hold, TypeOK

\* An array is written, and stays live if it was.
LEMMA HeapWritten ==
  ASSUME TypeOK, NEW k \in 1 .. Len(heap), NEW a \in Array, a.live = heap[k].live,
         heap' = [heap EXCEPT ![k] = a]
  PROVE  /\ heap' \in Seq(Array)
         /\ DOMAIN heap' = DOMAIN heap
         /\ \A j \in DOMAIN heap : heap'[j].live = heap[j].live
  BY DEF TypeOK

LEMMA WritesKeeps ==
  ASSUME IInv, NEW x \in Names, Valid(w[x]), calls < MaxCalls,
         NEW op, NEW key, NEW val,
         NEW a \in Array, a.live = heap[Sub(x)].live, Writes(x, op, key, val, a)
  PROVE  IInv'
<1>1. Sub(x) \in 1 .. Len(heap)
  BY HeldSlot, ArrayAt DEF Sub, IInv
<1>2. heap' = [heap EXCEPT ![Sub(x)] = a]
  BY DEF Writes
<1>3. /\ heap' \in Seq(Array) /\ DOMAIN heap' = DOMAIN heap
      /\ \A j \in DOMAIN heap : heap'[j].live = heap[j].live
  BY <1>1, <1>2, HeapWritten DEF IInv
<1>4. call'.out \in {"ok", "error"} /\ calls' \in 0 .. MaxCalls
  BY ReturnsType DEF Writes, IInv
<1>5. UNCHANGED <<tree, made, w, garbage, edition, joined, collected, pc>>
  BY DEF Writes, script, history
<1>6. TypeOK'
  BY <1>3, <1>4, <1>5 DEF IInv, TypeOK
<1> QED
  BY <1>3, <1>5, <1>6, StructsStay DEF IInv

\* An array is freed.
LEMMA HeapFreed ==
  ASSUME TypeOK, NEW k \in 1 .. Len(heap), heap' = [heap EXCEPT ![k].live = FALSE]
  PROVE  /\ heap' \in Seq(Array)
         /\ DOMAIN heap' = DOMAIN heap
         /\ ~heap'[k].live
         /\ \A j \in DOMAIN heap : j # k => heap'[j] = heap[j]
<1>1. heap[k] \in Array
  BY DEF TypeOK
<1>2. [heap[k] EXCEPT !.live = FALSE] \in Array
  BY <1>1 DEF Array
<1>3. heap' = [heap EXCEPT ![k] = [heap[k] EXCEPT !.live = FALSE]]
  OBVIOUS
<1> QED
  BY <1>1, <1>2, <1>3 DEF TypeOK

\* An array is added.
LEMMA HeapGrown ==
  ASSUME TypeOK, NEW a \in Array, heap' = Append(heap, a)
  PROVE  /\ heap' \in Seq(Array)
         /\ Len(heap') = Len(heap) + 1
         /\ heap'[Len(heap) + 1] = a
         /\ \A j \in 1 .. Len(heap) : heap'[j] = heap[j]
  BY DEF TypeOK
-----------------------------------------------------------------------------
(***************************************************************************)
(* Wrappers come and go.                                                   *)
(***************************************************************************)
LEMMA TakeKeeps ==
  ASSUME IInv, NEW x \in Names, NEW k \in DOMAIN tree, Take(x, k)
  PROVE  IInv'
<1>1. [in |-> "tree", k |-> k] \in Pointer
  BY DEF IInv, TypeOK, Pointer
<1>2. w' \in [Names -> Pointer] /\ garbage' \subseteq Pointer \ {Nowhere}
  BY <1>1, HoldType DEF Take, IInv
<1>3. call'.out \in {"ok", "error"} /\ calls' \in 0 .. MaxCalls
  BY ReturnsType DEF Take, CanCall, Done, IInv
<1>4. UNCHANGED <<heap, tree, made, edition, joined, collected, pc>>
  BY DEF Take, memory, history
<1>5. TypeOK'
  BY <1>2, <1>3, <1>4 DEF IInv, TypeOK
<1> QED
  BY <1>4, <1>5, StructsStay DEF IInv

LEMMA DropKeeps ==
  ASSUME IInv, NEW x \in Names, Drop(x)
  PROVE  IInv'
<1>1. Nowhere \in Pointer
  BY DEF Nowhere, Pointer
<1>2. w' \in [Names -> Pointer] /\ garbage' \subseteq Pointer \ {Nowhere}
  BY <1>1, HoldType DEF Drop, IInv
<1>3. call'.out \in {"ok", "error"} /\ calls' \in 0 .. MaxCalls
  BY ReturnsType DEF Drop, Holds, CanCall, Done, IInv
<1>4. UNCHANGED <<heap, tree, made, edition, joined, collected, pc>>
  BY DEF Drop, memory, history
<1>5. TypeOK'
  BY <1>2, <1>3, <1>4 DEF IInv, TypeOK
<1> QED
  BY <1>4, <1>5, StructsStay DEF IInv

LEMMA NewIdType == ASSUME TypeOK PROVE NewId \in Nat
  BY MaxCallsAssumption DEF TypeOK, NewId

LEMMA MakeKeeps ==
  ASSUME IInv, NEW x \in Names, NEW c \in MadeFrom, Make(x, c)
  PROVE  IInv'
<1>a. PICK a : a = [live |-> TRUE, key |-> c.key, val |-> c.val]
  OBVIOUS
<1>s. PICK s : s = [id |-> NewId, sub |-> Len(heap) + 1]
  OBVIOUS
<1>n. PICK new : new = [in |-> "made", k |-> Len(made) + 1]
  OBVIOUS
<1>1. a \in Array
  BY <1>a, ParsedAssumption DEF Contents, Array, Content
<1>2. s \in Struct /\ new \in Pointer
  BY <1>s, <1>n, NewIdType DEF IInv, TypeOK, Struct, Pointer
<1>3. heap' = Append(heap, a) /\ made' = Append(made, s)
      /\ UNCHANGED <<tree, edition, joined, collected, pc>>
  BY <1>a, <1>s DEF Make, history
<1>4. /\ heap' \in Seq(Array) /\ Len(heap') = Len(heap) + 1
      /\ heap'[Len(heap) + 1] = a
      /\ \A j \in 1 .. Len(heap) : heap'[j] = heap[j]
  BY <1>1, <1>3, HeapGrown DEF IInv
<1>5. /\ made' \in Seq(Struct) /\ Len(made') = Len(made) + 1
      /\ made'[Len(made) + 1] = s
      /\ \A j \in 1 .. Len(made) : made'[j] = made[j]
  BY <1>2, <1>3 DEF IInv, TypeOK
<1>6. w' \in [Names -> Pointer] /\ garbage' \subseteq Pointer \ {Nowhere}
  BY <1>2, <1>n, HoldType DEF Make, IInv
<1>7. call'.out \in {"ok", "error"} /\ calls' \in 0 .. MaxCalls
  BY ReturnsType DEF Make, CanCall, Done, IInv
<1>8. TypeOK'
  BY <1>3, <1>4, <1>5, <1>6, <1>7 DEF IInv, TypeOK
<1>9. Len(heap) \in Nat /\ Len(made) \in Nat /\ Len(tree) \in Nat
  BY DEF IInv, TypeOK
<1>10. \A q : q \in Slots' <=> q \in Slots \/ q = new
  <2>1. \A q : q \in Slots <=> /\ q \in Pointer
                               /\ \/ q.in = "tree" /\ q.k \in 1 .. Len(tree)
                                  \/ q.in = "made" /\ q.k \in 1 .. Len(made)
    BY SlotIs DEF IInv
  <2>2. \A q : q \in Slots' <=> /\ q \in Pointer
                                /\ \/ q.in = "tree" /\ q.k \in 1 .. Len(tree)
                                   \/ q.in = "made" /\ q.k \in 1 .. Len(made) + 1
    BY <1>3, <1>5, <1>8 DEF TypeOK, Slots, Valid, Pointer
  <2>3. \A q \in Pointer : q.in = "made" /\ q.k = Len(made) + 1 => q = new
    BY <1>n DEF Pointer
  <2> QED
    BY <1>2, <1>9, <1>n, <2>1, <2>2, <2>3
<1>11. new \in Slots' /\ new \notin Slots /\ StructAt(new)' = s
  <2>1. new.in = "made" /\ new.k = Len(made) + 1
    BY <1>n
  <2>2. new \notin Slots
    BY <1>9, <2>1, SlotIs DEF IInv
  <2>3. StructAt(new)' = s
    BY <1>5, <2>1 DEF StructAt
  <2> QED
    BY <1>10, <2>2, <2>3
<1>12. \A q \in Slots : StructAt(q)' = StructAt(q) /\ StructAt(q).sub \in 1 .. Len(heap)
  BY <1>3, <1>5, SlotIs, ArrayAt DEF IInv, StructAt
<1>13. Slots' \ {new} = Slots
  BY <1>10, <1>11
<1>14. PICK f \in [Slots' \ {new} -> Slots] : \A q \in Slots' \ {new} : f[q] = q
  <2>1. [q \in Slots' \ {new} |-> q] \in [Slots' \ {new} -> Slots]
    BY <1>13
  <2> QED
    BY <2>1
<1>15. DOMAIN heap = 1 .. Len(heap) /\ DOMAIN heap' = 1 .. Len(heap) + 1
  BY <1>4 DEF IInv, TypeOK
<1>16. SubsExist' /\ Ownership'
  <2>1. \A q \in Slots' \ {new} :
          heap'[StructAt(f[q]).sub].live = heap[StructAt(f[q]).sub].live
    BY <1>4, <1>12, <1>13, <1>14
  <2>2. /\ StructAt(new)'.sub = Len(heap) + 1
        /\ heap'[Len(heap) + 1].live
    BY <1>4, <1>11, <1>a, <1>s
  <2>3. \A r \in Slots' : r # new => StructAt(r)'.sub # StructAt(new)'.sub
    BY <1>9, <1>12, <1>13, <2>2
  <2>4. {new} \in SUBSET Slots'
    BY <1>11
  <2>5. \A q \in Slots' \ {new} : StructAt(q)' = StructAt(f[q])
    BY <1>12, <1>13, <1>14
  <2>6. \A q \in Slots' \ {new} : \A r \in Slots' \ {new} : q # r => f[q] # f[r]
    BY <1>14
  <2>7. DOMAIN heap \subseteq DOMAIN heap' /\ Len(heap) + 1 \in DOMAIN heap'
    BY <1>9, <1>15
  <2>8. /\ StructAt(new)'.sub \in DOMAIN heap'
        /\ heap'[StructAt(new)'.sub].live
    BY <2>2, <2>7
  <2>9. joined \subseteq joined' /\ collected \subseteq collected'
    BY <1>3
  <2>10. \A q \in {new} :
           /\ StructAt(q)'.sub \in DOMAIN heap'
           /\ heap'[StructAt(q)'.sub].live \/ StructAt(q)'.id \in joined' \cup collected'
           /\ \A r \in Slots' :
                r # q /\ StructAt(r)'.sub = StructAt(q)'.sub =>
                  StructAt(q)'.id \in joined' /\ StructAt(r)'.id \in joined'
    BY <2>3, <2>8
  <2> QED
    <3>1. Carries({new}, f)
      BY <1>14, <2>1, <2>4, <2>5, <2>6, <2>7, <2>9, <2>10 DEF Carries
    <3> QED
      BY <1>8, <3>1, Transfer
<1> QED
  BY <1>8, <1>16 DEF IInv

-----------------------------------------------------------------------------
(***************************************************************************)
(* A struct is copied over another.                                        *)
(***************************************************************************)
LEMMA PutStructType ==
  ASSUME TypeOK, NEW p \in Slots, NEW sub \in Nat, PutStruct(p, sub)
  PROVE  /\ tree' \in Seq(Struct) /\ Len(tree') = Len(tree)
         /\ made' \in Seq(Struct) /\ Len(made') = Len(made)
         /\ \A q \in Slots : q # p => StructAt(q)' = StructAt(q)
         /\ StructAt(p)' = [StructAt(p) EXCEPT !.sub = sub]
<1>1. CASE p.in = "tree"
  <2>1. p.k \in 1 .. Len(tree) /\ tree[p.k] \in Struct
    BY <1>1, SlotIs DEF TypeOK
  <2>2. [tree[p.k] EXCEPT !.sub = sub] \in Struct
    BY <2>1 DEF Struct
  <2>3. tree' = [tree EXCEPT ![p.k] = [tree[p.k] EXCEPT !.sub = sub]] /\ made' = made
    BY <1>1 DEF PutStruct
  <2>4. tree' \in Seq(Struct) /\ Len(tree') = Len(tree) /\ made' \in Seq(Struct)
    BY <2>1, <2>2, <2>3 DEF TypeOK
  <2>5. \A q \in Slots : q.in = "tree" /\ q # p => q.k # p.k
    BY <1>1 DEF Slots, Pointer
  <2>6. ASSUME NEW q \in Slots, q # p PROVE StructAt(q)' = StructAt(q)
    <3>1. CASE q.in = "tree"
      <4>1. q.k \in 1 .. Len(tree) /\ q.k # p.k
        BY <2>5, <2>6, <3>1, SlotIs
      <4> QED
        BY <2>1, <2>3, <3>1, <4>1 DEF StructAt, TypeOK
    <3>2. CASE q.in # "tree"
      BY <2>3, <3>2 DEF StructAt
    <3> QED
      BY <3>1, <3>2
  <2>7. StructAt(p)' = [StructAt(p) EXCEPT !.sub = sub]
    BY <1>1, <2>1, <2>3 DEF StructAt, TypeOK
  <2> QED
    BY <2>3, <2>4, <2>6, <2>7
<1>2. CASE p.in # "tree"
  <2>1. p.in = "made" /\ p.k \in 1 .. Len(made) /\ made[p.k] \in Struct
    BY <1>2, SlotIs DEF TypeOK
  <2>2. [made[p.k] EXCEPT !.sub = sub] \in Struct
    BY <2>1 DEF Struct
  <2>3. made' = [made EXCEPT ![p.k] = [made[p.k] EXCEPT !.sub = sub]] /\ tree' = tree
    BY <2>1 DEF PutStruct
  <2>4. made' \in Seq(Struct) /\ Len(made') = Len(made) /\ tree' \in Seq(Struct)
    BY <2>1, <2>2, <2>3 DEF TypeOK
  <2>5. \A q \in Slots : q.in # "tree" /\ q # p => q.k # p.k
    BY <2>1, SlotIs DEF Pointer
  <2> QED
    BY <1>2, <2>1, <2>3, <2>4, <2>5, SlotIs DEF StructAt, TypeOK
<1> QED
  BY <1>1, <1>2

\* Whoever had the array that is let go, or has the one that is now shared,
\* was joined before or is joined now.
LEMMA JoinKeeps ==
  ASSUME IInv, TypeOK', NEW p \in Slots, NEW q \in Slots,
         PutStruct(p, StructAt(q).sub),
         joined' = joined \cup {StructAt(p).id, StructAt(q).id},
         UNCHANGED collected, DOMAIN heap' = DOMAIN heap,
         \A j \in DOMAIN heap : j # StructAt(p).sub => heap'[j] = heap[j]
  PROVE  SubsExist' /\ Ownership'
<1>1. StructAt(q).sub \in Nat /\ StructAt(p) \in Struct
  BY StructType DEF IInv
<1>2. /\ Len(tree') = Len(tree) /\ Len(made') = Len(made)
      /\ \A r \in Slots : r # p => StructAt(r)' = StructAt(r)
      /\ StructAt(p)' = [StructAt(p) EXCEPT !.sub = StructAt(q).sub]
  BY <1>1, PutStructType DEF IInv
<1>3. Slots' = Slots
  BY <1>2 DEF IInv, TypeOK, Slots, Valid
<1>4. StructAt(p)'.id = StructAt(p).id /\ StructAt(p)'.sub = StructAt(q).sub
  BY <1>1, <1>2 DEF Struct
<1>5. SubsExist'
  BY <1>2, <1>3, <1>4 DEF IInv, SubsExist
<1>6. ASSUME NEW r \in Slots
      PROVE  heap'[StructAt(r)'.sub].live \/ StructAt(r)'.id \in joined' \cup collected'
  <2>1. CASE r = p
    BY <1>4, <2>1
  <2>2. CASE r # p /\ StructAt(r).sub = StructAt(p).sub
    BY <1>2, <2>2 DEF IInv, Ownership
  <2>3. CASE r # p /\ StructAt(r).sub # StructAt(p).sub
    <3>1. heap'[StructAt(r).sub] = heap[StructAt(r).sub]
      BY <2>3 DEF IInv, SubsExist
    <3> QED
      BY <1>2, <2>3, <3>1 DEF IInv, Ownership
  <2> QED
    BY <2>1, <2>2, <2>3
<1>7. ASSUME NEW r \in Slots, r # p, StructAt(r).sub = StructAt(q).sub
      PROVE  StructAt(r).id \in joined'
  BY <1>7 DEF IInv, Ownership
<1>8. ASSUME NEW r \in Slots, NEW t \in Slots, r # t, StructAt(r)'.sub = StructAt(t)'.sub
      PROVE  StructAt(r)'.id \in joined' /\ StructAt(t)'.id \in joined'
  <2>1. CASE r = p
    BY <1>2, <1>4, <1>7, <1>8, <2>1
  <2>2. CASE t = p
    BY <1>2, <1>4, <1>7, <1>8, <2>2
  <2>3. CASE r # p /\ t # p
    BY <1>2, <1>8, <2>3 DEF IInv, Ownership
  <2> QED
    BY <2>1, <2>2, <2>3
<1> QED
  BY <1>3, <1>5, <1>6, <1>8 DEF Ownership

LEMMA AssignKeeps ==
  ASSUME IInv, NEW x \in Names, NEW y \in Names, AssignBinding(x, y)
  PROVE  IInv'
<1>1. Valid(w[x]) /\ calls < MaxCalls
  BY DEF AssignBinding, Edits, Holds, CanCall, Live
<1>2. CASE ~Valid(w[y])
  BY <1>1, <1>2, EndsType DEF AssignBinding
<1>3. CASE Valid(w[y])
  <2>1. /\ heap' = [heap EXCEPT ![Sub(x)].live = FALSE]
        /\ PutStruct(w[x], StructAt(w[y]).sub)
        /\ joined' = joined \cup {StructAt(w[x]).id, StructAt(w[y]).id}
        /\ Done("assign", x)
        /\ UNCHANGED <<w, garbage, edition, collected, pc>>
    BY <1>3 DEF AssignBinding, script
  <2>2. w[x] \in Slots /\ w[y] \in Slots
    BY <1>1, <1>3, HeldSlot DEF IInv
  <2>3. Sub(x) \in 1 .. Len(heap) /\ Sub(x) = StructAt(w[x]).sub
        /\ StructAt(w[y]).sub \in Nat
    BY <2>2, ArrayAt, StructType DEF Sub, IInv
  <2>4. /\ heap' \in Seq(Array) /\ DOMAIN heap' = DOMAIN heap
        /\ \A j \in DOMAIN heap : j # Sub(x) => heap'[j] = heap[j]
    BY <2>1, <2>3, HeapFreed DEF IInv
  <2>5. tree' \in Seq(Struct) /\ made' \in Seq(Struct)
    BY <2>1, <2>2, <2>3, PutStructType DEF IInv
  <2>6. call'.out \in {"ok", "error"} /\ calls' \in 0 .. MaxCalls
    BY <1>1, <2>1, ReturnsType DEF Done, IInv
  <2>7. TypeOK'
    BY <2>1, <2>4, <2>5, <2>6 DEF IInv, TypeOK
  <2>8. SubsExist' /\ Ownership'
    BY <2>1, <2>2, <2>3, <2>4, <2>7, JoinKeeps
  <2> QED
    BY <2>7, <2>8 DEF IInv
<1> QED
  BY <1>2, <1>3

LEMMA CopyKeeps ==
  ASSUME IInv, NEW x \in Names, NEW y \in Names, CopyTo(x, y)
  PROVE  IInv'
<1>1. Valid(w[x]) /\ calls < MaxCalls
  BY DEF CopyTo, Edits, Holds, CanCall, Live
<1>2. CASE ~Valid(w[y])
  BY <1>1, <1>2, EndsType DEF CopyTo
<1>3. CASE Valid(w[y])
  <2>1. /\ \/ PutStruct(w[y], StructAt(w[x]).sub)
           \/ PutStruct(w[x], StructAt(w[y]).sub)
        /\ joined' = joined \cup {StructAt(w[x]).id, StructAt(w[y]).id}
        /\ Done("copy", x)
        /\ UNCHANGED <<heap, w, garbage, edition, collected, pc>>
    BY <1>3 DEF CopyTo, script, Sub
  <2>2. w[x] \in Slots /\ w[y] \in Slots
    BY <1>1, <1>3, HeldSlot DEF IInv
  <2>3. StructAt(w[x]).sub \in Nat /\ StructAt(w[y]).sub \in Nat
    BY <2>2, StructType DEF IInv
  <2>4. tree' \in Seq(Struct) /\ made' \in Seq(Struct)
    BY <2>1, <2>2, <2>3, PutStructType DEF IInv
  <2>5. call'.out \in {"ok", "error"} /\ calls' \in 0 .. MaxCalls
    BY <1>1, <2>1, ReturnsType DEF Done, IInv
  <2>6. TypeOK'
    BY <2>1, <2>4, <2>5 DEF IInv, TypeOK
  <2>7. joined' = joined \cup {StructAt(w[y]).id, StructAt(w[x]).id}
    BY <2>1
  <2>8. CASE PutStruct(w[y], StructAt(w[x]).sub)
    BY <2>1, <2>2, <2>6, <2>7, <2>8, JoinKeeps DEF IInv
  <2>9. CASE PutStruct(w[x], StructAt(w[y]).sub)
    BY <2>1, <2>2, <2>6, <2>9, JoinKeeps DEF IInv
  <2> QED
    BY <2>1, <2>8, <2>9
<1> QED
  BY <1>2, <1>3

-----------------------------------------------------------------------------
(***************************************************************************)
(* Edits of a key or a value                                               *)
(***************************************************************************)
LEMMA EditedArray ==
  ASSUME IInv, NEW x \in Names, Edits(x)
  PROVE  /\ Valid(w[x]) /\ calls < MaxCalls /\ w[x] # Nowhere
         /\ Sub(x) \in 1 .. Len(heap)
         /\ heap[Sub(x)] \in Array /\ heap[Sub(x)].val \in Content
<1>1. Valid(w[x]) /\ calls < MaxCalls /\ w[x] # Nowhere
  BY DEF Edits, Holds, CanCall, Live
<1>2. Sub(x) \in 1 .. Len(heap) /\ heap[Sub(x)] \in Array
  BY <1>1, HeldSlot, ArrayAt DEF Sub, IInv
<1> QED
  BY <1>1, <1>2 DEF Array

LEMMA ArrayWithKey ==
  ASSUME NEW a \in Array, NEW key \in Texts
  PROVE  [a EXCEPT !.key = key] \in Array /\ [a EXCEPT !.key = key].live = a.live
  BY DEF Array

LEMMA ArrayWithVal ==
  ASSUME NEW a \in Array, NEW c \in Content
  PROVE  [a EXCEPT !.val = c] \in Array /\ [a EXCEPT !.val = c].live = a.live
  BY DEF Array

LEMMA SetKeyKeeps ==
  ASSUME IInv, NEW x \in Names, NEW key \in Texts, SetKey(x, key)
  PROVE  IInv'
  BY EditedArray, ArrayWithKey, WritesKeeps DEF SetKey

LEMMA ConvertedType ==
  ASSUME NEW items \in Seq(Atom)
  PROVE  Converted(items) \in Seq(Atom)
<1>1. \A a \in Atom : [a EXCEPT !.tid = "blank"] \in Atom
  BY DEF Atom
<1> QED
  BY <1>1 DEF Converted

\* Elements are atoms.
LEMMA ElementsAreAtoms ==
  ASSUME NEW items \in Seq(Element)
  PROVE  items \in Seq(Atom)
<1>1. \A i \in 1 .. Len(items) : items[i] \in Atom
  BY DEF Element
<1> QED
  BY <1>1

\* What a list assignment leaves is a content.
LEMMA ReplacedType ==
  ASSUME NEW old, NEW items \in Seq(Atom)
  PROVE  Replaced(old, items) \in Content
<1>1. \A tid \in {"list", "fronted", "ragged", "emptied"}, s \in Seq(Atom) :
        [tid |-> tid, items |-> s] \in Content
  BY DEF Content
<1>2. items # << >> => Front(items) \in Seq(Atom)
  BY DEF Front
<1>3. << >> \in Seq(Atom)
  OBVIOUS
<1>4. CASE items = << >>
  BY <1>1, <1>3, <1>4 DEF Replaced
<1>5. CASE items # << >>
  BY <1>1, <1>2, <1>5 DEF Replaced
<1> QED
  BY <1>4, <1>5

LEMMA NewContentType ==
  ASSUME NEW old \in Content, NEW v \in NewValue
  PROVE  NewContent(old, v) \in Content
<1>1. v.items \in Seq(Atom)
  BY ElementsAreAtoms DEF NewValue
<1>2. Converted(v.items) \in Seq(Atom) /\ Replaced(old, v.items) \in Content
  BY <1>1, ConvertedType, ReplacedType
<1>3. \A tid \in {"atom", "list", "hollow"}, s \in Seq(Atom) :
        [tid |-> tid, items |-> s] \in Content
  BY DEF Content
<1>4. << >> \in Seq(Atom)
  OBVIOUS
<1> QED
  BY <1>1, <1>2, <1>3, <1>4 DEF NewContent

LEMMA SetValueKeeps ==
  ASSUME IInv, NEW x \in Names, NEW v \in NewValues, SetValue(x, v)
  PROVE  IInv'
<1>1. /\ Edits(x) /\ v \in NewValue
  BY InputAssumption DEF SetValue
<1>2. /\ Valid(w[x]) /\ calls < MaxCalls /\ w[x] # Nowhere
      /\ Sub(x) \in 1 .. Len(heap)
      /\ heap[Sub(x)] \in Array /\ heap[Sub(x)].val \in Content
  BY <1>1, EditedArray
<1> DEFINE c == NewContent(heap[Sub(x)].val, v)
           a == [heap[Sub(x)] EXCEPT !.val = c]
<1>3. CASE /\ heap' = [heap EXCEPT ![Sub(x)].val = c]
           /\ garbage' = garbage \cup (IF ReturnsBinding(v) THEN {w[x]} ELSE {})
           /\ Returns("value", x, "", v, "ok")
           /\ UNCHANGED <<tree, made, w, taken, history, pc>>
  <2>1. c \in Content
    BY <1>1, <1>2, NewContentType
  <2>2. a \in Array /\ a.live = heap[Sub(x)].live
    BY <1>2, <2>1, ArrayWithVal
  <2>3. heap' = [heap EXCEPT ![Sub(x)] = a]
    BY <1>3
  <2> HIDE DEF a
  <2>4. /\ heap' \in Seq(Array) /\ DOMAIN heap' = DOMAIN heap
        /\ \A j \in DOMAIN heap : heap'[j].live = heap[j].live
    BY <1>2, <2>2, <2>3, HeapWritten DEF IInv
  <2>5. call'.out \in {"ok", "error"} /\ calls' \in 0 .. MaxCalls
    BY <1>2, <1>3, ReturnsType DEF IInv
  <2>6. UNCHANGED <<tree, made, w, edition, joined, collected, pc>>
    BY <1>3 DEF history
  <2>7. garbage' \subseteq Pointer \ {Nowhere}
    BY <1>2, <1>3 DEF IInv, TypeOK
  <2>8. TypeOK'
    BY <2>4, <2>5, <2>6, <2>7 DEF IInv, TypeOK
  <2> QED
    BY <2>4, <2>6, <2>8, StructsStay DEF IInv
<1>4. CASE Refuses(x, "value", "", v, "error")
  BY <1>2, <1>4, RefusesKeeps
<1>5. CASE Ends("undefined")
  BY <1>2, <1>5, EndsType
<1> QED
  BY <1>3, <1>4, <1>5 DEF SetValue

LEMMA AssignPairKeeps ==
  ASSUME IInv, NEW x \in Names, NEW p \in NewPairs, AssignPair(x, p)
  PROVE  IInv'
<1>1. Edits(x) /\ p \in NewPair
  BY InputAssumption DEF AssignPair
<1>2. /\ Valid(w[x]) /\ calls < MaxCalls
      /\ heap[Sub(x)] \in Array /\ heap[Sub(x)].val \in Content
  BY <1>1, EditedArray
<1> DEFINE old == heap[Sub(x)].val
           new == [heap[Sub(x)] EXCEPT !.key = p.key]
<1>3. new \in Array /\ new.live = heap[Sub(x)].live
  BY <1>1, <1>2, ArrayWithKey DEF NewPair
<1>4. \A c \in Content : Writes(x, "pair", p.key, p.val, [new EXCEPT !.val = c]) => IInv'
  <2> TAKE c \in Content
  <2>1. /\ [new EXCEPT !.val = c] \in Array
        /\ [new EXCEPT !.val = c].live = heap[Sub(x)].live
    BY <1>3, ArrayWithVal
  <2> QED
    BY <1>2, <2>1, WritesKeeps
<1>5. /\ old \in Content
      /\ Replaced(old, p.val.items) \in Content
      /\ [tid |-> "freed", items |-> << >>] \in Content
  <2>1. p.val.items \in Seq(Atom)
    BY <1>1, ElementsAreAtoms DEF NewPair
  <2>2. Replaced(old, p.val.items) \in Content
    BY <2>1, ReplacedType
  <2>3. [tid |-> "freed", items |-> << >>] \in Content
    BY DEF Content
  <2> QED
    BY <1>2, <2>2, <2>3
<1>6. Ends("undefined") \/ Ends("exited") => IInv'
  BY <1>2, EndsType
<1> QED
  BY <1>4, <1>5, <1>6 DEF AssignPair

LEMMA EditKeeps ==
  ASSUME IInv, Edit
  PROVE  IInv'
<1>1. PICK x \in Names :
        \/ \E key \in Texts : SetKey(x, key)
        \/ RefuseKey(x)
        \/ \E v \in NewValues : SetValue(x, v)
        \/ RefuseDonor(x)
        \/ \E y \in Names : AssignBinding(x, y)
        \/ \E p \in NewPairs : AssignPair(x, p)
        \/ \E y \in Names : CopyTo(x, y)
        \/ CopyOne(x)
        \/ EditDead(x)
  BY DEF Edit
<1>2. CASE RefuseKey(x)
  BY <1>2, EditedArray, RefusesKeeps, EndsType DEF RefuseKey
<1>3. CASE RefuseDonor(x)
  BY <1>3, EditedArray, RefusesKeeps, EndsType DEF RefuseDonor
<1>4. CASE CopyOne(x)
  BY <1>4, EditedArray, EndsType DEF CopyOne
<1>5. CASE EditDead(x)
  BY <1>5, EndsType DEF EditDead, Holds, CanCall
<1> QED
  BY <1>1, <1>2, <1>3, <1>4, <1>5, SetKeyKeeps, SetValueKeeps, AssignKeeps,
     AssignPairKeeps, CopyKeeps

-----------------------------------------------------------------------------
(***************************************************************************)
(* Structs move: insertion and removal.                                    *)
(***************************************************************************)
LEMMA LostType ==
  ASSUME TypeOK, Stays \/ Moves
  PROVE  w' \in [Names -> Pointer] /\ garbage' \subseteq Pointer \ {Nowhere}
<1>1. \A p \in Pointer : Lost(p) \in Pointer /\ (p # Nowhere => Lost(p) # Nowhere)
  BY DEF Lost, Pointer, Nowhere
<1> QED
  BY <1>1 DEF TypeOK, Stays, Moves

LEMMA InsertTypes ==
  ASSUME IInv, NEW x \in Names, NEW k \in 0 .. Len(tree), InsertBinding(x, k)
  PROVE  /\ TypeOK'
         /\ Len(tree') = Len(tree) + 1
         /\ \A j \in 1 .. k : tree'[j] = tree[j]
         /\ \A j \in k + 2 .. Len(tree) + 1 : tree'[j] = tree[j - 1]
         /\ tree'[k + 1].id = NewId
         /\ \A j \in DOMAIN heap : j \in DOMAIN heap' /\ heap'[j] = heap[j]
         /\ \/ /\ tree'[k + 1].sub = Len(heap) + 1
               /\ Len(heap) + 1 \in DOMAIN heap' /\ heap'[Len(heap) + 1] = heap[Sub(x)]
               /\ joined' = joined
            \/ /\ tree'[k + 1].sub = Sub(x)
               /\ joined' = joined \cup {NewId, StructAt(w[x]).id}
         /\ collected' = collected /\ made' = made
<1>1. Edits(x)
  BY DEF InsertBinding
<1>2. /\ Valid(w[x]) /\ calls < MaxCalls
      /\ Sub(x) \in 1 .. Len(heap) /\ heap[Sub(x)] \in Array
  BY <1>1, EditedArray
<1>3. NewId \in Nat /\ k + 1 \in 1 .. Len(tree) + 1 /\ Len(heap) \in Nat
      /\ Len(tree) \in Nat
  BY NewIdType DEF IInv, TypeOK
<1>4. PICK s \in Struct : /\ s.id = NewId
                          /\ tree' = InsertAt(tree, k + 1, s)
                          /\ \/ /\ s.sub = Len(heap) + 1
                                /\ heap' = Append(heap, heap[Sub(x)])
                                /\ joined' = joined
                             \/ /\ s.sub = Sub(x)
                                /\ heap' = heap
                                /\ joined' = joined \cup {NewId, StructAt(w[x]).id}
  <2>1. \A sub \in Nat : [id |-> NewId, sub |-> sub] \in Struct
    BY <1>3 DEF Struct
  <2>2. Len(heap) + 1 \in Nat /\ Sub(x) \in Nat
    BY <1>2, <1>3
  <2>3. CASE /\ tree' = InsertAt(tree, k + 1, [id |-> NewId, sub |-> Len(heap) + 1])
             /\ heap' = Append(heap, heap[Sub(x)])
             /\ UNCHANGED joined
    BY <2>1, <2>2, <2>3
  <2>4. CASE /\ tree' = InsertAt(tree, k + 1, [id |-> NewId, sub |-> Sub(x)])
             /\ UNCHANGED heap
             /\ joined' = joined \cup {NewId, StructAt(w[x]).id}
    BY <2>1, <2>2, <2>4
  <2> QED
    BY <2>3, <2>4 DEF InsertBinding
<1>5. /\ tree' \in Seq(Struct) /\ Len(tree') = Len(tree) + 1
      /\ \A j \in 1 .. Len(tree) + 1 :
           tree'[j] = IF j < k + 1 THEN tree[j] ELSE IF j = k + 1 THEN s ELSE tree[j - 1]
  <2>1. tree \in Seq(Struct) /\ k + 1 \in 1 .. Len(tree) + 1
    BY <1>3 DEF IInv, TypeOK
  <2>2. s \in Struct /\ tree' = InsertAt(tree, k + 1, s)
    BY <1>4
  <2>3. PICK i : i = k + 1
    OBVIOUS
  <2>4. i \in 1 .. Len(tree) + 1 /\ tree' = InsertAt(tree, i, s)
    BY <2>1, <2>2, <2>3
  <2>5. /\ InsertAt(tree, i, s) \in Seq(Struct)
        /\ Len(InsertAt(tree, i, s)) = Len(tree) + 1
        /\ \A j \in 1 .. Len(tree) + 1 :
             InsertAt(tree, i, s)[j] = IF j < i THEN tree[j]
                                       ELSE IF j = i THEN s ELSE tree[j - 1]
    <3>1. tree \in Seq(Struct) /\ i \in 1 .. Len(tree) + 1 /\ s \in Struct
      BY <2>1, <2>2, <2>4
    <3> QED
      BY <3>1, InsertAtType
  <2> QED
    BY <2>3, <2>4, <2>5
<1>6. tree'[k + 1] = s
  BY <1>3, <1>5
<1>7. /\ \A j \in 1 .. k : tree'[j] = tree[j]
      /\ \A j \in k + 2 .. Len(tree) + 1 : tree'[j] = tree[j - 1]
  BY <1>3, <1>5
<1>8. /\ heap' \in Seq(Array)
      /\ \A j \in DOMAIN heap : j \in DOMAIN heap' /\ heap'[j] = heap[j]
      /\ \/ s.sub = Sub(x) /\ joined' = joined \cup {NewId, StructAt(w[x]).id}
         \/ /\ s.sub = Len(heap) + 1 /\ joined' = joined
            /\ Len(heap) + 1 \in DOMAIN heap' /\ heap'[Len(heap) + 1] = heap[Sub(x)]
  <2>1. CASE heap' = heap /\ s.sub = Sub(x) /\ joined' = joined \cup {NewId, StructAt(w[x]).id}
    BY <2>1 DEF IInv, TypeOK
  <2>2. CASE heap' = Append(heap, heap[Sub(x)]) /\ s.sub = Len(heap) + 1 /\ joined' = joined
    <3>1. /\ heap' \in Seq(Array) /\ Len(heap') = Len(heap) + 1
          /\ heap'[Len(heap) + 1] = heap[Sub(x)]
          /\ \A j \in 1 .. Len(heap) : heap'[j] = heap[j]
      BY <1>2, <2>2, HeapGrown DEF IInv
    <3> QED
      BY <1>3, <2>2, <3>1 DEF IInv, TypeOK
  <2> QED
    BY <1>4, <2>1, <2>2
<1>9. w' \in [Names -> Pointer] /\ garbage' \subseteq Pointer \ {Nowhere}
  BY LostType DEF InsertBinding, IInv
<1>10. call'.out \in {"ok", "error"} /\ calls' \in 0 .. MaxCalls
  BY <1>2, ReturnsType DEF InsertBinding, Done, IInv
<1>11. made' = made /\ collected' = collected /\ pc' = pc /\ edition' = edition + 1
  BY DEF InsertBinding
<1>12. TypeOK'
  BY <1>5, <1>8, <1>9, <1>10, <1>11 DEF IInv, TypeOK
<1> QED
  BY <1>5, <1>4, <1>6, <1>7, <1>8, <1>11, <1>12

LEMMA InsertKeeps ==
  ASSUME IInv, NEW x \in Names, NEW k \in 0 .. Len(tree), InsertBinding(x, k)
  PROVE  IInv'
<1>1. /\ TypeOK' /\ TypeOK
      /\ Len(tree') = Len(tree) + 1 /\ Len(tree) \in Nat /\ made' = made
  BY InsertTypes DEF IInv, TypeOK
<1>2. Edits(x)
  BY DEF InsertBinding
<1>3. Sub(x) = StructAt(w[x]).sub /\ heap[Sub(x)].live /\ w[x] \in Slots
      /\ Sub(x) \in DOMAIN heap
  BY <1>2, HeldSlot, ArrayAt DEF Sub, Edits, Live, IInv, TypeOK
<1>n. PICK new : new = [in |-> "tree", k |-> k + 1]
  OBVIOUS
<1>4. \A q : q \in Slots' <=> /\ q \in Pointer
                              /\ \/ q.in = "tree" /\ q.k \in 1 .. Len(tree) + 1
                                 \/ q.in = "made" /\ q.k \in 1 .. Len(made)
  BY <1>1 DEF TypeOK, Slots, Valid, Pointer
<1>5. new \in Slots' /\ new.in = "tree" /\ new.k = k + 1
  BY <1>n, <1>1, <1>4 DEF Pointer
<1>6. \A q \in Slots' : q # new /\ q.in = "tree" => q.k # k + 1
  BY <1>n, <1>4 DEF Pointer
<1> DEFINE from(q) == IF q.in = "tree" /\ q.k > k + 1 THEN [q EXCEPT !.k = q.k - 1] ELSE q
<1>7. ASSUME NEW q \in Slots' \ {new}
      PROVE  from(q) \in Slots /\ StructAt(q)' = StructAt(from(q))
  <2>1. CASE q.in # "tree"
    BY <1>1, <1>4, <2>1, SlotIs DEF StructAt
  <2>2. CASE q.in = "tree" /\ q.k < k + 1
    <3>1. q.k \in 1 .. k /\ from(q) = q /\ q \in Slots
      BY <1>1, <1>4, <2>2, SlotIs
    <3>2. tree'[q.k] = tree[q.k]
      BY <3>1, InsertTypes
    <3> QED
      BY <2>2, <3>1, <3>2 DEF StructAt
  <2>3. CASE q.in = "tree" /\ q.k > k + 1
    <3>1. q.k \in k + 2 .. Len(tree) + 1 /\ q \in Pointer
      BY <1>1, <1>4, <2>3
    <3>2. from(q) \in Pointer /\ from(q).in = "tree" /\ from(q).k = q.k - 1
      BY <2>3, <3>1 DEF Pointer
    <3>3. from(q) \in Slots
      <4>1. q.k - 1 \in 1 .. Len(tree)
        BY <1>1, <3>1
      <4> HIDE DEF from
      <4> QED
        BY <1>1, <3>2, <4>1, SlotIs
    <3>4. tree'[q.k] = tree[q.k - 1]
      BY <3>1, InsertTypes
    <3> QED
      BY <2>3, <3>2, <3>3, <3>4 DEF StructAt
  <2> QED
    BY <1>1, <1>4, <1>6, <2>1, <2>2, <2>3
<1>8. ASSUME NEW q \in Slots' \ {new}, NEW r \in Slots' \ {new}, q # r
      PROVE  from(q) # from(r)
  BY <1>1, <1>4, <1>6, <1>8 DEF Pointer
<1>9. PICK f \in [Slots' \ {new} -> Slots] : \A q \in Slots' \ {new} : f[q] = from(q)
  <2>1. [q \in Slots' \ {new} |-> from(q)] \in [Slots' \ {new} -> Slots]
    BY <1>7
  <2> QED
    BY <2>1
<1> HIDE DEF from
<1>10. /\ \A q \in Slots' \ {new} : StructAt(q)' = StructAt(f[q])
       /\ \A q \in Slots' \ {new} : \A r \in Slots' \ {new} : q # r => f[q] # f[r]
  BY <1>7, <1>8, <1>9
<1>11. /\ \A j \in DOMAIN heap : j \in DOMAIN heap' /\ heap'[j] = heap[j]
       /\ joined \subseteq joined' /\ collected \subseteq collected'
  BY InsertTypes
<1>12. \A q \in Slots' \ {new} :
         heap'[StructAt(f[q]).sub].live = heap[StructAt(f[q]).sub].live
  BY <1>9, <1>11, ArrayAt DEF IInv, TypeOK
<1>13. StructAt(new)' = tree'[k + 1]
  BY <1>5 DEF StructAt
<1>14. ASSUME NEW r \in Slots', r # new
       PROVE  StructAt(r)' = StructAt(f[r]) /\ f[r] \in Slots
  BY <1>9, <1>10, <1>14
<1>15. \A q \in {new} :
         /\ StructAt(q)'.sub \in DOMAIN heap'
         /\ heap'[StructAt(q)'.sub].live \/ StructAt(q)'.id \in joined' \cup collected'
         /\ \A r \in Slots' :
              r # q /\ StructAt(r)'.sub = StructAt(q)'.sub =>
                StructAt(q)'.id \in joined' /\ StructAt(r)'.id \in joined'
  <2>1. CASE /\ tree'[k + 1].sub = Len(heap) + 1
             /\ Len(heap) + 1 \in DOMAIN heap' /\ heap'[Len(heap) + 1] = heap[Sub(x)]
    <3>1. \A p \in Slots : StructAt(p).sub # Len(heap) + 1
      BY ArrayAt DEF IInv, TypeOK
    <3> QED
      BY <1>3, <1>13, <1>14, <2>1, <3>1
  <2>2. CASE /\ tree'[k + 1].sub = Sub(x) /\ tree'[k + 1].id = NewId
             /\ joined' = joined \cup {NewId, StructAt(w[x]).id}
    <3>1. ASSUME NEW p \in Slots, StructAt(p).sub = Sub(x)
          PROVE  StructAt(p).id \in joined'
      BY <1>3, <2>2, <3>1 DEF IInv, Ownership
    <3> QED
      BY <1>3, <1>11, <1>13, <1>14, <2>2, <3>1
  <2> QED
    BY <2>1, <2>2, InsertTypes
<1>16. {new} \in SUBSET Slots' /\ DOMAIN heap \subseteq DOMAIN heap'
  BY <1>5, <1>11
<1>17. SubsExist' /\ Ownership'
  <2>1. Carries({new}, f)
    BY <1>9, <1>10, <1>11, <1>12, <1>15, <1>16 DEF Carries
  <2> QED
    BY <1>1, <2>1, Transfer
<1> QED
  BY <1>1, <1>17 DEF IInv

LEMMA RemoveTypes ==
  ASSUME IInv, NEW k \in DOMAIN tree, RemoveBinding(k)
  PROVE  /\ TypeOK'
         /\ Len(tree') = Len(tree) - 1
         /\ \A j \in 1 .. k - 1 : tree'[j] = tree[j]
         /\ \A j \in k .. Len(tree) - 1 : tree'[j] = tree[j + 1]
         /\ DOMAIN heap' = DOMAIN heap
         /\ \A j \in DOMAIN heap : j # tree[k].sub => heap'[j] = heap[j]
         /\ UNCHANGED <<made, joined, collected>>
<1>1. k \in 1 .. Len(tree) /\ Len(tree) \in Nat /\ tree \in Seq(Struct)
  BY DEF IInv, TypeOK
<1>2. tree' = RemoveAt(tree, k)
  BY DEF RemoveBinding
<1>3. /\ tree' \in Seq(Struct) /\ Len(tree') = Len(tree) - 1
      /\ \A j \in 1 .. Len(tree) - 1 :
           tree'[j] = IF j < k THEN tree[j] ELSE tree[j + 1]
  <2>1. tree \in Seq(Struct) /\ k \in 1 .. Len(tree)
    BY <1>1
  <2>2. /\ RemoveAt(tree, k) \in Seq(Struct) /\ Len(RemoveAt(tree, k)) = Len(tree) - 1
        /\ \A j \in 1 .. Len(tree) - 1 :
             RemoveAt(tree, k)[j] = IF j < k THEN tree[j] ELSE tree[j + 1]
    BY <2>1, RemoveAtType
  <2> QED
    BY <1>2, <2>2
<1>4. tree[k].sub \in 1 .. Len(heap)
  <2>1. PICK p : p = [in |-> "tree", k |-> k]
    OBVIOUS
  <2>2. p \in Slots
    BY <1>1, <2>1, SlotIs DEF IInv, Pointer
  <2>3. StructAt(p) = tree[k]
    BY <2>1 DEF StructAt
  <2> QED
    BY <2>2, <2>3, ArrayAt
<1>5. /\ heap' \in Seq(Array) /\ DOMAIN heap' = DOMAIN heap
      /\ \A j \in DOMAIN heap : j # tree[k].sub => heap'[j] = heap[j]
  <2>1. CASE heap' = heap
    BY <2>1 DEF IInv, TypeOK
  <2>2. CASE heap' = [heap EXCEPT ![tree[k].sub].live = FALSE]
    BY <1>4, <2>2, HeapFreed DEF IInv
  <2> QED
    BY <2>1, <2>2 DEF RemoveBinding
<1>6. call'.out \in {"ok", "error"} /\ calls' \in 0 .. MaxCalls
  BY ReturnsType DEF RemoveBinding, CanCall, Done, IInv
<1>7. /\ edition' = edition + 1
      /\ UNCHANGED <<made, w, garbage, joined, collected, pc>>
  BY DEF RemoveBinding, script
<1>8. TypeOK'
  BY <1>3, <1>5, <1>6, <1>7 DEF IInv, TypeOK
<1>9. /\ \A j \in 1 .. k - 1 : tree'[j] = tree[j]
      /\ \A j \in k .. Len(tree) - 1 : tree'[j] = tree[j + 1]
  BY <1>1, <1>3
<1> QED
  BY <1>3, <1>5, <1>7, <1>8, <1>9

LEMMA RemoveKeeps ==
  ASSUME IInv, NEW k \in DOMAIN tree, RemoveBinding(k)
  PROVE  IInv'
<1>1. /\ TypeOK' /\ TypeOK /\ made' = made
      /\ Len(tree') = Len(tree) - 1 /\ Len(tree) \in Nat /\ k \in 1 .. Len(tree)
  BY RemoveTypes DEF IInv, TypeOK
<1>n. PICK gone : gone = [in |-> "tree", k |-> k]
  OBVIOUS
<1>2. gone \in Slots /\ StructAt(gone) = tree[k]
  BY <1>1, <1>n, SlotIs DEF Pointer, StructAt
<1>3. \A q : q \in Slots' <=> /\ q \in Pointer
                              /\ \/ q.in = "tree" /\ q.k \in 1 .. Len(tree) - 1
                                 \/ q.in = "made" /\ q.k \in 1 .. Len(made)
  BY <1>1 DEF TypeOK, Slots, Valid, Pointer
<1> DEFINE from(q) == IF q.in = "tree" /\ q.k >= k THEN [q EXCEPT !.k = q.k + 1] ELSE q
<1>4. ASSUME NEW q \in Slots'
      PROVE  from(q) \in Slots /\ from(q) # gone /\ StructAt(q)' = StructAt(from(q))
  <2>1. CASE q.in # "tree"
    BY <1>1, <1>3, <1>n, <2>1, SlotIs DEF StructAt
  <2>2. CASE q.in = "tree" /\ q.k < k
    <3>1. q.k \in 1 .. k - 1 /\ from(q) = q /\ q \in Slots
      BY <1>1, <1>3, <2>2, SlotIs
    <3>2. tree'[q.k] = tree[q.k]
      BY <3>1, RemoveTypes
    <3> QED
      BY <1>n, <1>1, <2>2, <3>1, <3>2 DEF StructAt
  <2>3. CASE q.in = "tree" /\ q.k >= k
    <3>1. q.k \in k .. Len(tree) - 1 /\ q \in Pointer
      BY <1>1, <1>3, <2>3
    <3>2. from(q) \in Pointer /\ from(q).in = "tree" /\ from(q).k = q.k + 1
      BY <2>3, <3>1 DEF Pointer
    <3>3. from(q) \in Slots /\ from(q).k # k
      <4>1. q.k + 1 \in 1 .. Len(tree) /\ q.k + 1 # k
        BY <1>1, <3>1
      <4> HIDE DEF from
      <4> QED
        BY <1>1, <3>2, <4>1, SlotIs
    <3>4. tree'[q.k] = tree[q.k + 1]
      BY <3>1, RemoveTypes
    <3> QED
      BY <1>n, <2>3, <3>2, <3>3, <3>4 DEF StructAt
  <2> QED
    BY <1>1, <1>3, <2>1, <2>2, <2>3
<1>5. ASSUME NEW q \in Slots', NEW r \in Slots', q # r
      PROVE  from(q) # from(r)
  BY <1>1, <1>3, <1>5 DEF Pointer
<1>6. PICK f \in [Slots' \ {} -> Slots] : \A q \in Slots' \ {} : f[q] = from(q)
  <2>1. [q \in Slots' \ {} |-> from(q)] \in [Slots' \ {} -> Slots]
    BY <1>4
  <2> QED
    BY <2>1
<1> HIDE DEF from
<1>7. /\ \A q \in Slots' \ {} : StructAt(q)' = StructAt(f[q])
      /\ \A q \in Slots' \ {} : \A r \in Slots' \ {} : q # r => f[q] # f[r]
      /\ \A q \in Slots' \ {} : f[q] \in Slots /\ f[q] # gone
  BY <1>4, <1>5, <1>6
<1>8. ASSUME NEW q \in Slots' \ {}
      PROVE  \/ heap'[StructAt(f[q]).sub].live = heap[StructAt(f[q]).sub].live
             \/ StructAt(f[q]).id \in joined' \cup collected'
  <2>1. f[q] \in Slots /\ f[q] # gone /\ StructAt(f[q]).sub \in DOMAIN heap
    BY <1>7, ArrayAt DEF IInv, TypeOK
  <2>2. CASE StructAt(f[q]).sub = tree[k].sub
    BY <1>2, <2>1, <2>2, RemoveTypes DEF IInv, Ownership
  <2>3. CASE StructAt(f[q]).sub # tree[k].sub
    BY <2>1, <2>3, RemoveTypes
  <2> QED
    BY <2>2, <2>3
<1>9. /\ DOMAIN heap \subseteq DOMAIN heap' /\ joined \subseteq joined'
      /\ collected \subseteq collected' /\ {} \in SUBSET Slots'
  BY RemoveTypes
<1>10. SubsExist' /\ Ownership'
  <2>1. Carries({}, f)
    BY <1>6, <1>7, <1>8, <1>9 DEF Carries
  <2> QED
    BY <1>1, <2>1, Transfer
<1> QED
  BY <1>1, <1>10 DEF IInv

-----------------------------------------------------------------------------
(***************************************************************************)
(* The collector                                                           *)
(***************************************************************************)
LEMMA CollectKeeps ==
  ASSUME IInv, NEW p \in garbage, Collect(p)
  PROVE  IInv'
<1>1. calls < MaxCalls
  BY DEF Collect, CanCall
<1>2. CASE Ends("undefined")
  BY <1>1, <1>2, EndsType
<1>3. CASE ~Ends("undefined")
  <2>1. /\ Valid(p)
        /\ heap' = [heap EXCEPT ![StructAt(p).sub].live = FALSE]
        /\ garbage' = garbage \ {p}
        /\ collected' = collected \cup {StructAt(p).id}
        /\ Done("collect", "")
        /\ UNCHANGED <<tree, made, w, edition, joined, pc>>
    BY <1>3 DEF Collect
  <2>2. p \in Slots
    BY <2>1 DEF Slots, IInv, TypeOK
  <2>3. StructAt(p).sub \in 1 .. Len(heap)
    BY <2>2, ArrayAt
  <2>4. /\ heap' \in Seq(Array) /\ DOMAIN heap' = DOMAIN heap
        /\ \A j \in DOMAIN heap : j # StructAt(p).sub => heap'[j] = heap[j]
    BY <2>1, <2>3, HeapFreed DEF IInv
  <2>5. call'.out \in {"ok", "error"} /\ calls' \in 0 .. MaxCalls
    BY <1>1, <2>1, ReturnsType DEF Done, IInv
  <2>6. TypeOK'
    BY <2>1, <2>4, <2>5 DEF IInv, TypeOK
  <2>7. Slots' = Slots /\ \A q \in Slots : StructAt(q)' = StructAt(q)
    BY <2>1 DEF Slots, Valid, StructAt
  <2>8. SubsExist'
    BY <2>4, <2>7 DEF IInv, SubsExist
  <2>9. ASSUME NEW q \in Slots
        PROVE  heap'[StructAt(q).sub].live \/ StructAt(q).id \in joined' \cup collected'
    <3>1. CASE StructAt(q).sub = StructAt(p).sub
      BY <2>1, <2>2, <3>1 DEF IInv, Ownership
    <3>2. CASE StructAt(q).sub # StructAt(p).sub
      <4>1. heap'[StructAt(q).sub] = heap[StructAt(q).sub]
        BY <2>4, <3>2 DEF IInv, SubsExist
      <4> QED
        BY <2>1, <4>1 DEF IInv, Ownership
    <3> QED
      BY <3>1, <3>2
  <2>10. Ownership'
    <3>1. ASSUME NEW q \in Slots, NEW r \in Slots, q # r, StructAt(q).sub = StructAt(r).sub
          PROVE  StructAt(q).id \in joined /\ StructAt(r).id \in joined
      BY <3>1 DEF IInv, Ownership
    <3>2. \A q \in Slots' : StructAt(q)' = StructAt(q)
      BY <2>7
    <3>3. ASSUME NEW q \in Slots', NEW r \in Slots', q # r,
                 StructAt(q)'.sub = StructAt(r)'.sub
          PROVE  StructAt(q)'.id \in joined' /\ StructAt(r)'.id \in joined'
      <4>1. q \in Slots /\ r \in Slots /\ joined' = joined
        BY <2>1, <2>7
      <4>2. StructAt(q)' = StructAt(q) /\ StructAt(r)' = StructAt(r)
        BY <3>2
      <4> QED
        BY <3>1, <3>3, <4>1, <4>2
    <3>4. \A q \in Slots' :
            heap'[StructAt(q)'.sub].live \/ StructAt(q)'.id \in joined' \cup collected'
      BY <2>7, <2>9, <3>2
    <3> QED
      BY <3>3, <3>4 DEF Ownership
  <2> QED
    BY <2>6, <2>8, <2>10 DEF IInv
<1> QED
  BY <1>2, <1>3

-----------------------------------------------------------------------------
\* In a parsed target every binding has an array of its own.
THEOREM InitIInv == Init => IInv
<1> SUFFICES ASSUME Init PROVE IInv
  OBVIOUS
<1>1. PICK p \in Parsed :
        /\ heap = [i \in DOMAIN p |-> [live |-> TRUE, key |-> p[i].key, val |-> p[i].val]]
        /\ tree = [i \in DOMAIN p |-> [id |-> i, sub |-> i]]
  BY DEF Init
<1>2. p \in Seq(Contents) /\ Len(p) \in Nat /\ DOMAIN p = 1 .. Len(p)
  BY <1>1, ParsedAssumption
<1>3. \A c \in Contents : [live |-> TRUE, key |-> c.key, val |-> c.val] \in Array
  BY DEF Contents, Array, Content
<1>4. heap \in Seq(Array) /\ Len(heap) = Len(p) /\ \A i \in 1 .. Len(p) : heap[i].live
  BY <1>1, <1>2, <1>3
<1>5. \A i \in Nat : [id |-> i, sub |-> i] \in Struct
  BY DEF Struct
<1>6. tree \in Seq(Struct) /\ Len(tree) = Len(p) /\ \A i \in 1 .. Len(p) : tree[i].sub = i
  BY <1>1, <1>2, <1>5
<1>7. made \in Seq(Struct) /\ Len(made) = 0
  BY DEF Init
<1>8. /\ w \in [Names -> Pointer] /\ garbage = {}
      /\ pc = "running" /\ call.out = "ok" /\ calls = 0 /\ edition = 0
  BY DEF Init, Nowhere, Pointer, NoCall
<1>9. TypeOK
  BY <1>4, <1>6, <1>7, <1>8, MaxCallsAssumption DEF TypeOK
<1>10. ASSUME NEW q \in Slots
       PROVE  /\ q.in = "tree" /\ q.k \in 1 .. Len(p) /\ StructAt(q).sub = q.k
  BY <1>6, <1>7, <1>9, SlotIs DEF StructAt
<1>11. SubsExist
  BY <1>2, <1>4, <1>10 DEF SubsExist
<1>12. \A q \in Slots : \A r \in Slots : q # r => StructAt(q).sub # StructAt(r).sub
  BY <1>10 DEF Slots, Pointer
<1>13. Ownership
  BY <1>4, <1>10, <1>12 DEF Ownership
<1> QED
  BY <1>9, <1>11, <1>13 DEF IInv

\* Every call and every collection keeps the invariant.
THEOREM NextIInv == IInv /\ [Next]_vars => IInv'
<1> SUFFICES ASSUME IInv, [Next]_vars PROVE IInv'
  OBVIOUS
<1>1. CASE Next
  BY <1>1, TakeKeeps, MakeKeeps, DropKeeps, EditKeeps, InsertKeeps, RemoveKeeps,
     CollectKeeps DEF Next
<1>2. CASE UNCHANGED vars
  <2>1. UNCHANGED <<heap, tree, made, w, garbage, pc, call, calls, edition, joined, collected>>
    BY <1>2 DEF vars
  <2>2. TypeOK'
    BY <2>1 DEF IInv, TypeOK
  <2> QED
    BY <2>1, <2>2, StructsStay DEF IInv
<1> QED
  BY <1>1, <1>2

\* The invariant holds of the bindings after any sequence of calls.
THEOREM Invariant == Spec => []IInv
<1> QED
  BY InitIInv, NextIInv, PTL DEF Spec

\* The variables keep their types: no call leaves a binding with anything but
\* a key and a value.
THEOREM TypeCorrect == Spec => []TypeOK
<1>1. IInv => TypeOK
  BY DEF IInv
<1> QED
  BY <1>1, Invariant, PTL

\* A binding in the tree that was never joined to another, and of which no
\* wrapper was collected, has a key and a value of its own, whatever else was
\* assigned, copied, inserted, removed or collected around it.
THEOREM PartsStayOwn == Spec => []PartsAreOwn
<1>1. IInv => PartsAreOwn
  <2> SUFFICES ASSUME IInv, NEW i \in DOMAIN tree, tree[i].id \notin joined \cup collected
               PROVE  /\ heap[tree[i].sub].live
                      /\ \A j \in DOMAIN tree : tree[j].sub = tree[i].sub => i = j
    BY DEF PartsAreOwn
  <2> DEFINE slot(j) == [in |-> "tree", k |-> j]
  <2>1. ASSUME NEW j \in DOMAIN tree PROVE slot(j) \in Slots /\ StructAt(slot(j)) = tree[j]
    <3>1. slot(j) \in Pointer /\ slot(j).in = "tree" /\ slot(j).k \in 1 .. Len(tree)
      BY DEF Pointer, IInv, TypeOK
    <3> QED
      BY <3>1, SlotIs DEF IInv, StructAt
  <2>2. \A j \in DOMAIN tree : j # i => slot(j) # slot(i)
    OBVIOUS
  <2>3. PICK p \in Slots : p = slot(i)
    BY <2>1
  <2>4. StructAt(p) = tree[i]
    BY <2>1, <2>3
  <2> HIDE DEF slot
  <2>5. heap[tree[i].sub].live
    BY <2>3, <2>4 DEF IInv, Ownership
  <2>6. ASSUME NEW j \in DOMAIN tree, tree[j].sub = tree[i].sub, i # j PROVE FALSE
    <3>1. slot(j) \in Slots /\ StructAt(slot(j)) = tree[j] /\ slot(j) # p
      BY <2>1, <2>2, <2>3, <2>6
    <3> QED
      BY <2>3, <2>4, <2>6, <3>1 DEF IInv, Ownership
  <2> QED
    BY <2>5, <2>6
<1> QED
  BY <1>1, Invariant, PTL

-----------------------------------------------------------------------------
(***************************************************************************)
(* Edits reach their binding                                               *)
(***************************************************************************)

\* As long as nothing was inserted or removed since a wrapper was made, the
\* place in the arg_list it points to holds the binding it was made for.
Aimed ==
  /\ edition \in Nat
  /\ taken \in [Names -> [id : Nat, edition : Nat]]
  /\ \A x \in Names :
       /\ taken[x].edition <= edition
       /\ taken[x].edition = edition /\ w[x].in = "tree" =>
            w[x].k \in DOMAIN tree /\ tree[w[x].k].id = taken[x].id

LEMMA HoldAims ==
  ASSUME IInv, Aimed, NEW x \in Names, NEW p \in Pointer, NEW id \in Nat, Hold(x, p, id),
         p.in = "tree" => p.k \in DOMAIN tree /\ tree[p.k].id = id,
         UNCHANGED <<tree, edition>>
  PROVE  Aimed'
<1>1. taken' = [taken EXCEPT ![x] = [id |-> id, edition |-> edition]] /\ w' = [w EXCEPT ![x] = p]
  BY DEF Hold
<1>2. [id |-> id, edition |-> edition] \in [id : Nat, edition : Nat]
  BY DEF Aimed
<1>3. taken' \in [Names -> [id : Nat, edition : Nat]]
  BY <1>1, <1>2 DEF Aimed
<1>4. ASSUME NEW y \in Names
      PROVE  /\ taken'[y].edition <= edition
             /\ taken'[y].edition = edition /\ w'[y].in = "tree" =>
                  w'[y].k \in DOMAIN tree /\ tree[w'[y].k].id = taken'[y].id
  <2>1. CASE y = x
    BY <1>1, <2>1 DEF Aimed, IInv, TypeOK
  <2>2. CASE y # x
    BY <1>1, <2>2 DEF Aimed, IInv, TypeOK
  <2> QED
    BY <2>1, <2>2
<1> QED
  BY <1>3, <1>4 DEF Aimed

\* ids stay where they are
LEMMA AimStays ==
  ASSUME Aimed, UNCHANGED <<w, taken, edition>>, DOMAIN tree' = DOMAIN tree,
         \A i \in DOMAIN tree : tree'[i].id = tree[i].id
  PROVE  Aimed'
  BY DEF Aimed

LEMMA AimLost == ASSUME Aimed, UNCHANGED taken, edition' = edition + 1 PROVE Aimed'
  BY DEF Aimed

LEMMA PutStructIds ==
  ASSUME TypeOK, NEW p \in Slots, NEW sub \in Nat, PutStruct(p, sub)
  PROVE  DOMAIN tree' = DOMAIN tree /\ \A i \in DOMAIN tree : tree'[i].id = tree[i].id
<1>1. CASE p.in = "tree"
  <2>1. p.k \in 1 .. Len(tree) /\ tree[p.k] \in Struct
    BY <1>1, SlotIs DEF TypeOK
  <2>2. tree' = [tree EXCEPT ![p.k] = [tree[p.k] EXCEPT !.sub = sub]]
    BY <1>1 DEF PutStruct
  <2>3. [tree[p.k] EXCEPT !.sub = sub].id = tree[p.k].id
    BY <2>1 DEF Struct
  <2> QED
    BY <2>1, <2>2, <2>3 DEF TypeOK
<1>2. CASE p.in # "tree"
  BY <1>2 DEF PutStruct
<1> QED
  BY <1>1, <1>2

LEMMA EditAims ==
  ASSUME IInv, Aimed, Edit
  PROVE  Aimed'
<1>1. PICK x \in Names :
        \/ \E key \in Texts : SetKey(x, key)
        \/ RefuseKey(x)
        \/ \E v \in NewValues : SetValue(x, v)
        \/ RefuseDonor(x)
        \/ \E y \in Names : AssignBinding(x, y)
        \/ \E p \in NewPairs : AssignPair(x, p)
        \/ \E y \in Names : CopyTo(x, y)
        \/ CopyOne(x)
        \/ EditDead(x)
  BY DEF Edit
<1>2. ASSUME UNCHANGED <<tree, w, taken, edition>> PROVE Aimed'
  BY <1>2, AimStays
<1>3. ASSUME NEW how, Ends(how) PROVE Aimed'
  BY <1>2, <1>3 DEF Ends, memory, script, history
<1>4. CASE \E y \in Names : AssignBinding(x, y)
  <2>1. PICK y \in Names : AssignBinding(x, y)
    BY <1>4
  <2>2. CASE ~Valid(w[y])
    BY <1>3, <2>1, <2>2 DEF AssignBinding
  <2>3. CASE Valid(w[y])
    <3>1. w[x] \in Slots /\ StructAt(w[y]).sub \in Nat
      BY <2>1, <2>3, HeldSlot, StructType DEF AssignBinding, Edits, Live, IInv
    <3>2. PutStruct(w[x], StructAt(w[y]).sub) /\ UNCHANGED <<w, taken, edition>>
      BY <2>1, <2>3 DEF AssignBinding, script
    <3> QED
      BY <3>1, <3>2, PutStructIds, AimStays DEF IInv
  <2> QED
    BY <2>2, <2>3
<1>5. CASE \E y \in Names : CopyTo(x, y)
  <2>1. PICK y \in Names : CopyTo(x, y)
    BY <1>5
  <2>2. CASE ~Valid(w[y])
    BY <1>3, <2>1, <2>2 DEF CopyTo
  <2>3. CASE Valid(w[y])
    <3>1. /\ w[x] \in Slots /\ w[y] \in Slots
          /\ StructAt(w[y]).sub \in Nat /\ StructAt(w[x]).sub \in Nat
      BY <2>1, <2>3, HeldSlot, StructType DEF CopyTo, Edits, Live, IInv
    <3>2. /\ PutStruct(w[y], StructAt(w[x]).sub) \/ PutStruct(w[x], StructAt(w[y]).sub)
          /\ UNCHANGED <<w, taken, edition>>
      BY <2>1, <2>3 DEF CopyTo, script, Sub
    <3> QED
      BY <3>1, <3>2, PutStructIds, AimStays DEF IInv
  <2> QED
    BY <2>2, <2>3
<1>6. CASE \E v \in NewValues : SetValue(x, v)
  BY <1>2, <1>3, <1>6 DEF SetValue, Refuses, memory, script, history
<1>7. CASE \E p \in NewPairs : AssignPair(x, p)
  BY <1>2, <1>3, <1>7 DEF AssignPair, Writes, script, history
<1> QED
  BY <1>1, <1>2, <1>3, <1>4, <1>5, <1>6, <1>7
     DEF SetKey, RefuseKey, RefuseDonor, CopyOne, EditDead, Writes, Refuses, memory, script,
         history

LEMMA InitAimed == Init => Aimed
<1> SUFFICES ASSUME Init PROVE Aimed
  OBVIOUS
<1>1. edition = 0 /\ taken = [x \in Names |-> [id |-> 0, edition |-> 0]]
      /\ w = [x \in Names |-> Nowhere]
  BY DEF Init
<1>2. [id |-> 0, edition |-> 0] \in [id : Nat, edition : Nat] /\ Nowhere.in # "tree"
  BY DEF Nowhere
<1> QED
  BY <1>1, <1>2 DEF Aimed

LEMMA NextAimed ==
  ASSUME IInv, Aimed, [Next]_vars
  PROVE  Aimed'
<1>1. ASSUME NEW x \in Names, NEW k \in DOMAIN tree, Take(x, k) PROVE Aimed'
  <2>1. PICK p : p = [in |-> "tree", k |-> k]
    OBVIOUS
  <2>2. p \in Pointer /\ p.in = "tree" /\ p.k = k /\ tree[k].id \in Nat
    <3>1. k \in Nat /\ tree[k] \in Struct
      BY DEF IInv, TypeOK
    <3> QED
      BY <2>1, <3>1 DEF Pointer, Struct
  <2>3. Hold(x, p, tree[k].id) /\ UNCHANGED <<tree, edition>>
    BY <1>1, <2>1 DEF Take, memory, history
  <2> QED
    BY <2>2, <2>3, HoldAims
<1>2. ASSUME NEW x \in Names, NEW c \in MadeFrom, Make(x, c) PROVE Aimed'
  <2>1. PICK p : p = [in |-> "made", k |-> Len(made) + 1]
    OBVIOUS
  <2>2. p \in Pointer /\ p.in # "tree" /\ NewId \in Nat
    <3>1. Len(made) + 1 \in Nat
      BY DEF IInv, TypeOK
    <3>2. NewId \in Nat
      BY NewIdType DEF IInv
    <3> QED
      BY <2>1, <3>1, <3>2 DEF Pointer
  <2>3. Hold(x, p, NewId) /\ UNCHANGED <<tree, edition>>
    BY <1>2, <2>1 DEF Make, history
  <2> QED
    BY <2>2, <2>3, HoldAims
<1>3. ASSUME NEW x \in Names, Drop(x) PROVE Aimed'
  <2>1. Nowhere \in Pointer /\ Nowhere.in # "tree"
    BY DEF Nowhere, Pointer
  <2>2. Hold(x, Nowhere, 0) /\ UNCHANGED <<tree, edition>>
    BY <1>3 DEF Drop, memory, history
  <2> QED
    BY <2>1, <2>2, HoldAims
<1>4. ASSUME NEW x \in Names, NEW k \in 0 .. Len(tree), InsertBinding(x, k) PROVE Aimed'
  BY <1>4, AimLost DEF InsertBinding
<1>5. ASSUME NEW k \in DOMAIN tree, RemoveBinding(k) PROVE Aimed'
  BY <1>5, AimLost DEF RemoveBinding, script
<1>6. ASSUME NEW p \in garbage, Collect(p) PROVE Aimed'
  BY <1>6, AimStays DEF Collect, Ends, memory, script, history
<1>7. CASE UNCHANGED vars
  BY <1>7, AimStays DEF vars
<1> QED
  BY <1>1, <1>2, <1>3, <1>4, <1>5, <1>6, <1>7, EditAims DEF Next

\* An edit that writes nothing but the array of the wrapper's struct.
LEMMA WriteIsLocal ==
  ASSUME IInv, Aimed, NEW x \in Names, Valid(w[x]), taken[x].edition = edition,
         \A j \in DOMAIN heap : j # Sub(x) => heap'[j] = heap[j],
         joined \subseteq joined',
         NEW i \in DOMAIN tree, tree'[i] = tree[i],
         tree[i].id # taken[x].id, tree[i].id \notin joined'
  PROVE  PartsOf(heap', tree'[i]) = PartsOf(heap, tree[i])
<1>1. PICK p : p = [in |-> "tree", k |-> i]
  OBVIOUS
<1>2. p \in Slots /\ StructAt(p) = tree[i] /\ p.in = "tree" /\ p.k = i
  <2>1. p \in Pointer /\ p.in = "tree" /\ p.k \in 1 .. Len(tree) /\ p.k = i
    BY <1>1 DEF Pointer, IInv, TypeOK
  <2> QED
    BY <2>1, SlotIs DEF IInv, StructAt
<1>3. w[x] \in Slots /\ p # w[x]
  BY <1>2, HeldSlot DEF IInv, Aimed
<1>4. tree[i].sub # Sub(x)
  <2>1. tree[i].id \notin joined
    OBVIOUS
  <2> QED
    BY <1>2, <1>3, <2>1 DEF IInv, Ownership, Sub
<1>5. tree[i].sub \in DOMAIN heap
  BY <1>2 DEF IInv, SubsExist
<1> QED
  BY <1>4, <1>5 DEF PartsOf

\* A struct another struct is copied over, and that struct, are joined.
LEMMA PutIsLocal ==
  ASSUME TypeOK, NEW p \in Slots, NEW sub \in Nat, PutStruct(p, sub),
         NEW i \in DOMAIN tree, StructAt(p).id # tree[i].id
  PROVE  tree'[i] = tree[i]
<1>1. CASE p.in = "tree"
  <2>1. StructAt(p) = tree[p.k] /\ p.k # i
    BY <1>1 DEF StructAt
  <2> QED
    BY <1>1, <2>1 DEF PutStruct, TypeOK
<1>2. CASE p.in # "tree"
  BY <1>2 DEF PutStruct
<1> QED
  BY <1>1, <1>2

\* What a step tells of its call.
LEMMA ReturnsCall ==
  ASSUME NEW op, NEW x, NEW key, NEW val, NEW out, Returns(op, x, key, val, out)
  PROVE  /\ call'.op = op /\ call'.by = x /\ call'.key = key
         /\ call'.val = val /\ call'.out = out
<1>1. call' = [op |-> op, by |-> x, key |-> key, val |-> val, out |-> out]
  BY DEF Returns
<1> QED
  BY <1>1

LEMMA DoneCall ==
  ASSUME NEW op, NEW x, Done(op, x)
  PROVE  call'.op = op /\ call'.by = x
  BY ReturnsCall DEF Done

LEMMA EndsIsNoEdit ==
  ASSUME NEW how, Ends(how)
  PROVE  call'.op \notin EditOps
<1>1. call' = NoCall
  BY DEF Ends
<1>2. NoCall.op = "none"
  BY DEF NoCall
<1> QED
  BY <1>1, <1>2 DEF EditOps

\* The edit that was made, if the last call is an edit.
LEMMA EditMade ==
  ASSUME [Next]_vars, calls' # calls, call'.op \in EditOps
  PROVE  \E x \in Names :
           /\ call'.by = x /\ Edits(x)
           /\ \/ \E key \in Texts : SetKey(x, key)
              \/ Refuses(x, "key", "", NoValue, "error") /\ RefuseKey(x)
              \/ \E v \in NewValues : SetValue(x, v)
              \/ /\ RefuseDonor(x)
                 /\ \E out \in {"ok", "error"} : Refuses(x, "whole", "", NoValue, out)
              \/ \E y \in Names : Valid(w[y]) /\ AssignBinding(x, y)
              \/ \E p \in NewPairs : AssignPair(x, p)
              \/ \E y \in Names : Valid(w[y]) /\ CopyTo(x, y)
<1>1. ~Ends("undefined") /\ ~Ends("exited")
  BY EndsIsNoEdit
<1>3. Edit
  <2>1. ASSUME NEW x \in Names, NEW k \in DOMAIN tree, Take(x, k) PROVE FALSE
    <3>1. Done("take", x)
      BY <2>1 DEF Take
    <3> QED
      BY <3>1, DoneCall DEF EditOps
  <2>2. ASSUME NEW x \in Names, NEW c \in MadeFrom, Make(x, c) PROVE FALSE
    <3>1. Done("make", x)
      BY <2>2 DEF Make
    <3> QED
      BY <3>1, DoneCall DEF EditOps
  <2>3. ~(\E x \in Names : Drop(x))
    BY DoneCall DEF Drop, EditOps
  <2>4. ASSUME NEW x \in Names, NEW k \in 0 .. Len(tree), InsertBinding(x, k) PROVE FALSE
    <3>1. Done("insert", x)
      BY <2>4 DEF InsertBinding
    <3> QED
      BY <3>1, DoneCall DEF EditOps
  <2>5. ~(\E k \in DOMAIN tree : RemoveBinding(k))
    BY DoneCall DEF RemoveBinding, EditOps
  <2>6. ASSUME NEW p \in garbage, Collect(p) PROVE FALSE
    <3>1. Done("collect", "")
      BY <1>1, <2>6 DEF Collect
    <3>2. call'.op = "collect"
      BY <3>1 DEF Done, Returns
    <3> QED
      BY <3>2 DEF EditOps
  <2>7. ~(UNCHANGED vars)
    BY DEF vars
  <2> QED
    BY <2>1, <2>2, <2>3, <2>4, <2>5, <2>6, <2>7 DEF Next
<1>4. PICK x \in Names :
        \/ \E key \in Texts : SetKey(x, key)
        \/ RefuseKey(x)
        \/ \E v \in NewValues : SetValue(x, v)
        \/ RefuseDonor(x)
        \/ \E y \in Names : AssignBinding(x, y)
        \/ \E p \in NewPairs : AssignPair(x, p)
        \/ \E y \in Names : CopyTo(x, y)
        \/ CopyOne(x)
        \/ EditDead(x)
  BY <1>3 DEF Edit
<1>5. CASE \E key \in Texts : SetKey(x, key)
  BY <1>5, ReturnsCall DEF SetKey, Writes
<1>6. CASE RefuseKey(x)
  BY <1>1, <1>6, ReturnsCall DEF RefuseKey, Refuses
<1>7. CASE \E v \in NewValues : SetValue(x, v)
  <2>1. call'.by = x /\ Edits(x)
    BY <1>1, <1>7, ReturnsCall DEF SetValue, Refuses
  <2> QED
    BY <1>7, <2>1
<1>8. CASE RefuseDonor(x)
  BY <1>1, <1>8, ReturnsCall DEF RefuseDonor, Refuses
<1>9. CASE \E y \in Names : AssignBinding(x, y)
  BY <1>1, <1>9, DoneCall DEF AssignBinding
<1>10. CASE \E p \in NewPairs : AssignPair(x, p)
  <2>1. call'.by = x /\ Edits(x)
    BY <1>1, <1>10, ReturnsCall DEF AssignPair, Writes
  <2> QED
    BY <1>10, <2>1
<1>11. CASE \E y \in Names : CopyTo(x, y)
  BY <1>1, <1>11, DoneCall DEF CopyTo
<1>12. ~CopyOne(x) /\ ~EditDead(x)
  BY <1>1 DEF CopyOne, EditDead
<1> QED
  BY <1>4, <1>5, <1>6, <1>7, <1>8, <1>9, <1>10, <1>11, <1>12

\* An edit through a wrapper changes its own binding, or one that was joined
\* to another, as long as nothing was inserted or removed meanwhile.
THEOREM EditsReachTheirBinding == Spec => EditReachesItsBinding
<1>1. ASSUME IInv, Aimed, [Next]_vars, calls' # calls, call'.op \in EditOps,
             taken[call'.by].edition = edition, NEW i \in DOMAIN tree
      PROVE  \/ tree[i].id = taken[call'.by].id
             \/ tree[i].id \in joined'
             \/ PartsOf(heap', tree'[i]) = PartsOf(heap, tree[i])
  <2> SUFFICES ASSUME tree[i].id # taken[call'.by].id, tree[i].id \notin joined'
               PROVE  PartsOf(heap', tree'[i]) = PartsOf(heap, tree[i])
    OBVIOUS
  <2>1. PICK x \in Names :
          /\ call'.by = x /\ Edits(x)
          /\ \/ \E key \in Texts : SetKey(x, key)
             \/ Refuses(x, "key", "", NoValue, "error") /\ RefuseKey(x)
             \/ \E v \in NewValues : SetValue(x, v)
             \/ /\ RefuseDonor(x)
                /\ \E out \in {"ok", "error"} : Refuses(x, "whole", "", NoValue, out)
             \/ \E y \in Names : Valid(w[y]) /\ AssignBinding(x, y)
             \/ \E p \in NewPairs : AssignPair(x, p)
             \/ \E y \in Names : Valid(w[y]) /\ CopyTo(x, y)
    BY <1>1, EditMade
  <2>2. Valid(w[x]) /\ w[x] \in Slots /\ taken[x].edition = edition
        /\ tree[i].id # taken[x].id
    BY <1>1, <2>1, HeldSlot DEF Edits, Live, IInv
  <2>3. ASSUME tree' = tree, joined' = joined,
               \A j \in DOMAIN heap : j # Sub(x) => heap'[j] = heap[j]
        PROVE  PartsOf(heap', tree'[i]) = PartsOf(heap, tree[i])
    BY <1>1, <2>2, <2>3, WriteIsLocal
  <2>4. ASSUME UNCHANGED <<heap, tree>>
        PROVE  PartsOf(heap', tree'[i]) = PartsOf(heap, tree[i])
    BY <2>4
  <2>5. ASSUME NEW op, NEW key, NEW val, NEW a, Writes(x, op, key, val, a)
        PROVE  PartsOf(heap', tree'[i]) = PartsOf(heap, tree[i])
    <3>1. \A j \in DOMAIN heap : j # Sub(x) => heap'[j] = heap[j]
      BY <2>5 DEF Writes
    <3>2. tree' = tree /\ joined' = joined
      BY <2>5 DEF Writes, history
    <3> QED
      BY <2>3, <3>1, <3>2
  <2>6. ASSUME NEW how, Ends(how)
        PROVE  PartsOf(heap', tree'[i]) = PartsOf(heap, tree[i])
    BY <2>4, <2>6 DEF Ends, memory
  <2>7. CASE \E key \in Texts : SetKey(x, key)
    BY <2>5, <2>7 DEF SetKey
  <2>8. CASE \E v \in NewValues : SetValue(x, v)
    <3>1. PICK v \in NewValues : SetValue(x, v)
      BY <2>8
    <3>2. CASE /\ heap' = [heap EXCEPT ![Sub(x)].val = NewContent(heap[Sub(x)].val, v)]
               /\ UNCHANGED <<tree, made, w, taken, history, pc>>
      <4>1. \A j \in DOMAIN heap : j # Sub(x) => heap'[j] = heap[j]
        BY <3>2
      <4> QED
        BY <2>3, <3>2, <4>1 DEF history
    <3> QED
      BY <2>4, <2>6, <3>1, <3>2 DEF SetValue, Refuses, memory
  <2>9. CASE \E y \in Names : Valid(w[y]) /\ AssignBinding(x, y)
    <3>1. PICK y \in Names : Valid(w[y]) /\ AssignBinding(x, y)
      BY <2>9
    <3>2. /\ heap' = [heap EXCEPT ![Sub(x)].live = FALSE]
          /\ PutStruct(w[x], StructAt(w[y]).sub)
          /\ joined' = joined \cup {StructAt(w[x]).id, StructAt(w[y]).id}
      BY <3>1 DEF AssignBinding
    <3>3. StructAt(w[x]).id # tree[i].id /\ StructAt(w[y]).sub \in Nat
      BY <1>1, <3>1, <3>2, HeldSlot, StructType DEF IInv
    <3>4. tree'[i] = tree[i]
      BY <1>1, <2>2, <3>2, <3>3, PutIsLocal DEF IInv
    <3>5. \A j \in DOMAIN heap : j # Sub(x) => heap'[j] = heap[j]
      BY <3>2
    <3> QED
      BY <1>1, <2>2, <3>2, <3>4, <3>5, WriteIsLocal
  <2>10. CASE \E y \in Names : Valid(w[y]) /\ CopyTo(x, y)
    <3>1. PICK y \in Names : Valid(w[y]) /\ CopyTo(x, y)
      BY <2>10
    <3>2. /\ heap' = heap
          /\ PutStruct(w[y], StructAt(w[x]).sub) \/ PutStruct(w[x], StructAt(w[y]).sub)
          /\ joined' = joined \cup {StructAt(w[x]).id, StructAt(w[y]).id}
      BY <3>1 DEF CopyTo, Sub
    <3>3. /\ StructAt(w[x]).id # tree[i].id /\ StructAt(w[y]).id # tree[i].id
          /\ StructAt(w[x]).sub \in Nat /\ StructAt(w[y]).sub \in Nat
          /\ w[y] \in Slots
      BY <1>1, <2>2, <3>1, <3>2, HeldSlot, StructType DEF IInv
    <3>4. tree'[i] = tree[i]
      BY <1>1, <2>2, <3>2, <3>3, PutIsLocal DEF IInv
    <3> QED
      BY <2>4, <3>2, <3>4
  <2>11. CASE \E p \in NewPairs : AssignPair(x, p)
    BY <2>5, <2>6, <2>11 DEF AssignPair
  <2>12. ASSUME NEW op, NEW key, NEW val, NEW out, Refuses(x, op, key, val, out)
         PROVE  PartsOf(heap', tree'[i]) = PartsOf(heap, tree[i])
    BY <2>4, <2>12 DEF Refuses, memory
  <2> QED
    BY <2>1, <2>7, <2>8, <2>9, <2>10, <2>11, <2>12
<1>2. IInv /\ Aimed /\ [Next]_vars =>
        [calls' # calls /\ call'.op \in EditOps /\ taken[call'.by].edition = edition
           => \A i \in DOMAIN tree :
                \/ tree[i].id = taken[call'.by].id
                \/ tree[i].id \in joined'
                \/ PartsOf(heap', tree'[i]) = PartsOf(heap, tree[i])]_vars
  BY <1>1
<1>3. Init => Aimed
  BY InitAimed
<1>4. IInv /\ Aimed /\ [Next]_vars => Aimed'
  BY NextAimed
<1> QED
  BY <1>2, <1>3, <1>4, Invariant, PTL DEF Spec, EditReachesItsBinding

-----------------------------------------------------------------------------
(***************************************************************************)
(* Edits do what the script is told                                        *)
(***************************************************************************)

\* A list without variables is converted as it is.
LEMMA ConvertedSame ==
  ASSUME NEW items \in Seq(Atom), \A i \in DOMAIN items : items[i].tid # "ID"
  PROVE  Converted(items) = items
<1>1. \A i \in DOMAIN items :
        (IF items[i].tid = "ID" THEN [items[i] EXCEPT !.tid = "blank"] ELSE items[i]) = items[i]
  OBVIOUS
<1>2. Converted(items) = [i \in DOMAIN items |-> items[i]]
  BY <1>1 DEF Converted
<1> QED
  BY <1>2

\* A list assignment that gets to its end leaves the items asked for, unless a
\* comma was in front.
LEMMA ReplacedAsAsked ==
  ASSUME NEW old \in Content, NEW c, c.val.kind = "list", c.val.items \in Seq(Atom),
         Replaceable(old, c.val.items)
  PROVE  Unheeded(c, old) \/ Shown(Replaced(old, c.val.items)) = Asked(c)
<1> DEFINE items == c.val.items
<1>1. Asked(c) = [tid |-> "list", items |-> items]
  BY DEF Asked
<1>2. CASE items = << >>
  <2>1. Replaced(old, items) = [tid |-> "emptied", items |-> << >>]
    BY <1>2 DEF Replaced
  <2> QED
    BY <1>1, <1>2, <2>1 DEF Shown
<1>3. CASE items # << >>
  <2>1. CASE old.tid = "ragged"
    BY <1>3, <2>1 DEF Unheeded
  <2>2. CASE old.tid = "fronted" /\ Len(items) < Len(old.items)
    BY <1>3, <2>2 DEF Unheeded
  <2>3. CASE old.tid = "fronted" /\ ~(Len(items) < Len(old.items))
    <3>1. Len(items) >= Len(old.items)
      BY <2>3 DEF Content
    <3>2. Replaced(old, items) = [tid |-> "fronted", items |-> items]
      BY <1>3, <2>3, <3>1 DEF Replaced
    <3> QED
      BY <1>1, <3>2 DEF Shown
  <2>4. CASE old.tid = "list"
    <3>1. PICK tid \in {"list", "fronted"} : Replaced(old, items) = [tid |-> tid, items |-> items]
      BY <1>3, <2>4 DEF Replaced
    <3> QED
      BY <1>1, <3>1 DEF Shown
  <2>5. old.tid \in {"list", "fronted", "ragged"}
    BY DEF Replaceable, HasItems
  <2> QED
    BY <2>1, <2>2, <2>3, <2>4, <2>5
<1> QED
  BY <1>2, <1>3

\* What is written for a new value is what was asked for, or the call is one
\* of those that do less.
LEMMA WrittenAsAsked ==
  ASSUME NEW old \in Content, old.tid # "freed", NEW v \in NewValue, NEW c,
         c.op = "value", c.val = v, v.kind # "null",
         v.kind = "list" /\ IsListExpr(old) => Replaceable(old, v.items)
  PROVE  Unheeded(c, old) \/ Shown(NewContent(old, v)) = Asked(c)
<1>1. v.kind \in {"list", "vector", "atom", "cobj", "other"} /\ v.items \in Seq(Atom)
  BY ElementsAreAtoms DEF NewValue
<1>2. CASE v.kind \in {"cobj", "other"}
  BY <1>2 DEF Unheeded
<1>3. CASE v.kind = "atom"
  BY <1>3 DEF NewContent, Asked, Shown
<1>4. CASE v.kind = "list" /\ IsListExpr(old)
  <2>1. NewContent(old, v) = Replaced(old, c.val.items)
    BY <1>4 DEF NewContent
  <2> QED
    BY <1>1, <1>4, <2>1, ReplacedAsAsked
<1>5. CASE v.kind = "vector" \/ (v.kind = "list" /\ ~IsListExpr(old))
  <2>1. NewContent(old, v) = [tid |-> "list", items |-> Converted(v.items)]
    BY <1>5 DEF NewContent
  <2>2. Asked(c) = [tid |-> "list", items |-> v.items]
    BY <1>5 DEF Asked
  <2>3. CASE \E i \in DOMAIN v.items : v.items[i].tid = "ID"
    <3>1. v.kind = "list" => old.tid = "atom"
      BY <1>5 DEF IsListExpr, Content
    <3> QED
      BY <1>5, <2>3, <3>1 DEF Unheeded
  <2>4. CASE ~\E i \in DOMAIN v.items : v.items[i].tid = "ID"
    <3>1. NewContent(old, v) = [tid |-> "list", items |-> v.items]
      BY <1>1, <2>1, <2>4, ConvertedSame
    <3> QED
      BY <2>2, <3>1 DEF Shown
  <2> QED
    BY <2>3, <2>4
<1> QED
  BY <1>1, <1>2, <1>3, <1>4, <1>5

\* The promise for one call.
KeptPromise ==
  LET a   == heap[Sub(call'.by)]
      new == heap'[Sub(call'.by)]
  IN  \/ call'.out = "error" /\ heap' = heap
      \/ /\ call'.out = "ok"
         /\ new.key = IF call'.op = "value" THEN a.key ELSE call'.key
         /\ \/ Unheeded(call', a.val)
            \/ IF call'.op = "key" THEN new.val = a.val ELSE Shown(new.val) = Asked(call')

LEMMA RefusesHonestly ==
  ASSUME NEW op, NEW x, NEW key, NEW val, Refuses(x, op, key, val, "error")
  PROVE  KeptPromise
<1>1. heap' = heap
  BY DEF Refuses, memory
<1>2. call'.out = "error"
  BY ReturnsCall DEF Refuses
<1> QED
  BY <1>1, <1>2 DEF KeptPromise

LEMMA WritesHonestly ==
  ASSUME IInv, NEW x \in Names, Edits(x), NEW op, NEW key, NEW val, NEW a,
         Returns(op, x, key, val, "ok"), heap' = [heap EXCEPT ![Sub(x)] = a],
         a.key = IF op = "value" THEN heap[Sub(x)].key ELSE key,
         \/ Unheeded(call', heap[Sub(x)].val)
         \/ IF op = "key" THEN a.val = heap[Sub(x)].val ELSE Shown(a.val) = Asked(call')
  PROVE  KeptPromise
<1>1. call'.op = op /\ call'.by = x /\ call'.key = key /\ call'.out = "ok"
  BY ReturnsCall
<1>2. Sub(x) \in DOMAIN heap
  BY EditedArray DEF IInv, TypeOK
<1>3. heap'[Sub(x)] = a
  BY <1>2
<1> QED
  BY <1>1, <1>3 DEF KeptPromise

LEMMA SetKeyHonest ==
  ASSUME IInv, NEW x \in Names, NEW key \in Texts, SetKey(x, key)
  PROVE  KeptPromise
<1> DEFINE a == [heap[Sub(x)] EXCEPT !.key = key]
<1>1. Edits(x) /\ Writes(x, "key", key, NoValue, a)
  BY DEF SetKey
<1>2. heap[Sub(x)] \in Array
  BY <1>1, EditedArray
<1>3. a.key = key /\ a.val = heap[Sub(x)].val
  BY <1>2 DEF Array
<1>4. Returns("key", x, key, NoValue, "ok") /\ heap' = [heap EXCEPT ![Sub(x)] = a]
  BY <1>1 DEF Writes
<1> HIDE DEF a
<1> QED
  BY <1>1, <1>3, <1>4, WritesHonestly

LEMMA SetValueHonest ==
  ASSUME IInv, NEW x \in Names, NEW v \in NewValues, SetValue(x, v), ~Ends("undefined")
  PROVE  KeptPromise
<1>1. Edits(x) /\ v \in NewValue
  BY InputAssumption DEF SetValue
<1> DEFINE old == heap[Sub(x)].val
           a == [heap[Sub(x)] EXCEPT !.val = NewContent(old, v)]
<1>2. heap[Sub(x)] \in Array /\ old \in Content /\ old.tid # "freed"
  BY <1>1, EditedArray DEF Edits, Live, Sub
<1>3. CASE Refuses(x, "value", "", v, "error")
  BY <1>3, RefusesHonestly
<1>4. CASE /\ v.kind # "null"
           /\ v.kind = "list" /\ IsListExpr(old) => Replaceable(old, v.items)
           /\ heap' = [heap EXCEPT ![Sub(x)].val = NewContent(old, v)]
           /\ Returns("value", x, "", v, "ok")
  <2>1. call'.op = "value" /\ call'.val = v
    BY <1>4, ReturnsCall
  <2>2. Unheeded(call', old) \/ Shown(NewContent(old, v)) = Asked(call')
    BY <1>1, <1>2, <1>4, <2>1, WrittenAsAsked
  <2>3. a.key = heap[Sub(x)].key /\ a.val = NewContent(old, v)
    BY <1>2 DEF Array
  <2>4. heap' = [heap EXCEPT ![Sub(x)] = a]
    BY <1>4
  <2> HIDE DEF a
  <2> QED
    BY <1>1, <1>4, <2>2, <2>3, <2>4, WritesHonestly
<1> QED
  BY <1>3, <1>4 DEF SetValue

LEMMA AssignPairHonest ==
  ASSUME IInv, NEW x \in Names, NEW p \in NewPairs, AssignPair(x, p),
         ~Ends("undefined"), ~Ends("exited")
  PROVE  KeptPromise
<1>1. Edits(x) /\ p \in NewPair
  BY InputAssumption DEF AssignPair
<1> DEFINE old == heap[Sub(x)].val
           new == [heap[Sub(x)] EXCEPT !.key = p.key]
<1>2. heap[Sub(x)] \in Array /\ old \in Content
  BY <1>1, EditedArray
<1>3. new \in Array /\ new.key = p.key
  BY <1>1, <1>2, ArrayWithKey DEF NewPair, Array
<1>4. ASSUME NEW c, Writes(x, "pair", p.key, p.val, [new EXCEPT !.val = c]),
             \/ ~(p.val.kind = "list" /\ IsListExpr(old))
             \/ /\ p.val.kind = "list"
                /\ Replaceable(old, p.val.items) /\ c = Replaced(old, p.val.items)
      PROVE  KeptPromise
  <2>1. PICK a : a = [new EXCEPT !.val = c]
    OBVIOUS
  <2>2. a.key = p.key /\ a.val = c
    BY <1>3, <2>1 DEF Array
  <2>3. Returns("pair", x, p.key, p.val, "ok") /\ heap' = [heap EXCEPT ![Sub(x)] = a]
    BY <1>4, <2>1 DEF Writes
  <2>4. call'.op = "pair" /\ call'.val = p.val
    BY <2>3, ReturnsCall
  <2>5. Unheeded(call', old) \/ Shown(c) = Asked(call')
    <3>1. CASE ~(p.val.kind = "list" /\ IsListExpr(old))
      BY <2>4, <3>1 DEF Unheeded
    <3>2. CASE /\ p.val.kind = "list"
               /\ Replaceable(old, p.val.items) /\ c = Replaced(old, p.val.items)
      <4>1. p.val.items \in Seq(Atom)
        BY <1>1, ElementsAreAtoms DEF NewPair
      <4> QED
        BY <1>2, <2>4, <3>2, <4>1, ReplacedAsAsked
    <3> QED
      BY <1>4, <3>1, <3>2
  <2> HIDE DEF new
  <2> QED
    BY <1>1, <2>2, <2>3, <2>5, WritesHonestly
<1>5. CASE p.val.kind # "list"
  <2>1. Writes(x, "pair", p.key, p.val, [new EXCEPT !.val = old])
    BY <1>5 DEF AssignPair
  <2> HIDE DEF new, old
  <2> QED
    BY <1>4, <1>5, <2>1
<1>6. CASE p.val.kind = "list" /\ IsListExpr(old)
  <2>1. Replaceable(old, p.val.items)
        /\ Writes(x, "pair", p.key, p.val, [new EXCEPT !.val = Replaced(old, p.val.items)])
    BY <1>6 DEF AssignPair
  <2> HIDE DEF new, old
  <2> QED
    BY <1>4, <1>6, <2>1
<1>7. CASE p.val.kind = "list" /\ ~IsListExpr(old)
  <2>1. Writes(x, "pair", p.key, p.val, [new EXCEPT !.val = [tid |-> "freed", items |-> << >>]])
    BY <1>7 DEF AssignPair, Replaceable, HasItems, IsListExpr
  <2> HIDE DEF new, old
  <2> QED
    BY <1>4, <1>7, <2>1
<1> QED
  BY <1>5, <1>6, <1>7

\* An edit of a binding's key, value or both that succeeds for the script was
\* made in full, and one that fails changed nothing, with the exceptions
\* Unheeded names.
THEOREM EditsTellTheTruth == Spec => TellsTheTruth
<1>1. ASSUME IInv, [Next]_vars, calls' # calls, call'.op \in {"key", "value", "pair"}
      PROVE  KeptPromise
  <2>1. call'.op \in EditOps
    BY <1>1 DEF EditOps
  <2>2. PICK x \in Names :
          /\ call'.by = x /\ Edits(x)
          /\ \/ \E key \in Texts : SetKey(x, key)
             \/ Refuses(x, "key", "", NoValue, "error") /\ RefuseKey(x)
             \/ \E v \in NewValues : SetValue(x, v)
             \/ /\ RefuseDonor(x)
                /\ \E out \in {"ok", "error"} : Refuses(x, "whole", "", NoValue, out)
             \/ \E y \in Names : Valid(w[y]) /\ AssignBinding(x, y)
             \/ \E p \in NewPairs : AssignPair(x, p)
             \/ \E y \in Names : Valid(w[y]) /\ CopyTo(x, y)
    BY <1>1, <2>1, EditMade
  <2>3. ~Ends("undefined") /\ ~Ends("exited")
    BY <2>1, EndsIsNoEdit
  <2>4. ~\E out \in {"ok", "error"} : Refuses(x, "whole", "", NoValue, out)
    BY <1>1, ReturnsCall DEF Refuses
  <2>5. ~\E y \in Names : Valid(w[y]) /\ AssignBinding(x, y)
    <3>1. ASSUME NEW y \in Names, Valid(w[y]), AssignBinding(x, y) PROVE FALSE
      <4>1. call'.op = "assign"
        BY <3>1, DoneCall DEF AssignBinding
      <4> QED
        BY <1>1, <4>1
    <3> QED
      BY <3>1
  <2>6. ~\E y \in Names : Valid(w[y]) /\ CopyTo(x, y)
    <3>1. ASSUME NEW y \in Names, Valid(w[y]), CopyTo(x, y) PROVE FALSE
      <4>1. call'.op = "copy"
        BY <3>1, DoneCall DEF CopyTo
      <4> QED
        BY <1>1, <4>1
    <3> QED
      BY <3>1
  <2> QED
    BY <1>1, <2>2, <2>3, <2>4, <2>5, <2>6, SetKeyHonest, SetValueHonest, AssignPairHonest,
       RefusesHonestly
<1>2. IInv /\ [Next]_vars =>
        [calls' # calls /\ call'.op \in {"key", "value", "pair"} => KeptPromise]_vars
  BY <1>1
<1>3. Spec => [][calls' # calls /\ call'.op \in {"key", "value", "pair"} => KeptPromise]_vars
  BY <1>2, Invariant, PTL DEF Spec
<1> QED
  BY <1>3 DEF TellsTheTruth, KeptPromise
=============================================================================
