----------------------------- MODULE VectorProofs -----------------------------
(***************************************************************************)
(* Theorems about VectorMutators, for every set of texts, every set of     *)
(* calls, every set of parsed lists and every width of int.                *)
(***************************************************************************)
EXTENDS VectorRefinement, CommaListLemmas, SequenceLemmas

Live == pc \notin Ended

\* The errors a call can carry into its loops: none that says it was refused.
LoopErrnos == {"OK", "EKW_NOT_NBR", "ENOT_A_KW", "EINDEX_OUT_OF_BOUNDS"}

\* What a call in progress remembers of the dispatch that chose its loop, and
\* what the loop has found out since.
CallState ==
  /\ pc = "dispatch" => errno = KwIndexErrno(req.step)
  /\ pc \in Loops => errno \in LoopErrnos
  /\ pc = "splice" => at \in Nat /\ Alternating(sub) /\ old \in Seq(Node)
  /\ pc = "replace" =>
       /\ Elems # << >> /\ TypeInferred
       /\ n > 0 => last \in Node
       /\ CommaInFront(sub) => 2 * n <= Len(sub)
  /\ pc = "remove" => Elems # << >> /\ n <= Len(Locations)

\* The inductive invariant.
IInv == TypeOK /\ CommaDiscipline /\ LoopPosition /\ CallState

\* A list that has no comma in front, and no call has added to by assignment
\* since it came in.
Regular ==
  /\ old \in Seq(Node)
  /\ Live => Alternating(sub) /\ (pc = "replace" => n <= Len(old))

\* What every step keeps but the one that adds an item.
Kept == /\ IInv'
        /\ Regular => Regular'
        /\ Alternating(sub) => Alternating(sub')

-----------------------------------------------------------------------------
(***************************************************************************)
(* Types of the helpers.                                                   *)
(***************************************************************************)
LEMMA KwIndexType ==
  ASSUME NEW st \in Step
  PROVE  KwIndex(st) \in Int /\ KwIndexErrno(st) \in LoopErrnos
<1>1. CInt(st.n) \in Int
  BY CIntType DEF Step
<1> QED
  BY <1>1 DEF KwIndex, KwIndexErrno, IsIndex, Step, StepKinds, ListKinds, LoopErrnos

LEMMA AnyRequestType == AnyRequest \in Requests
  BY RequestsAssumption DEF AnyRequest

\* The parts of a request.
LEMMA RequestType ==
  ASSUME TypeOK
  PROVE  /\ req.step \in Step
         /\ Val \in Value
         /\ Elems \in Seq(Elem)
         /\ Len(Elems) \in Nat
         /\ \A i \in 1 .. Len(Elems) : Elems[i] \in Elem
  BY RequestsAssumption DEF TypeOK, Request, Value, Val, Elems

\* What is written over an item, or inserted, is an item and no comma.
LEMMA ItemOfType ==
  ASSUME NEW e \in Elem
  PROVE  ItemOf(e) \in Node
  BY DEF ItemOf, Elem, Node

\* While the program lives, the items of a list are nodes.
LEMMA LiveItems ==
  ASSUME TypeOK, Alternating(sub)
  PROVE  /\ Items(sub) \in Seq(Node)
         /\ Len(Items(sub)) = ItemCount(sub)
         /\ ItemCount(sub) \in Nat
         /\ sub = << >> <=> ItemCount(sub) = 0
         /\ sub # << >> => Len(sub) = 2 * ItemCount(sub) - 1
<1>1. sub \in Seq(Node \cup {Comma})
  BY DEF TypeOK
<1>2. Items(sub) \in Seq(Node) /\ Len(Items(sub)) = ItemCount(sub)
  BY <1>1, ItemsType, Zenon
<1> QED
  BY <1>1, <1>2, AlternatingLength

-----------------------------------------------------------------------------
(***************************************************************************)
(* The two shapes of an array, and what keeps a comma in front.            *)
(***************************************************************************)
LEMMA SlotsOfAlternating ==
  ASSUME NEW a \in Seq(Node \cup {Comma}), Alternating(a)
  PROVE  /\ ~CommaInFront(a)
         /\ Slots(a) = Items(a) /\ Slots(a) \in Seq(Node)
         /\ Len(Slots(a)) = ItemCount(a)
<1>1. ~CommaInFront(a)
  BY DEF Alternating, CommaInFront
<1>2. Items(a) \in Seq(Node) /\ Len(Items(a)) = ItemCount(a)
  BY ItemsType, Zenon
<1> QED
  BY <1>1, <1>2, Zenon DEF Slots

LEMMA SlotsType ==
  ASSUME NEW a \in Seq(Node \cup {Comma}), Alternating(a) \/ CommaInFront(a)
  PROVE  /\ Slots(a) \in Seq(Node \cup {Comma})
         /\ Len(Slots(a)) = ItemCount(a) /\ ItemCount(a) \in Nat
<1>1. ItemCount(a) \in Nat
  BY DEF ItemCount
<1>2. CASE Alternating(a)
  <2>1. Slots(a) \in Seq(Node) /\ Len(Slots(a)) = ItemCount(a)
    BY <1>2, SlotsOfAlternating
  <2>2. PICK s, S : s = Slots(a) /\ S = Node
    OBVIOUS
  <2> QED
    BY <1>1, <2>1, <2>2
<1>3. CASE CommaInFront(a)
  <2> DEFINE slot(k) == IF 2 * k <= Len(a) THEN a[2 * k] ELSE Comma
  <2>1. \A k \in 1 .. ItemCount(a) : slot(k) \in Node \cup {Comma}
    OBVIOUS
  <2>2. Slots(a) = [k \in 1 .. ItemCount(a) |-> slot(k)]
    BY <1>3 DEF Slots
  <2> HIDE DEF slot
  <2> QED
    BY <1>1, <2>1, <2>2
<1> QED
  BY <1>2, <1>3

LEMMA ErasePairInBent ==
  ASSUME NEW S, NEW a \in Seq(S), CommaInFront(a),
         NEW pos \in Nat, pos + 2 <= Len(a)
  PROVE  /\ Erase(a, pos, 2) \in Seq(S)
         /\ Alternating(Erase(a, pos, 2)) \/ CommaInFront(Erase(a, pos, 2))
<1> DEFINE r == Erase(a, pos, 2)
<1>1. r = [i \in 1 .. Len(a) - 2 |-> IF i <= pos THEN a[i] ELSE a[i + 2]]
  BY DEF Erase
<1>2. Len(a) - 2 \in Nat
  OBVIOUS
<1>3. r \in Seq(S) /\ Len(r) = Len(a) - 2
  BY <1>1, <1>2
<1>4. ASSUME NEW i \in 1 .. Len(r)
      PROVE  r[i] = Comma <=> i % 2 = 1
  BY <1>1, <1>2, <1>3 DEF CommaInFront
<1> HIDE DEF r
<1>5. r = << >> => Alternating(r)
  BY DEF Alternating
<1> QED
  BY <1>3, <1>4, <1>5 DEF CommaInFront, r

LEMMA ShrinkBent ==
  ASSUME NEW S, NEW a \in Seq(S), CommaInFront(a),
         NEW m \in 1 .. ItemCount(a)
  PROVE  Shrink(a, 2 * m - 1) \in Seq(S) /\ CommaInFront(Shrink(a, 2 * m - 1))
<1>1. 2 * m - 1 \in 1 .. Len(a)
  BY DEF ItemCount
<1> QED
  BY <1>1 DEF Shrink, CommaInFront

LEMMA OverwriteBent ==
  ASSUME NEW S, NEW a \in Seq(S), CommaInFront(a),
         NEW j \in 1 .. Len(a), j % 2 = 0, NEW x \in S, x # Comma
  PROVE  [a EXCEPT ![j] = x] \in Seq(S) /\ CommaInFront([a EXCEPT ![j] = x])
  BY DEF CommaInFront

\* A comma and an item behind the last item.
LEMMA AppendShapes ==
  ASSUME NEW S, Comma \in S, NEW a \in Seq(S), NEW x \in S, x # Comma,
         Alternating(a) \/ (CommaInFront(a) /\ Len(a) % 2 = 0)
  PROVE  LET r == a \o <<Comma, x>>
         IN  /\ r \in Seq(S) /\ Len(r) = Len(a) + 2 /\ r[Len(r)] = x
             /\ ItemCount(r) = ItemCount(a) + 1
             /\ CommaInFront(r) <=> a = << >> \/ CommaInFront(a)
             /\ Alternating(r) \/ CommaInFront(r)
<1> DEFINE r == a \o <<Comma, x>>
<1>1. /\ r \in Seq(S) /\ Len(r) = Len(a) + 2 /\ Len(a) \in Nat
      /\ \A i \in 1 .. Len(a) : r[i] = a[i]
      /\ r[Len(a) + 1] = Comma /\ r[Len(a) + 2] = x
  OBVIOUS
<1> HIDE DEF r
<1>2. \A i \in 1 .. Len(r) : i \in 1 .. Len(a) \/ i = Len(a) + 1 \/ i = Len(a) + 2
  BY <1>1
<1>3. ItemCount(r) = ItemCount(a) + 1 /\ r # << >>
  BY <1>1 DEF ItemCount
<1>4. CASE a = << >> \/ CommaInFront(a)
  <2>1. Len(a) % 2 = 0
    BY <1>4 DEF CommaInFront, Alternating
  <2>2. \A i \in 1 .. Len(a) : a[i] = Comma <=> i % 2 = 1
    BY <1>4 DEF CommaInFront
  <2>3. \A i \in 1 .. Len(r) : r[i] = Comma <=> i % 2 = 1
    BY <1>1, <1>2, <2>1, <2>2
  <2>4. CommaInFront(r)
    BY <1>3, <2>3 DEF CommaInFront
  <2> QED
    BY <1>1, <1>3, <1>4, <2>4 DEF r
<1>5. CASE a # << >> /\ Alternating(a) /\ ~CommaInFront(a)
  <2>1. Len(a) % 2 = 1 /\ \A i \in 1 .. Len(a) : a[i] = Comma <=> i % 2 = 0
    BY <1>5 DEF Alternating
  <2>2. \A i \in 1 .. Len(r) : r[i] = Comma <=> i % 2 = 0
    BY <1>1, <1>2, <2>1
  <2>3. Alternating(r)
    BY <1>1, <2>1, <2>2 DEF Alternating
  <2>4. ~CommaInFront(r)
    BY <1>1, <1>3, <2>2 DEF CommaInFront
  <2> QED
    BY <1>1, <1>3, <1>5, <2>3, <2>4 DEF r
<1> QED
  BY <1>4, <1>5

-----------------------------------------------------------------------------
(***************************************************************************)
(* The ways a step can end a call or leave its data alone.                 *)
(***************************************************************************)

\* Every return leaves a list between two calls.
LEMMA ReturnType ==
  ASSUME NEW a \in Seq(Node \cup {Comma}), Alternating(a) \/ CommaInFront(a),
         NEW e \in Errnos, ReturnWith(a, e), exprList' \in BOOLEAN
  PROVE  IInv'
<1>1. Slots(a) \in Seq(Node \cup {Comma})
  BY SlotsType
<1>2. TypeOK'
  BY <1>1, AnyRequestType DEF ReturnWith, TypeOK
<1>3. CommaDiscipline' /\ LoopPosition' /\ CallState'
  BY DEF ReturnWith, CommaDiscipline, LoopPosition, CallState, Loops
<1> QED
  BY <1>2, <1>3 DEF IInv

LEMMA ReturnKeeps ==
  ASSUME NEW a \in Seq(Node \cup {Comma}), Alternating(a), NEW e \in Errnos,
         ReturnWith(a, e), exprList' \in BOOLEAN
  PROVE  Kept
<1>1. IInv'
  BY ReturnType
<1>2. sub' = a /\ old' = Slots(a) /\ pc' = "idle"
  BY DEF ReturnWith
<1> QED
  BY <1>1, <1>2, SlotsOfAlternating DEF Kept, Regular

\* A return that leaves the list alone.
LEMMA PlainReturnKeeps ==
  ASSUME IInv, Live, NEW e \in Errnos, Return(e)
  PROVE  Kept
<1>1. /\ sub \in Seq(Node \cup {Comma})
      /\ Alternating(sub) \/ CommaInFront(sub)
      /\ ReturnWith(sub, e) /\ exprList' \in BOOLEAN /\ sub' = sub
  BY DEF IInv, Live, CommaDiscipline, TypeOK, Return, ReturnWith
<1>2. IInv'
  BY <1>1, ReturnType
<1>3. CASE Alternating(sub)
  BY <1>1, <1>3, ReturnKeeps
<1>4. CASE ~Alternating(sub)
  BY <1>1, <1>2, <1>4 DEF Kept, Regular
<1> QED
  BY <1>3, <1>4

\* A crash or an exit: only the types are left to hold.
LEMMA HaltKeeps ==
  ASSUME TypeOK, NEW how \in Ended, Halt(how)
  PROVE  Kept
<1>1. IInv'
  BY DEF Halt, IInv, TypeOK, CommaDiscipline, LoopPosition, CallState, Loops, Ended
<1> QED
  BY <1>1 DEF Kept, Regular, Live, Halt

-----------------------------------------------------------------------------
(***************************************************************************)
(* The initial states, and the call coming in.                             *)
(***************************************************************************)
LEMMA InitInv == Init => IInv /\ Regular
<1> SUFFICES ASSUME Init PROVE IInv /\ Regular
  OBVIOUS
<1>1. sub \in Seq(Node \cup {Comma}) /\ Alternating(sub)
  BY ParsedAssumption DEF Init
<1>2. old \in Seq(Node) /\ Slots(sub) \in Seq(Node \cup {Comma})
  BY <1>1, SlotsOfAlternating, SlotsType DEF Init
<1>3. TypeOK
  BY <1>1, <1>2, AnyRequestType DEF Init, TypeOK, Errnos
<1> QED
  BY <1>1, <1>2, <1>3
  DEF Init, IInv, CommaDiscipline, LoopPosition, CallState, Loops, Regular

LEMMA ReceiveKeeps ==
  ASSUME IInv, NEW r \in Requests, Receive(r)
  PROVE  Kept
<1>1. KwIndexErrno(r.step) \in Errnos
  BY RequestsAssumption, KwIndexType DEF Request, LoopErrnos, Errnos
<1>2. /\ sub \in Seq(Node \cup {Comma})
      /\ Alternating(sub) \/ CommaInFront(sub)
  BY DEF IInv, TypeOK, CommaDiscipline, Receive, Ended
<1>3. Slots(sub) \in Seq(Node \cup {Comma}) /\ (Alternating(sub) => Slots(sub) \in Seq(Node))
  BY <1>2, SlotsOfAlternating, SlotsType
<1>4. TypeOK'
  BY <1>1, <1>3 DEF IInv, TypeOK, Receive
<1>5. CommaDiscipline' /\ LoopPosition' /\ CallState'
  BY <1>2, <1>4 DEF IInv, CommaDiscipline, LoopPosition, CallState, Receive, Loops
<1>6. Live /\ sub' = sub /\ pc' = "dispatch" /\ old' = Slots(sub)
  BY DEF Receive, Live, Ended
<1> QED
  BY <1>3, <1>4, <1>5, <1>6 DEF Kept, IInv, Regular

-----------------------------------------------------------------------------
(***************************************************************************)
(* Dispatch: all that can happen before a loop starts.                     *)
(***************************************************************************)

\* What is known at the dispatch.
LEMMA DispatchState ==
  ASSUME IInv, pc = "dispatch"
  PROVE  /\ TypeOK /\ Live
         /\ sub \in Seq(Node \cup {Comma})
         /\ Alternating(sub) \/ CommaInFront(sub)
         /\ errno \in LoopErrnos /\ errno \in Errnos
         /\ old = Slots(sub) /\ Len(old) = ItemCount(sub) /\ ItemCount(sub) \in Nat
         /\ n = 0 /\ at = 0
         /\ Alternating(sub) => Regular /\ old \in Seq(Node)
<1>1. /\ TypeOK /\ Live
      /\ sub \in Seq(Node \cup {Comma})
      /\ Alternating(sub) \/ CommaInFront(sub)
      /\ old = Slots(sub) /\ n = 0 /\ at = 0
  BY DEF IInv, TypeOK, CommaDiscipline, LoopPosition, Live, Ended
<1>2. errno \in LoopErrnos
  BY <1>1, RequestType, KwIndexType DEF IInv, CallState
<1>3. Len(old) = ItemCount(sub) /\ ItemCount(sub) \in Nat
  BY <1>1, SlotsType
<1>4. Alternating(sub) => Regular /\ old \in Seq(Node)
  BY <1>1, SlotsOfAlternating DEF Regular
<1> QED
  BY <1>1, <1>2, <1>3, <1>4 DEF LoopErrnos, Errnos

\* An item is looked up only in a list without a comma in front: the model
\* ends where Sealark would be asked for one in another.
LEMMA LookupInAlternating ==
  ASSUME IInv, CarCall \/ (ItemCall /\ Val.kind # "proc")
  PROVE  /\ pc = "dispatch" /\ Alternating(sub) /\ sub \in Seq(Node \cup {Comma})
         /\ TypeOK /\ Live /\ Regular /\ exprList /\ errno \in Errnos
         /\ ItemCount(sub) \in Nat /\ old \in Seq(Node) /\ n = 0
         /\ sub # << >> => Len(sub) = 2 * ItemCount(sub) - 1
         /\ sub = << >> => ItemCount(sub) = 0
<1>1. pc = "dispatch" /\ exprList
  BY DEF CarCall, ItemCall
<1>2. ~CommaInFront(sub)
  BY DEF CarCall, ItemCall, Untold
<1>3. Alternating(sub)
  BY <1>1, <1>2, DispatchState
<1> QED
  BY <1>1, <1>3, DispatchState, LiveItems

LEMMA SetItemKeeps ==
  ASSUME IInv, CarCall \/ (ItemCall /\ Val.kind # "proc"), exprList' = exprList,
         NEW k \in 0 .. ItemCount(sub) - 1, NEW x \in Node, NEW e \in Errnos,
         ReturnWith(SetItem(sub, k, x), e)
  PROVE  Kept
<1>1. /\ Alternating(sub) /\ sub \in Seq(Node \cup {Comma}) /\ TypeOK
      /\ ItemCount(sub) \in Nat
  BY LookupInAlternating
<1>2. PICK S, a : S = Node \cup {Comma} /\ a = sub
  OBVIOUS
<1>3. a \in Seq(S) /\ Alternating(a) /\ k \in 0 .. ItemCount(a) - 1 /\ x \in S /\ x # Comma
  BY <1>1, <1>2, CommaAssumption
<1>4. SetItem(a, k, x) \in Seq(S) /\ Alternating(SetItem(a, k, x))
  BY <1>3, SetItemAlternates
<1>5. exprList' \in BOOLEAN
  BY <1>1 DEF TypeOK
<1> QED
  BY <1>2, <1>4, <1>5, ReturnKeeps

LEMMA ReplaceItemKeeps ==
  ASSUME IInv, ReplaceItem
  PROVE  Kept
<1>1. /\ ItemCall /\ Val.kind # "proc" /\ Position \in 0 .. ItemCount(sub) - 1
      /\ ReturnWith(SetItem(sub, Position, NewItem), errno) /\ exprList' = exprList
  BY DEF ReplaceItem, ItemFound
<1>2. TypeOK /\ errno \in Errnos
  BY <1>1, LookupInAlternating
<1>3. NewItem \in Node
  BY <1>1, <1>2, RequestType DEF NewItem, ReplaceItem, Node, Value
<1> QED
  BY <1>1, <1>2, <1>3, SetItemKeeps

LEMMA CarSetIntKeeps ==
  ASSUME IInv, CarSetInt
  PROVE  Kept
<1> DEFINE new == [tid |-> "INT", s |-> IF Val.kind = "int" THEN Val.s ELSE 0]
<1>1. /\ CarCall /\ CarPosition \in 0 .. ItemCount(sub) - 1
      /\ ReturnWith(SetItem(sub, CarPosition, new), CarErrno) /\ exprList' = exprList
  BY DEF CarSetInt
<1>2. TypeOK
  BY <1>1, LookupInAlternating
<1>3. new \in Node
  <2>1. Val.s \in Texts \cup Int
    BY <1>2, RequestType DEF Value
  <2> QED
    BY <2>1 DEF Node
<1>4. CarErrno \in Errnos
  BY DEF CarErrno, Errnos
<1> HIDE DEF new
<1> QED
  BY <1>1, <1>3, <1>4, SetItemKeeps

LEMMA DeleteItemKeeps ==
  ASSUME IInv, DeleteItem
  PROVE  Kept
<1>1. /\ ItemCall /\ Val.kind # "proc" /\ Position \in 0 .. ItemCount(sub) - 1
      /\ ReturnWith(RemoveItem(sub, Position), "OK") /\ exprList' = exprList
  BY DEF DeleteItem, ItemFound
<1>2. Alternating(sub) /\ sub \in Seq(Node \cup {Comma}) /\ TypeOK
  BY <1>1, LookupInAlternating
<1>3. /\ RemoveItem(sub, Position) \in Seq(Node \cup {Comma})
      /\ Alternating(RemoveItem(sub, Position))
  BY <1>1, <1>2, RemoveItemAlternates
<1> QED
  BY <1>1, <1>2, <1>3, ReturnKeeps DEF TypeOK, Errnos

LEMMA BeginSpliceKeeps ==
  ASSUME IInv, BeginSplice
  PROVE  Kept
<1>1. ItemCall /\ Val.kind # "proc" /\ Position \in 0 .. ItemCount(sub) - 1
  BY DEF BeginSplice, ItemFound
<1>2. /\ pc = "dispatch" /\ Alternating(sub) /\ TypeOK /\ Regular
      /\ ItemCount(sub) \in Nat /\ old \in Seq(Node) /\ errno \in LoopErrnos
  BY <1>1, LookupInAlternating, DispatchState
<1>3. at' \in Nat
  BY <1>1, <1>2 DEF BeginSplice
<1>4. TypeOK'
  BY <1>2, <1>3 DEF BeginSplice, TypeOK, Loops
<1> QED
  BY <1>2, <1>3, <1>4
  DEF BeginSplice, Kept, IInv, Regular, CommaDiscipline, LoopPosition, CallState, Loops

LEMMA BeginReplaceKeeps ==
  ASSUME IInv, BeginReplace
  PROVE  Kept
<1>1. pc = "dispatch" /\ Elems # << >> /\ TypeInferred
  BY DEF BeginReplace, AssignList, AssignCall
<1>2. TypeOK'
  BY <1>1, DispatchState DEF BeginReplace, TypeOK, Loops
<1>3. Elems' = Elems /\ TypeInferred' /\ Len(Elems) \in Nat
  BY <1>1, DispatchState, RequestType DEF BeginReplace, Elems, TypeInferred
<1>4. n' = 0 /\ at' = 0 /\ Len(old) \in Nat /\ ItemCount(sub) = Len(old)
      /\ UNCHANGED <<sub, old, errno, req>> /\ pc' = "replace"
  BY <1>1, DispatchState DEF BeginReplace
<1>5. LoopPosition'
  BY <1>3, <1>4 DEF LoopPosition
<1>6. CallState'
  BY <1>1, <1>3, <1>4, DispatchState DEF CallState, Loops
<1>7. CommaDiscipline' /\ (Regular => Regular')
  BY <1>1, <1>4, DispatchState DEF CommaDiscipline, Regular, Live
<1> QED
  BY <1>2, <1>4, <1>5, <1>6, <1>7 DEF Kept, IInv

LEMMA BeginRemovalKeeps ==
  ASSUME IInv, BeginRemoval
  PROVE  Kept
<1>1. pc = "dispatch" /\ Elems # << >>
  BY DEF BeginRemoval, AssignList, AssignCall
<1>2. TypeOK'
  BY <1>1, DispatchState DEF BeginRemoval, TypeOK, Loops
<1>3. /\ Elems' = Elems /\ Locations' = Locations /\ AttrCount' = AttrCount
      /\ Locations \in Seq(Elem)
  BY <1>1, DispatchState, RequestType DEF BeginRemoval, Elems, Locations, AttrCount
<1>4. n' = 0 /\ Len(old) \in Nat /\ ItemCount(sub) = Len(old) /\ Len(Locations) \in Nat
      /\ UNCHANGED <<sub, old, errno, req>> /\ pc' = "remove"
  BY <1>1, <1>3, DispatchState DEF BeginRemoval
<1>5. \A j \in 1 .. Len(Locations') :
        Locations'[j].kind = "int" => ~Misplaced(Locations[j])'
  BY <1>3 DEF BeginRemoval, Misplaced
<1>6. LoopPosition'
  BY <1>3, <1>4, <1>5 DEF LoopPosition
<1>7. CallState'
  BY <1>1, <1>3, <1>4, DispatchState DEF CallState, Loops
<1>8. CommaDiscipline' /\ (Regular => Regular')
  BY <1>1, <1>4, DispatchState DEF CommaDiscipline, Regular, Live
<1> QED
  BY <1>2, <1>4, <1>6, <1>7, <1>8 DEF Kept, IInv

LEMMA DispatchPlace == Dispatch => pc = "dispatch"
  BY DEF Dispatch, ClearAll, RefuseStep, StringNotFound, NoExprList, RefuseProcedure,
     ItemMissing, RefuseValue, ReplaceItem, ExitOnStringNode, DeleteItem, IgnoreValue,
     BeginSplice, AssignNonList, AssignEmpty, RefuseAssign, BeginReplace, RefuseRemoval,
     BeginRemoval, ItemFound, ItemCall, AssignList, AssignCall, LookupAstray, CarCrash,
     CarIgnored, CarSetInt, CarCall

LEMMA DispatchKeeps ==
  ASSUME IInv, Dispatch
  PROVE  Kept
<1>1. pc = "dispatch"
  BY DispatchPlace
<1>2. TypeOK /\ Live /\ errno \in Errnos
  BY <1>1, DispatchState
<1>3. << >> \in Seq(Node \cup {Comma}) /\ Alternating(<< >>)
  BY DEF Alternating
<1>4. CASE ClearAll
  BY <1>2, <1>3, <1>4, ReturnKeeps DEF ClearAll, TypeOK
<1>5. CASE RefuseStep
  BY <1>2, <1>5, PlainReturnKeeps DEF RefuseStep, Errnos
<1>6. CASE StringNotFound
  BY <1>2, <1>6, PlainReturnKeeps DEF StringNotFound
<1>7. CASE NoExprList \/ LookupAstray \/ CarCrash \/ ExitOnStringNode
  BY <1>2, <1>7, HaltKeeps DEF NoExprList, LookupAstray, CarCrash, ExitOnStringNode, Ended
<1>8. CASE RefuseProcedure
  BY <1>2, <1>8, PlainReturnKeeps DEF RefuseProcedure, Errnos
<1>9. CASE ItemMissing
  <2>1. ErrnoAfterNormalize \in Errnos
    BY <1>2 DEF ErrnoAfterNormalize, Errnos
  <2> QED
    BY <1>2, <1>9, <2>1, PlainReturnKeeps DEF ItemMissing
<1>10. CASE RefuseValue
  BY <1>2, <1>10, PlainReturnKeeps DEF RefuseValue, Errnos
<1>11. CASE ReplaceItem
  BY <1>11, ReplaceItemKeeps
<1>12. CASE CarIgnored
  BY <1>2, <1>12, PlainReturnKeeps DEF CarIgnored, CarErrno, Errnos
<1>13. CASE DeleteItem
  BY <1>13, DeleteItemKeeps
<1>14. CASE IgnoreValue
  BY <1>2, <1>14, PlainReturnKeeps DEF IgnoreValue
<1>15. CASE BeginSplice
  BY <1>15, BeginSpliceKeeps
<1>16. CASE AssignNonList
  BY <1>2, <1>16, HaltKeeps, PlainReturnKeeps DEF AssignNonList, Errnos, Ended
<1>17. CASE AssignEmpty
  BY <1>2, <1>3, <1>17, ReturnKeeps DEF AssignEmpty
<1>18. CASE RefuseAssign
  BY <1>2, <1>18, PlainReturnKeeps DEF RefuseAssign, Errnos
<1>19. CASE BeginReplace
  BY <1>19, BeginReplaceKeeps
<1>20. CASE RefuseRemoval
  BY <1>2, <1>20, PlainReturnKeeps DEF RefuseRemoval, Errnos
<1>21. CASE BeginRemoval
  BY <1>21, BeginRemovalKeeps
<1>22. CASE CarSetInt
  BY <1>22, CarSetIntKeeps
<1> QED
  BY <1>4, <1>5, <1>6, <1>7, <1>8, <1>9, <1>10, <1>11, <1>12, <1>13, <1>14, <1>15,
     <1>16, <1>17, <1>18, <1>19, <1>20, <1>21, <1>22 DEF Dispatch

-----------------------------------------------------------------------------
(***************************************************************************)
(* The turns of the loops.                                                 *)
(***************************************************************************)

\* What is known in a loop.
LEMMA LoopState ==
  ASSUME IInv, pc \in Loops
  PROVE  /\ TypeOK /\ Live
         /\ sub \in Seq(Node \cup {Comma})
         /\ Alternating(sub) \/ CommaInFront(sub)
         /\ errno \in LoopErrnos /\ errno \in Errnos
         /\ Len(old) \in Nat /\ n \in Nat
<1>1. /\ TypeOK /\ Live /\ errno \in LoopErrnos
      /\ Alternating(sub) \/ CommaInFront(sub)
  BY DEF IInv, CommaDiscipline, Live, Loops, Ended, CallState
<1> QED
  BY <1>1 DEF TypeOK, LoopErrnos, Errnos

LEMMA SpliceInsertKeeps ==
  ASSUME IInv, SpliceInsert
  PROVE  Kept
<1>1. pc = "splice" /\ pc \in Loops /\ at \in Nat /\ Alternating(sub) /\ old \in Seq(Node)
  BY DEF SpliceInsert, Loops, IInv, CallState
<1>2. ItemOf(Elems[n + 1]) \in Node
  <2>1. n + 1 \in 1 .. Len(Elems)
    BY <1>1, LoopState, RequestType DEF SpliceInsert
  <2> QED
    BY <1>1, <2>1, LoopState, RequestType, ItemOfType
<1>3. sub' \in Seq(Node \cup {Comma}) /\ Alternating(sub')
      /\ errno' \in LoopErrnos
  <2>1. CASE at + n <= ItemCount(sub)
    <3>1. at + n \in 0 .. ItemCount(sub)
      BY <1>1, <2>1, LoopState, LiveItems
    <3>2. sub' = InsertItem(sub, at + n, ItemOf(Elems[n + 1])) /\ errno' = errno
      BY <2>1 DEF SpliceInsert
    <3> QED
      BY <1>1, <1>2, <3>1, <3>2, LoopState, CommaAssumption, InsertItemAlternates
  <2>2. CASE ~(at + n <= ItemCount(sub))
    BY <1>1, <2>2, LoopState DEF SpliceInsert, LoopErrnos
  <2> QED
    BY <2>1, <2>2
<1>4. TypeOK'
  BY <1>1, <1>3, LoopState DEF SpliceInsert, TypeOK, LoopErrnos, Errnos
<1> QED
  BY <1>1, <1>3, <1>4
  DEF SpliceInsert, Kept, IInv, Regular, CommaDiscipline, LoopPosition, CallState, Loops

LEMMA SpliceSkipKeeps ==
  ASSUME IInv, SpliceSkip
  PROVE  Kept
<1>1. pc = "splice" /\ pc \in Loops /\ at \in Nat /\ Alternating(sub) /\ old \in Seq(Node)
  BY DEF SpliceSkip, Loops, IInv, CallState
<1>2. TypeOK'
  BY <1>1, LoopState DEF SpliceSkip, TypeOK
<1> QED
  BY <1>1, <1>2, LoopState
  DEF SpliceSkip, Kept, IInv, Regular, CommaDiscipline, LoopPosition, CallState, Loops

\* A list whose type could be inferred does not start with an element that
\* is neither string, integer nor symbol, so the replacing loop never
\* repeats a predecessor it does not have.
LEMMA FirstElementTyped ==
  ASSUME TypeOK, Elems # << >>, TypeInferred
  PROVE  Elems[1].kind \in {"str", "int", "sym", "remove!"}
<1>1. PICK i \in 1 .. Len(Elems) :
        /\ Elems[i].kind \in {"str", "int"}
        /\ \A j \in 1 .. i - 1 : Elems[j].kind \in {"sym", "remove!"}
  BY DEF TypeInferred
<1>2. Len(Elems) \in Nat
  BY RequestType
<1>3. CASE i = 1
  BY <1>1, <1>3
<1>4. CASE i # 1
  BY <1>1, <1>2, <1>4
<1> QED
  BY <1>3, <1>4

LEMMA ReplacementType ==
  ASSUME NEW e \in Elem, e.kind = "other" => last \in Node
  PROVE  Replacement(e) \in Node
<1>1. CASE e.kind = "other"
  BY <1>1 DEF Replacement
<1>2. CASE e.kind = "int"
  BY <1>2, CIntType DEF Replacement, Elem, Node
<1>3. CASE e.kind \notin {"other", "int"}
  BY <1>3, ItemOfType DEF Replacement
<1> QED
  BY <1>1, <1>2, <1>3

\* What is known at a turn of the replacing loop.
LEMMA ReplaceState ==
  ASSUME IInv, ReplaceTurn
  PROVE  /\ pc = "replace" /\ pc \in Loops
         /\ Elems # << >> /\ TypeInferred
         /\ n \in Nat /\ n < Len(Elems) /\ Len(Elems) \in Nat
         /\ Replacement(Elems[n + 1]) \in Node
         /\ CommaInFront(sub) => 2 * n <= Len(sub)
         /\ n <= Len(old) =>
              /\ ItemCount(sub) = Len(old)
              /\ at = IF n = 0 \/ CommaInFront(sub) THEN 2 * n ELSE 2 * n - 1
         /\ n > Len(old) =>
              /\ ItemCount(sub) = n
              /\ at = IF CommaInFront(sub) THEN n + Len(old) ELSE n + Len(old) - 1
<1>1. pc = "replace" /\ pc \in Loops /\ n < Len(Elems)
  BY DEF ReplaceTurn, Loops
<1>2. /\ Elems # << >> /\ TypeInferred /\ (n > 0 => last \in Node)
      /\ CommaInFront(sub) => 2 * n <= Len(sub)
  BY <1>1 DEF IInv, CallState
<1>3. /\ n \in Nat /\ Len(Elems) \in Nat /\ n + 1 \in 1 .. Len(Elems)
      /\ Elems[n + 1] \in Elem /\ Len(old) \in Nat
  BY <1>1, LoopState, RequestType
<1>4. Replacement(Elems[n + 1]) \in Node
  <2>1. CASE n = 0
    BY <1>1, <1>2, <1>3, <2>1, LoopState, FirstElementTyped, ReplacementType
  <2>2. CASE n > 0
    BY <1>2, <1>3, <2>2, ReplacementType
  <2> QED
    BY <1>3, <2>1, <2>2
<1>5. /\ n <= Len(old) =>
           /\ ItemCount(sub) = Len(old)
           /\ at = IF n = 0 \/ CommaInFront(sub) THEN 2 * n ELSE 2 * n - 1
      /\ n > Len(old) =>
           /\ ItemCount(sub) = n
           /\ at = IF CommaInFront(sub) THEN n + Len(old) ELSE n + Len(old) - 1
  BY <1>1, <1>3 DEF IInv, LoopPosition
<1> QED
  BY <1>1, <1>2, <1>3, <1>4, <1>5

\* The array index of the item a turn is about.
LEMMA ReplacedPlace ==
  ASSUME IInv, ReplaceTurn, n < Len(old)
  PROVE  /\ ReplacedAt = IF CommaInFront(sub) THEN 2 * n + 1 ELSE 2 * n
         /\ ~CommaInFront(sub) => Alternating(sub) /\ HasElt(sub, ReplacedAt)
<1>1. /\ n \in Nat /\ Len(old) \in Nat /\ ItemCount(sub) = Len(old)
      /\ at = IF n = 0 \/ CommaInFront(sub) THEN 2 * n ELSE 2 * n - 1
      /\ sub \in Seq(Node \cup {Comma})
      /\ Alternating(sub) \/ CommaInFront(sub)
  BY ReplaceState, LoopState
<1>2. CASE CommaInFront(sub)
  <2>1. at = 2 * n /\ at + 1 \in 1 .. Len(sub) /\ (at + 1) % 2 = 1
    BY <1>1, <1>2 DEF ItemCount
  <2>2. EltAt(sub, at) = Comma
    BY <1>2, <2>1 DEF EltAt, CommaInFront
  <2> QED
    BY <1>2, <2>1, <2>2 DEF ReplacedAt
<1>3. CASE ~CommaInFront(sub)
  <2>1. Alternating(sub) /\ Len(sub) = 2 * Len(old) - 1
    BY <1>1, <1>3 DEF Alternating, ItemCount
  <2>2. CASE n = 0
    <3>1. at = 0 /\ at + 1 \in 1 .. Len(sub) /\ (at + 1) % 2 = 1
      BY <1>1, <2>1, <2>2
    <3>2. EltAt(sub, at) # Comma
      BY <2>1, <3>1 DEF EltAt, Alternating
    <3> QED
      BY <1>1, <1>3, <2>1, <2>2, <3>1, <3>2 DEF ReplacedAt, HasElt
  <2>3. CASE n > 0
    <3>1. at = 2 * n - 1 /\ at + 1 \in 1 .. Len(sub) /\ (at + 1) % 2 = 0
      BY <1>1, <1>3, <2>1, <2>3
    <3>2. EltAt(sub, at) = Comma
      BY <2>1, <3>1 DEF EltAt, Alternating
    <3>3. ReplacedAt = 2 * n
      BY <1>1, <3>1, <3>2 DEF ReplacedAt
    <3> QED
      BY <1>1, <1>3, <2>1, <3>3 DEF HasElt
  <2> QED
    BY <1>1, <2>2, <2>3
<1> QED
  BY <1>2, <1>3

LEMMA ReplaceNextKeeps ==
  ASSUME IInv, ReplaceNext
  PROVE  Kept
<1> DEFINE x == Replacement(Elems[n + 1])
           p == ReplacedAt + 1
<1>1. /\ ReplaceTurn /\ n < Len(old) /\ HasElt(sub, ReplacedAt)
      /\ sub' = [sub EXCEPT ![p] = x] /\ at' = p /\ last' = x /\ n' = n + 1
      /\ UNCHANGED <<exprList, errno, pc, req, old>>
  BY DEF ReplaceNext
<1>2. /\ pc = "replace" /\ pc \in Loops /\ Elems # << >> /\ TypeInferred
      /\ n \in Nat /\ n < Len(Elems) /\ Len(Elems) \in Nat /\ x \in Node
      /\ ItemCount(sub) = Len(old)
  BY <1>1, ReplaceState
<1>3. /\ TypeOK /\ Live /\ sub \in Seq(Node \cup {Comma})
      /\ Alternating(sub) \/ CommaInFront(sub)
      /\ errno \in LoopErrnos /\ Len(old) \in Nat
  BY <1>2, LoopState
<1>4. /\ p = IF CommaInFront(sub) THEN 2 * n + 2 ELSE 2 * n + 1
      /\ p \in 1 .. Len(sub)
  BY <1>1, <1>2, ReplacedPlace DEF HasElt
<1>5. Len(sub') = Len(sub) /\ sub'[p] = x /\ sub' \in Seq(Node \cup {Comma})
  <2> HIDE DEF x, p
  <2>1. x \in Node \cup {Comma}
    BY <1>2
  <2> QED
    BY <1>1, <1>3, <1>4, <2>1
<1>6. /\ Alternating(sub) => Alternating(sub')
      /\ CommaInFront(sub) => CommaInFront(sub')
      /\ Alternating(sub') \/ CommaInFront(sub')
      /\ CommaInFront(sub') <=> CommaInFront(sub)
  <2> HIDE DEF x, p
  <2>1. PICK S : S = Node \cup {Comma}
    OBVIOUS
  <2>2. sub \in Seq(S) /\ x \in S /\ x # Comma
    BY <1>2, <1>3, <2>1, CommaAssumption
  <2>3. CASE CommaInFront(sub)
    <3>1. p % 2 = 0
      BY <1>2, <1>4, <2>3
    <3>2. CommaInFront(sub')
      BY <1>1, <1>4, <2>2, <2>3, <3>1, OverwriteBent
    <3>3. ~Alternating(sub)
      BY <1>3, <2>3, SlotsOfAlternating
    <3> QED
      BY <2>3, <3>2, <3>3
  <2>4. CASE ~CommaInFront(sub)
    <3>1. p % 2 = 1 /\ Alternating(sub)
      BY <1>2, <1>3, <1>4, <2>4
    <3>2. Alternating(sub')
      BY <1>1, <1>4, <2>2, <3>1, OverwriteAlternates
    <3>3. ~CommaInFront(sub')
      BY <1>5, <3>2, SlotsOfAlternating
    <3> QED
      BY <2>4, <3>2, <3>3
  <2> QED
    BY <2>3, <2>4
<1>7. TypeOK'
  <2>1. at' \in Int /\ n' \in Nat /\ last' \in Node \cup {Comma}
    BY <1>1, <1>2, <1>4
  <2> QED
    BY <1>1, <1>3, <1>5, <2>1 DEF TypeOK
<1> HIDE DEF x, p
<1>8. /\ ItemCount(sub') = Len(old)
      /\ n' <= Len(Elems) /\ n' <= Len(old) /\ n' > 0
      /\ at' = IF n' = 0 \/ CommaInFront(sub') THEN 2 * n' ELSE 2 * n' - 1
      /\ last' = EltAt(sub', at' - 1)
      /\ CommaInFront(sub') => 2 * n' <= Len(sub')
  <2>1. ItemCount(sub') = Len(old)
    BY <1>2, <1>5 DEF ItemCount
  <2>2. at' - 1 + 1 = p
    BY <1>1, <1>4
  <2>3. last' = EltAt(sub', at' - 1)
    BY <1>1, <1>5, <2>2 DEF EltAt
  <2>4. n' = n + 1 /\ n' <= Len(Elems) /\ n' <= Len(old) /\ n' > 0
    BY <1>1, <1>2, <1>3
  <2>5. at' = IF CommaInFront(sub) THEN 2 * n' ELSE 2 * n' - 1
    BY <1>1, <1>2, <1>4, <2>4
  <2>6. CommaInFront(sub') => 2 * n' <= Len(sub')
    BY <1>2, <1>3, <1>4, <1>5, <1>6, <2>4
  <2> QED
    BY <1>6, <2>1, <2>3, <2>4, <2>5, <2>6
<1>9. Elems' = Elems /\ TypeInferred'
  BY <1>1, <1>2 DEF Elems, TypeInferred
<1>10. LoopPosition'
  BY <1>1, <1>2, <1>8, <1>9 DEF LoopPosition
<1>11. CallState'
  BY <1>1, <1>2, <1>3, <1>8, <1>9 DEF CallState, Loops
<1> QED
  BY <1>1, <1>2, <1>3, <1>6, <1>7, <1>8, <1>10, <1>11
  DEF Kept, IInv, CommaDiscipline, Regular, Live

\* A turn past the last item adds an item, behind a comma.  It is the only
\* step that can make a list irregular.
LEMMA ExtendKeeps ==
  ASSUME IInv, Extend
  PROVE  /\ IInv'
         /\ CommaInFront(sub') => CommaInFront(sub) \/ old = << >>
<1> DEFINE x == Replacement(Elems[n + 1])
           y == [x EXCEPT !.s = NoText]
<1>1. /\ ReplaceTurn /\ n >= Len(old) /\ x.s = EmptyText
      /\ sub' = sub \o <<Comma, y>> /\ at' = at + 1 /\ last' = x /\ n' = n + 1
      /\ UNCHANGED <<exprList, errno, pc, req, old>>
  BY DEF Extend
<1>2. /\ pc = "replace" /\ pc \in Loops /\ Elems # << >> /\ TypeInferred
      /\ n \in Nat /\ n < Len(Elems) /\ Len(Elems) \in Nat /\ x \in Node
      /\ CommaInFront(sub) => 2 * n <= Len(sub)
  BY <1>1, ReplaceState
<1>3. /\ TypeOK /\ Live /\ sub \in Seq(Node \cup {Comma})
      /\ Alternating(sub) \/ CommaInFront(sub)
      /\ errno \in LoopErrnos /\ Len(old) \in Nat
  BY <1>2, LoopState
<1>4. y \in Node /\ y # Comma
  BY <1>2, CommaAssumption DEF Node
<1>5. ItemCount(sub) = n
  <2>1. n = Len(old) \/ n > Len(old)
    BY <1>1, <1>2, <1>3
  <2> QED
    BY <1>1, <1>2, <1>3, <2>1, ReplaceState
<1> HIDE DEF x, y
<1>6. CommaInFront(sub) => Len(sub) % 2 = 0
  BY <1>2, <1>3, <1>5 DEF ItemCount
<1>7. /\ sub' \in Seq(Node \cup {Comma}) /\ Len(sub') = Len(sub) + 2 /\ sub'[Len(sub')] = y
      /\ ItemCount(sub') = ItemCount(sub) + 1
      /\ CommaInFront(sub') <=> sub = << >> \/ CommaInFront(sub)
      /\ Alternating(sub') \/ CommaInFront(sub')
  <2>1. PICK S, a : S = Node \cup {Comma} /\ a = sub
    OBVIOUS
  <2>2. /\ Comma \in S /\ a \in Seq(S) /\ y \in S
        /\ Alternating(a) \/ (CommaInFront(a) /\ Len(a) % 2 = 0)
    BY <1>3, <1>4, <1>6, <2>1
  <2> QED
    BY <1>1, <1>4, <2>1, <2>2, AppendShapes
<1>8. sub = << >> <=> n = 0
  BY <1>3, <1>5 DEF ItemCount
<1>9. at' = IF CommaInFront(sub') THEN n' + Len(old) ELSE n' + Len(old) - 1
  <2>1. /\ n <= Len(old) => at = IF n = 0 \/ CommaInFront(sub) THEN 2 * n ELSE 2 * n - 1
        /\ n > Len(old) => at = IF CommaInFront(sub) THEN n + Len(old) ELSE n + Len(old) - 1
    BY <1>1, ReplaceState
  <2>2. CASE n = Len(old)
    BY <1>1, <1>2, <1>7, <1>8, <2>1, <2>2
  <2>3. CASE n > Len(old)
    BY <1>1, <1>2, <1>3, <1>7, <1>8, <2>1, <2>3
  <2> QED
    BY <1>1, <1>2, <1>3, <2>2, <2>3
<1>10. /\ n' \in Nat /\ n' <= Len(Elems) /\ ~(n' <= Len(old)) /\ ItemCount(sub') = n'
       /\ n' > 0 /\ at' \in Int /\ last' \in Node
       /\ CommaInFront(sub') => 2 * n' <= Len(sub')
  <2>1. n' \in Nat /\ n' <= Len(Elems) /\ ~(n' <= Len(old)) /\ ItemCount(sub') = n' /\ n' > 0
    BY <1>1, <1>2, <1>3, <1>5, <1>7
  <2>2. CommaInFront(sub') => 2 * n' <= Len(sub')
    BY <1>1, <1>2, <1>3, <1>7, <1>8
  <2>3. at' \in Int /\ last' \in Node
    BY <1>1, <1>2, <1>3 DEF TypeOK
  <2> QED
    BY <2>1, <2>2, <2>3
<1>11. last'.s = EmptyText /\ sub'[Len(sub')] = [last' EXCEPT !.s = NoText]
  BY <1>1, <1>7 DEF y
<1>12. TypeOK'
  BY <1>1, <1>3, <1>7, <1>10 DEF TypeOK
<1>13. Elems' = Elems /\ TypeInferred'
  BY <1>1, <1>2 DEF Elems, TypeInferred
<1>14. LoopPosition'
  BY <1>1, <1>2, <1>9, <1>10, <1>11, <1>13 DEF LoopPosition
<1>15. CallState'
  BY <1>1, <1>2, <1>3, <1>10, <1>13 DEF CallState, Loops
<1>16. CommaInFront(sub') => CommaInFront(sub) \/ old = << >>
  <2>1. sub = << >> => Len(old) = 0
    BY <1>1, <1>3, <1>8
  <2>2. Len(old) = 0 => old = << >>
    BY <1>3 DEF TypeOK
  <2> QED
    BY <1>7, <2>1, <2>2
<1> QED
  BY <1>7, <1>12, <1>14, <1>15, <1>16 DEF IInv, CommaDiscipline

LEMMA EndReplaceKeeps ==
  ASSUME IInv, EndReplace
  PROVE  Kept
<1> DEFINE short == Shrink(sub, 2 * Len(Elems) - 1)
<1>1. pc = "replace" /\ pc \in Loops /\ n = Len(Elems) /\ exprList' = exprList
      /\ ReturnWith(IF Len(Elems) < Len(old) THEN short ELSE sub, errno)
  BY DEF EndReplace, Loops
<1>2. /\ Elems # << >> /\ Len(Elems) \in Nat /\ Len(Elems) > 0 /\ Len(old) \in Nat
      /\ sub \in Seq(Node \cup {Comma}) /\ errno \in Errnos /\ exprList' \in BOOLEAN
      /\ Alternating(sub) \/ CommaInFront(sub)
  BY <1>1, LoopState, RequestType DEF IInv, CallState, TypeOK
<1>3. CASE Len(Elems) < Len(old)
  <2>1. ItemCount(sub) = Len(old)
    BY <1>1, <1>2, <1>3 DEF IInv, LoopPosition
  <2>2. Len(Elems) \in 1 .. ItemCount(sub)
    BY <1>2, <1>3, <2>1
  <2>3. /\ short \in Seq(Node \cup {Comma})
        /\ Alternating(sub) => Alternating(short)
        /\ CommaInFront(sub) => CommaInFront(short)
    BY <1>2, <2>2, ShrinkAlternates, ShrinkBent
  <2> HIDE DEF short
  <2>4. ReturnWith(short, errno)
    BY <1>1, <1>3
  <2>5. CASE Alternating(sub)
    BY <1>2, <2>3, <2>4, <2>5, ReturnKeeps
  <2>6. CASE ~Alternating(sub)
    <3>1. IInv'
      BY <1>2, <2>3, <2>4, <2>6, ReturnType
    <3>2. ~Regular
      BY <1>1, <2>6, LoopState DEF Regular
    <3> QED
      BY <2>6, <3>1, <3>2 DEF Kept
  <2> QED
    BY <2>5, <2>6
<1>4. CASE ~(Len(Elems) < Len(old))
  <2>1. ReturnWith(sub, errno)
    BY <1>1, <1>4
  <2>2. CASE Alternating(sub)
    BY <1>2, <2>1, <2>2, ReturnKeeps
  <2>3. CASE ~Alternating(sub)
    <3>1. IInv'
      BY <1>2, <2>1, <2>3, ReturnType
    <3>2. ~Regular
      BY <1>1, <2>3, LoopState DEF Regular
    <3> QED
      BY <2>3, <3>1, <3>2 DEF Kept
  <2> QED
    BY <2>2, <2>3
<1> QED
  BY <1>3, <1>4

\* The positions still to be removed.
LEMMA LocationsType ==
  ASSUME IInv, pc = "remove"
  PROVE  /\ Locations \in Seq(Elem) /\ Len(Locations) \in Nat
         /\ \A j \in 1 .. Len(Locations) : Locations[j] \in Elem
         /\ n <= Len(Locations)
<1>1. Elems \in Seq(Elem) /\ Elems # << >> /\ n <= Len(Locations)
  BY RequestType DEF IInv, CallState
<1> QED
  BY <1>1 DEF Locations

LEMMA RemovalIndexType ==
  ASSUME IInv, pc = "remove", NEW loc \in Int
  PROVE  RemovalIndex(loc) \in Int
<1>1. at \in Int /\ n \in Nat /\ Len(old) \in Nat
  BY DEF IInv, TypeOK
<1>2. AttrCount \in Int
  BY <1>1 DEF AttrCount
<1> QED
  BY <1>1, <1>2 DEF RemovalIndex

LEMMA RemoveNextKeeps ==
  ASSUME IInv, RemoveNext
  PROVE  Kept
<1> DEFINE idx == RemovalIndex(CInt(Locations[n + 1].s))
<1>1. pc = "remove" /\ pc \in Loops /\ n < Len(Locations)
  BY DEF RemoveNext, Loops
<1>2. Locations[n + 1] \in Elem /\ Locations[n + 1].kind = "int"
  BY <1>1, LocationsType, LoopState DEF RemoveNext
<1>3. idx \in Int
  BY <1>1, <1>2, RemovalIndexType, CIntType DEF Elem
<1> HIDE DEF idx
<1>4. /\ at' = idx
      /\ IF HasElt(sub, idx) /\ HasElt(sub, idx + 1)
           THEN sub' = Erase(sub, idx, 2) /\ n' = n + 1 /\ pc' = pc
           ELSE pc' = "crashed" /\ sub' = sub /\ n' = n
      /\ UNCHANGED <<exprList, errno, req, old, last>>
  BY DEF RemoveNext, idx
<1>5. CASE HasElt(sub, idx) /\ HasElt(sub, idx + 1)
  <2>1. idx \in Nat /\ idx + 2 <= Len(sub) /\ Len(sub) \in Nat
    BY <1>1, <1>3, <1>5, LoopState DEF HasElt
  <2>2. /\ sub' \in Seq(Node \cup {Comma})
        /\ Alternating(sub) => Alternating(sub')
        /\ Alternating(sub') \/ CommaInFront(sub')
    <3>1. PICK S, a : S = Node \cup {Comma} /\ a = sub
      OBVIOUS
    <3>2. a \in Seq(S) /\ idx + 2 <= Len(a) /\ (Alternating(a) \/ CommaInFront(a))
      BY <1>1, <2>1, <3>1, LoopState
    <3>3. Alternating(a) => Erase(a, idx, 2) \in Seq(S) /\ Alternating(Erase(a, idx, 2))
      BY <2>1, <3>2, ErasePair
    <3>4. CommaInFront(a) =>
            /\ Erase(a, idx, 2) \in Seq(S)
            /\ Alternating(Erase(a, idx, 2)) \/ CommaInFront(Erase(a, idx, 2))
      BY <2>1, <3>2, ErasePairInBent
    <3> QED
      BY <1>4, <1>5, <3>1, <3>2, <3>3, <3>4
  <2>3. Len(sub') = Len(sub) - 2
    BY <1>4, <1>5, <2>1 DEF Erase
  <2>4. ItemCount(sub') + n' = Len(old)
    <3>1. ItemCount(sub) + n = Len(old)
      BY <1>1 DEF IInv, LoopPosition
    <3> QED
      BY <1>1, <1>4, <1>5, <2>1, <2>3, <3>1, LoopState DEF ItemCount
  <2>5. TypeOK'
    BY <1>1, <1>3, <1>4, <1>5, <2>2, LoopState DEF TypeOK
  <2>6. Elems' = Elems /\ Locations' = Locations /\ AttrCount' = AttrCount
    BY <1>4 DEF Elems, Locations, AttrCount
  <2>7. \A j \in 1 .. Len(Locations) :
          Locations[j].kind = "int" => ~Misplaced(Locations[j])'
    BY <1>1, <2>6 DEF IInv, LoopPosition, Misplaced
  <2>8. LoopPosition'
    BY <1>1, <1>4, <1>5, <2>4, <2>6, <2>7 DEF LoopPosition, Misplaced
  <2>9. CallState'
    BY <1>1, <1>4, <1>5, <2>6, LocationsType, LoopState DEF IInv, CallState, Loops
  <2>10. Regular => Regular'
    BY <1>1, <1>4, <1>5, <2>2, LoopState DEF Regular, Live
  <2> QED
    BY <2>2, <2>5, <2>8, <2>9, <2>10 DEF Kept, IInv, CommaDiscipline
<1>6. CASE ~(HasElt(sub, idx) /\ HasElt(sub, idx + 1))
  <2>1. TypeOK'
    BY <1>1, <1>3, <1>4, <1>6, LoopState DEF TypeOK, Ended
  <2> QED
    BY <1>4, <1>6, <2>1
    DEF Kept, IInv, Regular, Live, Ended, CommaDiscipline, LoopPosition, CallState, Loops
<1> QED
  BY <1>5, <1>6

LEMMA LoopPlace == LoopTurn => pc \in Loops
  BY DEF LoopTurn, SpliceInsert, SpliceSkip, EndSplice, ReplaceTurn, ReplaceNext,
     ReplaceMissing, ReplacePastEnd, Extend, EndReplace, RemoveNext, RefuseLocation,
     EndRemoval, Loops

\* The turns that do not add to the list.
LEMMA LoopTurnKeeps ==
  ASSUME IInv, LoopTurn, ~ReplacePastEnd, ~Extend
  PROVE  Kept
<1>1. pc \in Loops
  BY LoopPlace
<1>2. CASE SpliceInsert
  BY <1>2, SpliceInsertKeeps
<1>3. CASE SpliceSkip
  BY <1>3, SpliceSkipKeeps
<1>4. CASE EndSplice
  BY <1>1, <1>4, LoopState, PlainReturnKeeps DEF EndSplice
<1>5. CASE ReplaceNext
  BY <1>5, ReplaceNextKeeps
<1>6. CASE ReplaceMissing
  BY <1>1, <1>6, LoopState, HaltKeeps DEF ReplaceMissing, Ended
<1>7. CASE EndReplace
  BY <1>7, EndReplaceKeeps
<1>8. CASE RemoveNext
  BY <1>8, RemoveNextKeeps
<1>9. CASE RefuseLocation
  BY <1>1, <1>9, LoopState, PlainReturnKeeps DEF RefuseLocation, Errnos
<1>10. CASE EndRemoval
  BY <1>1, <1>10, LoopState, PlainReturnKeeps DEF EndRemoval
<1> QED
  BY <1>2, <1>3, <1>4, <1>5, <1>6, <1>7, <1>8, <1>9, <1>10 DEF LoopTurn

LEMMA ReplacePastEndKeeps ==
  ASSUME IInv, ReplacePastEnd
  PROVE  /\ IInv'
         /\ CommaInFront(sub') => CommaInFront(sub) \/ old = << >>
<1>1. ReplaceTurn /\ pc' = "crashed" /\ sub' = Append(sub, Comma) /\ n >= Len(old)
  BY DEF ReplacePastEnd
<1>2. /\ pc \in Loops /\ TypeOK /\ sub \in Seq(Node \cup {Comma})
      /\ Alternating(sub) \/ CommaInFront(sub)
      /\ Len(old) \in Nat /\ n \in Nat
  BY <1>1, ReplaceState, LoopState
<1>3. TypeOK'
  BY <1>1, <1>2 DEF ReplacePastEnd, TypeOK, Ended
<1>4. IInv'
  BY <1>1, <1>3 DEF IInv, CommaDiscipline, LoopPosition, CallState, Loops, Ended
<1>5. ASSUME CommaInFront(sub'), ~CommaInFront(sub) PROVE old = << >>
  <2>1. sub'[1] = Comma
    BY <1>1, <1>2, <1>5 DEF CommaInFront
  <2>2. sub = << >>
    <3>1. CASE sub # << >>
      <4>1. Len(sub) >= 1 /\ 1 \in 1 .. Len(sub)
        BY <1>2, <3>1
      <4>2. sub'[1] = sub[1]
        BY <1>1, <1>2, <4>1
      <4>3. sub[1] # Comma
        BY <1>2, <1>5, <4>1 DEF Alternating
      <4> QED
        BY <2>1, <4>2, <4>3
    <3> QED
      BY <3>1
  <2>3. ItemCount(sub) = 0
    BY <2>2 DEF ItemCount
  <2>4. Len(old) = 0
    BY <1>1, <1>2, <2>3, ReplaceState
  <2> QED
    BY <1>2, <2>4 DEF TypeOK
<1> QED
  BY <1>4, <1>5

-----------------------------------------------------------------------------
(***************************************************************************)
(* The theorems.                                                           *)
(***************************************************************************)
LEMMA StutterKeeps == ASSUME IInv, UNCHANGED vars PROVE Kept
<1>1. /\ sub' = sub /\ exprList' = exprList /\ errno' = errno /\ pc' = pc
      /\ req' = req /\ old' = old /\ n' = n /\ at' = at /\ last' = last
  BY DEF vars
<1>2. TypeOK' /\ CommaDiscipline'
  BY <1>1 DEF IInv, TypeOK, CommaDiscipline
<1>3. /\ Elems' = Elems /\ TypeInferred' = TypeInferred
      /\ Locations' = Locations /\ AttrCount' = AttrCount
  BY <1>1 DEF Elems, TypeInferred, Locations, AttrCount
<1>4. LoopPosition'
  BY <1>1, <1>3 DEF IInv, LoopPosition, Misplaced
<1>5. CallState'
  BY <1>1, <1>3 DEF IInv, CallState
<1>6. Regular => Regular'
  BY <1>1 DEF Regular, Live
<1> QED
  BY <1>1, <1>2, <1>4, <1>5, <1>6 DEF Kept, IInv

\* Every step of the editor, stuttering included, keeps the invariant, and
\* all but one keep a list regular.
LEMMA MostStepsKeep ==
  ASSUME IInv, [Next]_vars, ~ReplacePastEnd, ~Extend
  PROVE  Kept
<1>1. CASE \E r \in Requests : Receive(r)
  BY <1>1, ReceiveKeeps
<1>2. CASE Dispatch
  BY <1>2, DispatchKeeps
<1>3. CASE LoopTurn
  BY <1>3, LoopTurnKeeps
<1>4. CASE UNCHANGED vars
  BY <1>4, StutterKeeps
<1> QED
  BY <1>1, <1>2, <1>3, <1>4 DEF Next

LEMMA NextKeeps == IInv /\ [Next]_vars => IInv'
<1> SUFFICES ASSUME IInv, [Next]_vars PROVE IInv'
  OBVIOUS
<1>1. CASE ReplacePastEnd
  BY <1>1, ReplacePastEndKeeps
<1>2. CASE Extend
  BY <1>2, ExtendKeeps
<1>3. CASE ~ReplacePastEnd /\ ~Extend
  BY <1>3, MostStepsKeep DEF Kept
<1> QED
  BY <1>1, <1>2, <1>3

\* The invariant holds after any sequence of calls on the list.
THEOREM Invariance == Spec => []IInv
<1>1. Init => IInv
  BY InitInv
<1> QED
  BY <1>1, NextKeeps, PTL DEF Spec

\* The variables keep their types whatever a script calls: in particular
\* what the list holds is always a node, and between calls, or while one
\* runs, no loop writes anything else into the array.
THEOREM TypeCorrect == Spec => []TypeOK
<1>1. IInv => TypeOK
  BY DEF IInv
<1> QED
  BY <1>1, Invariance, PTL

\* No call, well-formed or not, and no turn of a loop inside one, puts two
\* items or two commas side by side in a list of any length, or leaves a
\* dangling comma behind a list that starts with an item.
THEOREM CommasAlternate == Spec => []CommaDiscipline
<1>1. IInv => CommaDiscipline
  BY DEF IInv
<1> QED
  BY <1>1, Invariance, PTL

\* A list starts with a comma only from the moment that an assignment to a
\* list without items adds the first: no other call, and no other turn of a
\* loop, puts a comma in front of a list of any length.
THEOREM CommasComeInFrontOnce == Spec => CommaInFrontFromNothing
<1>1. IInv /\ [Next]_vars
        => [CommaInFront(sub') => CommaInFront(sub) \/ (pc = "replace" /\ old = << >>)]_vars
  <2> SUFFICES ASSUME IInv, [Next]_vars, CommaInFront(sub'), ~CommaInFront(sub),
                      ~UNCHANGED vars
               PROVE  pc = "replace" /\ old = << >>
    OBVIOUS
  <2>1. CASE ReplacePastEnd
    BY <2>1, ReplacePastEndKeeps, ReplaceState DEF ReplacePastEnd
  <2>2. CASE Extend
    BY <2>2, ExtendKeeps, ReplaceState DEF Extend
  <2>3. CASE ~ReplacePastEnd /\ ~Extend
    <3>1. Kept
      BY <2>3, MostStepsKeep
    <3>2. pc \notin Ended
      BY DispatchPlace, LoopPlace DEF Next, Receive, Ended, Loops
    <3>3. Alternating(sub) /\ sub' \in Seq(Node \cup {Comma})
      <4>1. Alternating(sub)
        BY <3>2 DEF IInv, CommaDiscipline
      <4>2. TypeOK'
        BY <3>1 DEF IInv, Kept
      <4> QED
        BY <4>1, <4>2 DEF TypeOK
    <3>4. ~CommaInFront(sub')
      BY <3>1, <3>3, SlotsOfAlternating DEF Kept
    <3> QED
      BY <3>4
  <2> QED
    BY <2>1, <2>2, <2>3
<1> QED
  BY <1>1, Invariance, PTL DEF Spec, CommaInFrontFromNothing

\* The index arithmetic of the loops: where the replacing loop stands after
\* n elements, how many items it has added, and how many the removing loop
\* has left.
THEOREM LoopsKeepPosition == Spec => []LoopPosition
<1>1. IInv => LoopPosition
  BY DEF IInv
<1> QED
  BY <1>1, Invariance, PTL

\* A step that returns one of the refusing errors leaves the items the call
\* found: it is taken at the dispatch, or the loop it ends reports another.
LEMMA RefusingStep ==
  ASSUME IInv, Next, pc' = "idle",
         errno' \in {"ENOT_IMPLEMENTED", "EUNEXPECTED_STATE",
                    "EINVALID_ARG", "ESUNLARK_INVALID_ARG"}
  PROVE  Slots(sub') = old
<1>1. CASE \E r \in Requests : Receive(r)
  BY <1>1 DEF Receive
<1>2. CASE Dispatch
  <2>1. pc = "dispatch"
    BY <1>2, DispatchPlace
  <2>2. errno \in LoopErrnos /\ Slots(sub) = old
    BY <2>1, DispatchState
  <2>3. errno' # errno /\ errno' # "OK" /\ errno' # "ENOT_A_KW"
    BY <2>2 DEF LoopErrnos
  <2>4. sub' = sub
    BY <1>2, <2>3
    DEF Dispatch, ClearAll, RefuseStep, StringNotFound, NoExprList, RefuseProcedure,
        ItemMissing, RefuseValue, ReplaceItem, ExitOnStringNode, DeleteItem, IgnoreValue,
        BeginSplice, AssignNonList, AssignEmpty, RefuseAssign, BeginReplace, RefuseRemoval,
        BeginRemoval, LookupAstray, CarCrash, CarIgnored, CarSetInt, CarErrno,
        Return, ReturnWith, Halt
  <2> QED
    BY <2>2, <2>4
<1>3. CASE LoopTurn
  <2>1. pc \in Loops /\ errno \in LoopErrnos
    BY <1>3, LoopPlace, LoopState
  <2>2. errno' # errno
    BY <2>1 DEF LoopErrnos
  <2>3. RefuseLocation
    BY <1>3, <2>1, <2>2
    DEF LoopTurn, SpliceInsert, SpliceSkip, EndSplice, ReplaceNext, ReplaceMissing,
        ReplacePastEnd, Extend, EndReplace, RemoveNext, EndRemoval, Return, ReturnWith,
        Halt, Loops, LoopErrnos
  <2>4. pc = "remove" /\ n < Len(Locations) /\ n \in Nat
    BY <2>1, <2>3, LoopState DEF RefuseLocation
  <2>5. n + 1 \in 1 .. Len(Locations)
    BY <2>4, LocationsType
  <2>6. Locations[n + 1].kind = "int" => ~Misplaced(Locations[n + 1])
    BY <2>4, <2>5 DEF IInv, LoopPosition
  <2> QED
    BY <2>3, <2>6 DEF RefuseLocation, Return, ReturnWith
<1> QED
  BY <1>1, <1>2, <1>3 DEF Next

\* A call refused with one of these errors has changed no item, whatever
\* positions or elements it was given.
THEOREM RefusalsAreAtomic == Spec => RefusalChangesNothing
<1>1. IInv /\ [Next]_vars
        => [pc' = "idle" /\ errno' \in {"ENOT_IMPLEMENTED", "EUNEXPECTED_STATE",
                                       "EINVALID_ARG", "ESUNLARK_INVALID_ARG"}
              => Slots(sub') = old]_vars
  BY RefusingStep
<1> QED
  BY <1>1, Invariance, PTL DEF Spec, RefusalChangesNothing

-----------------------------------------------------------------------------
(***************************************************************************)
(* What is known of a regular list.                                        *)
(***************************************************************************)
RInv == IInv /\ Regular

LEMMA AtDispatch ==
  ASSUME RInv, pc = "dispatch"
  PROVE  /\ TypeOK /\ Live
         /\ Alternating(sub) /\ sub \in Seq(Node \cup {Comma})
         /\ errno \in LoopErrnos /\ errno \in Errnos
         /\ old = Items(sub) /\ old \in Seq(Node) /\ Len(old) = ItemCount(sub)
         /\ n = 0 /\ at = 0
<1>1. Alternating(sub)
  BY DispatchState DEF RInv, Regular
<1> QED
  BY <1>1, DispatchState, SlotsOfAlternating DEF RInv

LEMMA InLoop ==
  ASSUME RInv, pc \in Loops
  PROVE  /\ TypeOK /\ Live
         /\ Alternating(sub) /\ sub \in Seq(Node \cup {Comma})
         /\ errno \in LoopErrnos /\ errno \in Errnos
         /\ old \in Seq(Node) /\ Len(old) \in Nat /\ n \in Nat
  BY LoopState DEF RInv, Regular

-----------------------------------------------------------------------------
(***************************************************************************)
(* The item and the type that ItemList names are those the code finds.     *)
(***************************************************************************)

\* What the list holds at the dispatch is what the call found.
LEMMA Found ==
  ASSUME RInv, pc = "dispatch"
  PROVE  /\ old = Items(sub) /\ old \in Seq(Node)
         /\ Len(old) = ItemCount(sub) /\ Len(old) \in Nat
         /\ \A k \in 0 .. Len(old) - 1 : old[k + 1] = EltAt(sub, 2 * k)
<1>1. /\ old = Items(sub) /\ old \in Seq(Node)
      /\ Len(old) = ItemCount(sub) /\ Len(old) \in Nat
  BY AtDispatch DEF TypeOK
<1>2. ASSUME NEW k \in 0 .. Len(old) - 1 PROVE old[k + 1] = EltAt(sub, 2 * k)
  <2>1. k + 1 \in 1 .. ItemCount(sub) /\ 2 * (k + 1) - 1 = 2 * k + 1
    BY <1>1, <1>2
  <2> QED
    BY <1>1, <2>1 DEF Items, EltAt
<1> QED
  BY <1>1, <1>2

\* The string that ItemList looks up among the items, the code looks up in
\* the array: the first of them is the same.
LEMMA StringNames ==
  ASSUME RInv, pc = "dispatch", StepKind = "str"
  PROVE  ItemNamed(req.step, old) =
           IF PositionsOf(req.step.s) = {} THEN Len(old) ELSE FirstPosition(req.step.s)
<1> DEFINE x == [tid |-> "STRING", s |-> req.step.s]
           found == {k \in 1 .. Len(old) : old[k] = x}
           P == PositionsOf(req.step.s)
           c == FirstPosition(req.step.s)
<1>1. Len(old) = ItemCount(sub) /\ Len(old) \in Nat
      /\ \A k \in 0 .. Len(old) - 1 : old[k + 1] = EltAt(sub, 2 * k)
  BY Found
<1>2. ItemNamed(req.step, old) =
        IF found = {} THEN Len(old) ELSE (CHOOSE k \in found : \A j \in found : k <= j) - 1
  BY DEF ItemNamed, StepKind
<1>3. P = {k \in 0 .. Len(old) - 1 : EltAt(sub, 2 * k) = x}
  BY <1>1 DEF PositionsOf
<1> HIDE DEF P, c
<1>4. ASSUME NEW k \in P PROVE k + 1 \in found
  BY <1>1, <1>3, <1>4
<1>5. ASSUME NEW k \in found PROVE k - 1 \in P
  <2>1. k - 1 \in 0 .. Len(old) - 1 /\ (k - 1) + 1 = k
    BY <1>1, <1>5
  <2> QED
    BY <1>1, <1>3, <1>5, <2>1
<1>6. found = {} <=> P = {}
  <2> HIDE DEF found
  <2> QED
    BY <1>4, <1>5
<1>7. CASE P # {}
  <2>1. P \in SUBSET Nat /\ found \in SUBSET Nat
    BY <1>1, <1>3
  <2>2. c \in P /\ \A j \in P : c <= j
    <3>1. c = CHOOSE k \in P : \A j \in P : k <= j
      BY <1>7, Zenon DEF FirstPosition, P, c
    <3> QED
      BY <1>7, <2>1, <3>1, LeastElement
  <2>3. c + 1 \in found /\ c \in Nat
    BY <1>4, <2>1, <2>2
  <2>4. \A j \in found : c + 1 <= j
    <3> SUFFICES ASSUME NEW j \in found PROVE c + 1 <= j
      OBVIOUS
    <3>1. c <= j - 1 /\ j \in Nat
      BY <1>5, <2>1, <2>2
    <3> HIDE DEF found
    <3> QED
      BY <2>3, <3>1
  <2> HIDE DEF found
  <2> DEFINE l == CHOOSE k \in found : \A j \in found : k <= j
  <2>5. l = c + 1
    BY <2>1, <2>3, <2>4, LeastIs
  <2>6. ItemNamed(req.step, old) = l - 1
    BY <1>2, <1>6, <1>7
  <2> HIDE DEF l
  <2>7. ItemNamed(req.step, old) = c
    BY <2>3, <2>5, <2>6
  <2> QED
    BY <1>7, <2>7, Zenon DEF P, c
<1> QED
  BY <1>2, <1>6, <1>7 DEF P

\* The type the code infers from the array is that of the items.
LEMMA TypesAgree ==
  ASSUME NEW a \in Seq(Node \cup {Comma}), Alternating(a)
  PROVE  VecType(a) = TypeOf(Items(a))
<1> DEFINE typed == {i \in 1 .. Len(a) : a[i] # Comma /\ a[i].tid # "ID"}
           s == Items(a)
           constants == {k \in 1 .. Len(s) : s[k].tid # "ID"}
<1>1. /\ ItemCount(a) \in Nat /\ (a = << >> <=> ItemCount(a) = 0)
      /\ (a # << >> => Len(a) = 2 * ItemCount(a) - 1)
  BY AlternatingLength
<1>2. Len(s) = ItemCount(a) /\ \A k \in 1 .. ItemCount(a) : s[k] = a[2 * k - 1]
  <2>1. Len(s) = ItemCount(a)
    BY ItemsType, Zenon
  <2> QED
    BY <2>1 DEF Items
<1>3. VecType(a) = IF typed = {} THEN "none"
                   ELSE a[CHOOSE i \in typed : \A j \in typed : i <= j].tid
  BY DEF VecType
<1>4. TypeOf(s) = IF constants = {} THEN "none"
                  ELSE s[CHOOSE k \in constants : \A j \in constants : k <= j].tid
  BY DEF TypeOf
<1> HIDE DEF s
<1>5. ASSUME NEW k \in constants
      PROVE  2 * k - 1 \in typed /\ a[2 * k - 1] = s[k]
  <2>1. 2 * k - 1 \in 1 .. Len(a) /\ (2 * k - 1) % 2 = 1
    BY <1>1, <1>2
  <2> QED
    BY <1>2, <2>1 DEF Alternating
<1>6. ASSUME NEW i \in typed PROVE \E k \in constants : i = 2 * k - 1
  <2>1. i % 2 = 1
    BY DEF Alternating
  <2>2. PICK k \in 1 .. ItemCount(a) : i = 2 * k - 1
    <3>1. (i + 1) \div 2 \in 1 .. ItemCount(a) /\ i = 2 * ((i + 1) \div 2) - 1
      BY <1>1, <2>1
    <3> QED
      BY <3>1
  <2> QED
    BY <1>2, <2>2
<1>7. constants \in SUBSET Nat /\ typed \in SUBSET Nat
  BY <1>1, <1>2
<1> HIDE DEF constants, typed
<1>8. CASE constants # {}
  <2>1. PICK c \in constants : \A j \in constants : c <= j
    BY <1>7, <1>8, LeastElement
  <2>2. 2 * c - 1 \in typed /\ a[2 * c - 1] = s[c]
    BY <1>5
  <2>3. ASSUME NEW j \in typed PROVE 2 * c - 1 <= j
    <3>1. PICK k \in constants : j = 2 * k - 1
      BY <1>6
    <3>2. c <= k /\ c \in Nat /\ k \in Nat
      BY <1>7, <2>1
    <3> QED
      BY <3>1, <3>2
  <2>4. (CHOOSE i \in typed : \A j \in typed : i <= j) = 2 * c - 1
    BY <1>7, <2>2, <2>3, LeastIs
  <2>5. (CHOOSE k \in constants : \A j \in constants : k <= j) = c
    BY <1>7, <2>1, LeastIs
  <2> QED
    BY <1>3, <1>4, <1>8, <2>2, <2>4, <2>5 DEF s
<1>9. CASE constants = {}
  BY <1>3, <1>4, <1>6, <1>9 DEF s
<1> QED
  BY <1>8, <1>9

\* The position of the code is the number of the item the step names.
LEMMA PositionNames ==
  ASSUME RInv, ItemCall, FitsInt(req.step), NEW k, k = ItemNamed(req.step, old)
  PROVE  /\ Position \in 0 .. Len(old) - 1 <=> k \in 0 .. Len(old) - 1
         /\ Position \in 0 .. Len(old) - 1 => k = Position
<1>1. pc = "dispatch"
  BY DEF ItemCall
<1>2. Len(old) = ItemCount(sub) /\ Len(old) \in Nat
  BY <1>1, Found
<1>3. CASE StepKind = "str"
  <2>1. PositionsOf(req.step.s) # {}
    BY <1>3 DEF ItemCall, IsIndex, StepKind
  <2>2. k = FirstPosition(req.step.s)
    BY <1>1, <1>3, <2>1, StringNames
  <2>3. FirstPosition(req.step.s) \in 0 .. ItemCount(sub) - 1
    <3>1. PositionsOf(req.step.s) \in SUBSET Nat
          /\ PositionsOf(req.step.s) \subseteq 0 .. ItemCount(sub) - 1
      BY <1>2 DEF PositionsOf
    <3> QED
      BY <2>1, <3>1, LeastElement DEF FirstPosition
  <2>4. Position = k
    BY <1>2, <1>3, <2>2, <2>3 DEF Position, Index, Normalize
  <2> QED
    BY <2>4
<1>4. CASE StepKind # "str"
  <2>1. req.step.n \in Int /\ IsIndex(req.step)
    BY <1>4, RequestType DEF RInv, IInv, Step, ItemCall
  <2>2. k = IndexNamed(req.step, Len(old))
    BY <1>4 DEF ItemNamed, StepKind
  <2>3. Position = Normalize(Len(old), KwIndex(req.step))
    BY <1>2, <1>4 DEF Position, Index
  <2> QED
    BY <1>2, <2>1, <2>2, <2>3, NumberNames
<1> QED
  BY <1>3, <1>4

-----------------------------------------------------------------------------
(***************************************************************************)
(* What the edit of a call comes to.                                       *)
(***************************************************************************)
Promised == Applied(EditOf(req, old), old)

\* The items the value stands for, if it is a list or a vector.
New == [i \in DOMAIN Elems |-> ItemOf(Elems[i])]

LEMMA NewType ==
  ASSUME RInv
  PROVE  New \in Seq(Node) /\ Len(New) = Len(Elems) /\ Len(Elems) \in Nat
         /\ \A i \in 1 .. Len(Elems) : New[i] = ItemOf(Elems[i]) /\ New[i] \in Node
<1>1. /\ Elems \in Seq(Elem) /\ Len(Elems) \in Nat /\ DOMAIN Elems = 1 .. Len(Elems)
      /\ \A i \in 1 .. Len(Elems) : Elems[i] \in Elem
  BY RequestType DEF RInv, IInv
<1>2. \A i \in 1 .. Len(Elems) : ItemOf(Elems[i]) \in Node
  BY <1>1, ItemOfType
<1> QED
  BY <1>1, <1>2 DEF New

\* A call on one of the items.
LEMMA PromisedOfItem ==
  ASSUME RInv, pc = "dispatch", StepKind \notin {"nil", "star"},
         NEW k, k = ItemNamed(req.step, old)
  PROVE  /\ k \notin 0 .. Len(old) - 1 => Promised = old
         /\ k \in 0 .. Len(old) - 1 =>
              /\ Val.kind = "null" => Promised = RemoveAt(old, k + 1)
              /\ Val.kind = "sym"
                   => Promised = [old EXCEPT ![k + 1] = [tid |-> "ID", s |-> Val.s]]
              /\ Val.kind = "str" /\ TypeOf(old) = "STRING"
                   => Promised = [old EXCEPT ![k + 1] = [tid |-> "STRING", s |-> Val.s]]
              /\ Val.kind = "int" /\ TypeOf(old) = "INT"
                   => Promised = [old EXCEPT ![k + 1] = [tid |-> "INT", s |-> Val.s]]
              /\ Val.kind = "list" => Promised = Around(old, k, New)
              /\ Val.kind = "vector" => Promised = Around(old, k + 1, New)
              /\ Val.kind \in {"kw", "strnode", "node", "proc", "bool"} => Promised = old
              /\ Val.kind = "str" /\ TypeOf(old) # "STRING" => Promised = old
              /\ Val.kind = "int" /\ TypeOf(old) # "INT" => Promised = old
<1> DEFINE e == EditOf(req, old)
           E(op, items) == [op |-> op, at |-> {k}, new |-> items]
           Set(tid) == E("replace", <<[tid |-> tid, s |-> Val.s]>>)
<1>1. old \in Seq(Node) /\ Len(old) \in Nat
  BY Found
<1>2. e = EditOfItem(req, old)
  BY DEF EditOf, StepKind
<1>3. k \notin 0 .. Len(old) - 1 => e = E("refused", << >>)
  BY <1>2 DEF EditOfItem
<1>4. ASSUME k \in 0 .. Len(old) - 1
      PROVE  /\ Val.kind = "null" => e = E("drop", << >>)
             /\ Val.kind = "sym" => e = Set("ID")
             /\ Val.kind = "str" /\ TypeOf(old) = "STRING" => e = Set("STRING")
             /\ Val.kind = "int" /\ TypeOf(old) = "INT" => e = Set("INT")
             /\ Val.kind = "list" => e = E("before", New)
             /\ Val.kind = "vector" => e = E("after", New)
             /\ Val.kind \in {"kw", "strnode", "node", "proc", "bool"} => e = E("refused", << >>)
             /\ Val.kind = "str" /\ TypeOf(old) # "STRING" => e = E("refused", << >>)
             /\ Val.kind = "int" /\ TypeOf(old) # "INT" => e = E("refused", << >>)
  <2> DEFINE f == EditOfItem(req, old)
  <2>1. Val.kind = "null" => f = E("drop", << >>)
    BY <1>4 DEF EditOfItem, Val
  <2>2. Val.kind = "sym" => f = Set("ID")
    BY <1>4 DEF EditOfItem, Val
  <2>3. Val.kind = "str" /\ TypeOf(old) = "STRING" => f = Set("STRING")
    BY <1>4 DEF EditOfItem, Val
  <2>4. Val.kind = "int" /\ TypeOf(old) = "INT" => f = Set("INT")
    BY <1>4 DEF EditOfItem, Val
  <2>5. Val.kind = "list" => f = E("before", New)
    BY <1>4 DEF EditOfItem, Val, New, Elems
  <2>6. Val.kind = "vector" => f = E("after", New)
    BY <1>4 DEF EditOfItem, Val, New, Elems
  <2>7. Val.kind \in {"kw", "strnode", "node", "proc", "bool"} => f = E("refused", << >>)
    BY <1>4 DEF EditOfItem, Val
  <2>8. Val.kind = "str" /\ TypeOf(old) # "STRING" => f = E("refused", << >>)
    BY <1>4 DEF EditOfItem, Val
  <2>9. Val.kind = "int" /\ TypeOf(old) # "INT" => f = E("refused", << >>)
    BY <1>4 DEF EditOfItem, Val
  <2> HIDE DEF f, e, E
  <2>10. e = f
    BY <1>2 DEF f
  <2> QED
    BY <2>1, <2>2, <2>3, <2>4, <2>5, <2>6, <2>7, <2>8, <2>9, <2>10
<1>5. Applied(E("refused", << >>), old) = old
  BY RefusedEdit
<1>6. ASSUME k \in 0 .. Len(old) - 1
      PROVE  /\ Applied(E("drop", << >>), old) = RemoveAt(old, k + 1)
             /\ \A tid : Applied(Set(tid), old)
                           = [old EXCEPT ![k + 1] = [tid |-> tid, s |-> Val.s]]
             /\ Applied(E("before", New), old) = Around(old, k, New)
             /\ Applied(E("after", New), old) = Around(old, k + 1, New)
  <2>1. k \in Int /\ k + 1 \in 1 .. Len(old) /\ (k + 1) - 1 = k
    BY <1>1, <1>6
  <2>2. Applied(E("before", New), old) = Around(old, k, New)
    BY <2>1, BeforeEdit
  <2>3. Applied(E("after", New), old) = Around(old, k + 1, New)
    BY <2>1, AfterEdit
  <2>4. Applied([op |-> "drop", at |-> {(k + 1) - 1}, new |-> << >>], old) = RemoveAt(old, k + 1)
    BY <1>1, <2>1, DropEdit
  <2>5. \A x : Applied([op |-> "replace", at |-> {(k + 1) - 1}, new |-> <<x>>], old)
                 = [old EXCEPT ![k + 1] = x]
    BY <1>1, <2>1, ReplaceEdit
  <2> QED
    BY <2>1, <2>2, <2>3, <2>4, <2>5
<1> HIDE DEF e, E
<1>7. Promised = Applied(e, old)
  BY DEF Promised, e
<1> QED
  BY <1>3, <1>4, <1>5, <1>6, <1>7

\* A call on a step that names no item, and one on :*.
LEMMA PromisedOfOther ==
  /\ StepKind = "star" => Promised = << >>
  /\ RInv /\ pc = "dispatch" /\ StepKind \in {"sym", "kw"} => Promised = old
<1>1. StepKind = "star" => Promised = << >>
  BY AssignEdit DEF Promised, EditOf, StepKind
<1>2. ASSUME RInv, pc = "dispatch", StepKind \in {"sym", "kw"} PROVE Promised = old
  <2>1. ItemNamed(req.step, old) = Len(old)
    BY <1>2 DEF ItemNamed, IndexNamed, StepKind
  <2>2. Len(old) \in Nat
    BY <1>2, Found
  <2>3. Len(old) \notin 0 .. Len(old) - 1
    BY <2>2
  <2> QED
    BY <1>2, <2>1, <2>3, PromisedOfItem
<1> QED
  BY <1>1, <1>2

\* The positions a removal gives.
Removed == {Given(Elems[i], old) : i \in 2 .. Len(Elems)}

\* A call on the whole list.
LEMMA PromisedOfList ==
  ASSUME StepKind = "nil"
  PROVE  /\ ~IsRemoval => Promised = New
         /\ IsRemoval /\ Removed \subseteq 0 .. Len(old) - 1
              => Promised = Selected(old, {k \in 1 .. Len(old) : k - 1 \notin Removed})
         /\ IsRemoval /\ ~(Removed \subseteq 0 .. Len(old) - 1) => Promised = old
<1>1. EditOf(req, old) = EditOfList(req, old)
  BY DEF EditOf, StepKind
<1>2. ~IsRemoval => EditOfList(req, old) = [op |-> "assign", at |-> {}, new |-> New]
  BY DEF EditOfList, IsRemoval, New, Elems
<1>3. IsRemoval /\ Removed \subseteq 0 .. Len(old) - 1
        => EditOfList(req, old) = [op |-> "drop", at |-> Removed, new |-> << >>]
  BY DEF EditOfList, IsRemoval, Removed, Elems
<1>4. IsRemoval /\ ~(Removed \subseteq 0 .. Len(old) - 1)
        => EditOfList(req, old) = [op |-> "refused", at |-> {}, new |-> << >>]
  BY DEF EditOfList, IsRemoval, Removed, Elems
<1>5. Applied([op |-> "drop", at |-> Removed, new |-> << >>], old)
        = Selected(old, {k \in 1 .. Len(old) : k - 1 \notin Removed})
  BY DEF Applied, Without
<1> QED
  BY <1>1, <1>2, <1>3, <1>4, <1>5, AssignEdit, RefusedEdit DEF Promised

-----------------------------------------------------------------------------
(***************************************************************************)
(* What the edits of the array do to the items.                            *)
(***************************************************************************)
LEMMA ItemsRemoved ==
  ASSUME NEW X, NEW s \in Seq(X), NEW d \in 1 .. Len(s), NEW r,
         ItemCount(r) = Len(s) - 1,
         \A i \in 1 .. Len(s) - 1 : Items(r)[i] = IF i <= d - 1 THEN s[i] ELSE s[i + 1]
  PROVE  Items(r) = RemoveAt(s, d)
<1> DEFINE q == RemoveAt(s, d)
<1>1. /\ q \in Seq(X) /\ Len(q) = Len(s) - 1
      /\ \A i \in 1 .. Len(s) - 1 : q[i] = IF i < d THEN s[i] ELSE s[i + 1]
  BY RemoveAtType
<1> HIDE DEF q
<1>2. ASSUME NEW i \in 1 .. Len(s) - 1 PROVE Items(r)[i] = q[i]
  <2>1. i <= d - 1 <=> i < d
    OBVIOUS
  <2> QED
    BY <1>1, <2>1
<1>3. Items(r) = [i \in 1 .. Len(s) - 1 |-> Items(r)[i]]
  BY DEF Items
<1>4. q = [i \in 1 .. Len(s) - 1 |-> q[i]]
  BY <1>1
<1>5. Items(r) = q
  BY <1>2, <1>3, <1>4
<1> QED
  BY <1>5 DEF q

LEMMA ItemsInserted ==
  ASSUME NEW X, NEW s \in Seq(X), NEW d \in 1 .. Len(s) + 1, NEW x \in X, NEW r,
         ItemCount(r) = Len(s) + 1,
         \A i \in 1 .. Len(s) + 1 :
           Items(r)[i] = IF i <= d - 1 THEN s[i] ELSE IF i = d THEN x ELSE s[i - 1]
  PROVE  Items(r) = InsertAt(s, d, x)
<1> DEFINE q == InsertAt(s, d, x)
<1>1. /\ q \in Seq(X) /\ Len(q) = Len(s) + 1
      /\ \A i \in 1 .. Len(s) + 1 :
           q[i] = IF i < d THEN s[i] ELSE IF i = d THEN x ELSE s[i - 1]
  BY InsertAtType
<1> HIDE DEF q
<1>2. ASSUME NEW i \in 1 .. Len(s) + 1 PROVE Items(r)[i] = q[i]
  <2>1. i <= d - 1 <=> i < d
    OBVIOUS
  <2> QED
    BY <1>1, <2>1
<1>3. Items(r) = [i \in 1 .. Len(s) + 1 |-> Items(r)[i]]
  BY DEF Items
<1>4. q = [i \in 1 .. Len(s) + 1 |-> q[i]]
  BY <1>1
<1>5. Items(r) = q
  BY <1>2, <1>3, <1>4
<1> QED
  BY <1>5 DEF q

\* The items of the arrays the dispatch makes.
LEMMA DispatchItems ==
  ASSUME RInv, pc = "dispatch", NEW k \in 0 .. Len(old) - 1
  PROVE  /\ Items(RemoveItem(sub, k)) = RemoveAt(old, k + 1)
         /\ \A x : Items(SetItem(sub, k, x)) = [old EXCEPT ![k + 1] = x]
<1>1. /\ old = Items(sub) /\ old \in Seq(Node)
      /\ Len(old) = ItemCount(sub) /\ Len(old) \in Nat
  BY Found
<1>2. PICK S, a : S = Node \cup {Comma} /\ a = sub
  OBVIOUS
<1>3. a \in Seq(S) /\ Alternating(a) /\ k \in 0 .. ItemCount(a) - 1
  BY <1>1, <1>2, AtDispatch
<1>4. /\ ItemCount(RemoveItem(a, k)) = ItemCount(a) - 1
      /\ \A i \in 1 .. ItemCount(a) - 1 :
           Items(RemoveItem(a, k))[i] = IF i <= k THEN Items(a)[i] ELSE Items(a)[i + 1]
  BY <1>3, RemoveItemItems
<1>5. Items(RemoveItem(a, k)) = RemoveAt(old, k + 1)
  <2>1. k + 1 \in 1 .. Len(old) /\ (k + 1) - 1 = k
    BY <1>1
  <2>2. PICK r, d : r = RemoveItem(a, k) /\ d = k + 1
    OBVIOUS
  <2>3. /\ ItemCount(r) = Len(old) - 1
        /\ \A i \in 1 .. Len(old) - 1 : Items(r)[i] = IF i <= d - 1 THEN old[i] ELSE old[i + 1]
    BY <1>1, <1>2, <1>4, <2>1, <2>2
  <2> QED
    BY <1>1, <2>1, <2>2, <2>3, ItemsRemoved
<1>6. \A x : Items(SetItem(a, k, x)) = [Items(a) EXCEPT ![k + 1] = x]
  BY <1>3, SetItemItems
<1> QED
  BY <1>1, <1>2, <1>5, <1>6

-----------------------------------------------------------------------------
(***************************************************************************)
(* What well-formed calls have done at each turn of their loop.            *)
(***************************************************************************)

\* A splice has put in the first n of the new items.
Splicing ==
  /\ StepKind # "nil" /\ Val.kind \in {"list", "vector"}
  /\ at \in 0 .. Len(old)
  /\ n <= Len(Elems)
  /\ Promised = Around(old, at, New)
  /\ Items(sub) = Around(old, at, SubSeq(New, 1, n))

\* A replacement has written the first n of the new items over the old ones.
Replacing ==
  /\ StepKind = "nil" /\ ~IsRemoval
  /\ Promised = New
  /\ Len(Elems) <= Len(old)
  /\ \A i \in 1 .. n : Items(sub)[i] = New[i]

\* The places of the items that the first i positions of a removal spare.
Spared(i) == {q \in 1 .. Len(old) : \A j \in 2 .. i + 1 : Given(Elems[j], old) # q - 1}

\* A removal has taken the items at the first n positions.  They all are on
\* the left of the others it is to take, which have moved by n.
Removing ==
  /\ StepKind = "nil" /\ IsRemoval
  /\ Items(sub) = Selected(old, Spared(n))
  /\ \A q \in 1 .. Len(old) :
       (\A j \in 2 .. n + 1 : Given(Elems[j], old) < q - 1) => CountTo(Spared(n), q) = q - n

\* The inductive invariant of well-formed calls.
AsAsked ==
  /\ exprList
  /\ pc \in {"idle", "dispatch"} \cup Loops
  /\ pc # "idle" => WellFormed(req, old)
  /\ pc = "splice" => Splicing
  /\ pc = "replace" => Replacing
  /\ pc = "remove" => Removing

Done == pc' = "idle" /\ exprList' /\ Items(sub') = Promised

-----------------------------------------------------------------------------
(***************************************************************************)
(* The dispatch.                                                           *)
(***************************************************************************)
LEMMA ReturnDone ==
  ASSUME RInv, AsAsked, pc = "dispatch", NEW e, Return(e), Promised = old
  PROVE  Done
  BY Found DEF Return, ReturnWith, Done, AsAsked

\* A call on an item begins a splice or ends as promised.
LEMMA ItemRefines ==
  ASSUME RInv, AsAsked,
         RefuseProcedure \/ ItemMissing \/ RefuseValue \/ ReplaceItem \/ ExitOnStringNode
           \/ DeleteItem \/ IgnoreValue \/ BeginSplice
  PROVE  \/ Done
         \/ /\ pc' = "splice"
            /\ UNCHANGED <<sub, exprList, req, old, n>>
            /\ StepKind # "nil" /\ Val.kind \in {"list", "vector"}
            /\ at' \in 0 .. Len(old)
            /\ Promised = Around(old, at', New)
<1> DEFINE k == ItemNamed(req.step, old)
           p == Position
<1>1. pc = "dispatch" /\ ItemCall /\ StepKind \notin {"nil", "star"}
  BY DEF RefuseProcedure, ItemMissing, RefuseValue, ReplaceItem, ExitOnStringNode,
     DeleteItem, IgnoreValue, BeginSplice, ItemFound, ItemCall, IsIndex, StepKind
<1>2. Len(old) = ItemCount(sub) /\ Len(old) \in Nat /\ old = Items(sub)
  BY <1>1, Found
<1>3. FitsInt(req.step) /\ Val.kind # "strnode"
  BY <1>1 DEF AsAsked, WellFormed, WellFormedItem, StepKind, Val
<1>4. /\ p \in 0 .. Len(old) - 1 <=> k \in 0 .. Len(old) - 1
      /\ p \in 0 .. Len(old) - 1 => k = p
  BY <1>1, <1>3, PositionNames
<1>5. /\ k \notin 0 .. Len(old) - 1 => Promised = old
      /\ k \in 0 .. Len(old) - 1 =>
              /\ Val.kind = "null" => Promised = RemoveAt(old, k + 1)
              /\ Val.kind = "sym"
                   => Promised = [old EXCEPT ![k + 1] = [tid |-> "ID", s |-> Val.s]]
              /\ Val.kind = "str" /\ TypeOf(old) = "STRING"
                   => Promised = [old EXCEPT ![k + 1] = [tid |-> "STRING", s |-> Val.s]]
              /\ Val.kind = "int" /\ TypeOf(old) = "INT"
                   => Promised = [old EXCEPT ![k + 1] = [tid |-> "INT", s |-> Val.s]]
              /\ Val.kind = "list" => Promised = Around(old, k, New)
              /\ Val.kind = "vector" => Promised = Around(old, k + 1, New)
              /\ Val.kind \in {"kw", "strnode", "node", "proc", "bool"} => Promised = old
              /\ Val.kind = "str" /\ TypeOf(old) # "STRING" => Promised = old
              /\ Val.kind = "int" /\ TypeOf(old) # "INT" => Promised = old
  BY <1>1, PromisedOfItem
<1>6. VecType(sub) = TypeOf(old)
  BY <1>1, <1>2, AtDispatch, TypesAgree
<1> HIDE DEF k
<1>7. CASE RefuseProcedure
  BY <1>1, <1>5, <1>7, ReturnDone DEF RefuseProcedure
<1>8. CASE ItemMissing
  <2>1. Promised = old
    BY <1>2, <1>4, <1>5, <1>8 DEF ItemMissing
  <2> QED
    BY <1>1, <1>8, <2>1, ReturnDone DEF ItemMissing
<1>9. CASE RefuseValue
  <2>1. Promised = old
    BY <1>2, <1>4, <1>5, <1>6, <1>9 DEF RefuseValue, TypeFits
  <2> QED
    BY <1>1, <1>9, <2>1, ReturnDone DEF RefuseValue
<1>10. CASE ReplaceItem
  <2>1. p \in 0 .. Len(old) - 1 /\ k = p
    BY <1>2, <1>4, <1>10 DEF ReplaceItem, ItemFound
  <2>2. Promised = [old EXCEPT ![p + 1] = NewItem]
    BY <1>3, <1>5, <1>6, <1>10, <2>1 DEF ReplaceItem, TypeFits, NewItem
  <2>3. Items(SetItem(sub, p, NewItem)) = Promised
    BY <1>1, <2>1, <2>2, DispatchItems
  <2> QED
    BY <1>10, <2>3 DEF ReplaceItem, ReturnWith, Done, AsAsked
<1>11. CASE ExitOnStringNode
  BY <1>3, <1>11 DEF ExitOnStringNode
<1>12. CASE DeleteItem
  <2>1. p \in 0 .. Len(old) - 1 /\ k = p
    BY <1>2, <1>4, <1>12 DEF DeleteItem, ItemFound
  <2>2. Promised = RemoveAt(old, p + 1)
    BY <1>5, <1>12, <2>1 DEF DeleteItem
  <2>3. Items(RemoveItem(sub, p)) = Promised
    BY <1>1, <2>1, <2>2, DispatchItems
  <2> QED
    BY <1>12, <2>3 DEF DeleteItem, ReturnWith, Done, AsAsked
<1>13. CASE IgnoreValue
  <2>1. Promised = old
    BY <1>5, <1>13 DEF IgnoreValue
  <2> QED
    BY <1>1, <1>13, <2>1, ReturnDone DEF IgnoreValue
<1>14. CASE BeginSplice
  <2>1. p \in 0 .. Len(old) - 1 /\ k = p
    BY <1>2, <1>4, <1>14 DEF BeginSplice, ItemFound
  <2>2. /\ Val.kind \in {"list", "vector"} /\ pc' = "splice"
        /\ UNCHANGED <<sub, exprList, req, old, n>>
        /\ at' = IF Val.kind = "list" THEN p ELSE p + 1
    BY <1>14 DEF BeginSplice
  <2>3. p \in 0 .. Len(old) /\ p + 1 \in 0 .. Len(old)
    BY <1>2, <2>1
  <2> HIDE DEF p
  <2>4. at' \in 0 .. Len(old) /\ Promised = Around(old, at', New)
    BY <1>5, <2>1, <2>2, <2>3
  <2> QED
    BY <1>1, <2>2, <2>4
<1> QED
  BY <1>7, <1>8, <1>9, <1>10, <1>11, <1>12, <1>13, <1>14

\* What a well-formed assignment is.
LEMMA AssignmentAsked ==
  ASSUME RInv, WellFormed(req, old), StepKind = "nil", ~IsRemoval
  PROVE  /\ Val.kind = "list" /\ Elems # << >> /\ Len(Elems) <= Len(old)
         /\ TypeInferred
         /\ \A i \in 1 .. Len(Elems) : Replacement(Elems[i]) = New[i]
<1>1. /\ Elems \in Seq(Elem) /\ Len(Elems) \in Nat /\ DOMAIN Elems = 1 .. Len(Elems)
      /\ \A i \in 1 .. Len(Elems) : Elems[i] \in Elem /\ New[i] = ItemOf(Elems[i])
  BY RequestType, NewType DEF RInv, IInv
<1>2. /\ Val.kind = "list" /\ Elems # << >> /\ Len(Elems) <= Len(old)
      /\ \A i \in DOMAIN Elems :
           /\ Elems[i].kind \in {"str", "int", "sym"}
           /\ Elems[i].kind = "int" => Elems[i].s \in IntMin .. -IntMin - 1
      /\ \E i \in DOMAIN Elems : Elems[i].kind # "sym"
  BY DEF WellFormed, WellFormedList, StepKind, IsRemoval, Elems, Val
<1>3. TypeInferred
  <2> DEFINE C == {i \in 1 .. Len(Elems) : Elems[i].kind # "sym"}
  <2>1. C \in SUBSET Nat /\ C # {}
    BY <1>1, <1>2
  <2>2. PICK i \in C : \A j \in C : i <= j
    BY <2>1, LeastElement
  <2>3. i \in 1 .. Len(Elems) /\ Elems[i].kind \in {"str", "int"}
    BY <1>1, <1>2, <2>2
  <2>4. ASSUME NEW j \in 1 .. i - 1 PROVE Elems[j].kind = "sym"
    <3>1. j \in 1 .. Len(Elems) /\ ~(i <= j)
      BY <1>1, <2>3, <2>4
    <3> QED
      BY <2>2, <3>1
  <2> QED
    BY <2>3, <2>4 DEF TypeInferred
<1>4. ASSUME NEW i \in 1 .. Len(Elems) PROVE Replacement(Elems[i]) = New[i]
  <2>1. CASE Elems[i].kind = "int"
    <3>1. CInt(Elems[i].s) = Elems[i].s
      BY <1>1, <1>2, <2>1, FittingInt
    <3>2. Replacement(Elems[i]) = [tid |-> "INT", s |-> Elems[i].s]
      BY <2>1, <3>1 DEF Replacement
    <3>3. ItemOf(Elems[i]) = [tid |-> "INT", s |-> Elems[i].s]
      BY <2>1 DEF ItemOf
    <3> QED
      BY <1>1, <3>2, <3>3
  <2>2. CASE Elems[i].kind \in {"str", "sym"}
    <3>1. Replacement(Elems[i]) = ItemOf(Elems[i])
      BY <2>2 DEF Replacement
    <3> QED
      BY <1>1, <3>1
  <2> QED
    BY <1>1, <1>2, <2>1, <2>2
<1> QED
  BY <1>2, <1>3, <1>4

\* What a well-formed removal is.  The code finds a position misplaced if
\* and only if the list has no item there.
LEMMA RemovalAsked ==
  ASSUME RInv, WellFormed(req, old), StepKind = "nil", IsRemoval
  PROVE  /\ Val.kind = "list" /\ Elems # << >>
         /\ Len(Elems) \in Nat /\ Len(Elems) > 0 /\ Len(Locations) = Len(Elems) - 1
         /\ Len(old) \in Nat /\ Len(old) > 0 /\ AttrCount = Len(old)
         /\ \A i \in 2 .. Len(Elems) :
              /\ Locations[i - 1] = Elems[i]
              /\ Elems[i].kind = "int" /\ Elems[i].s \in Int /\ CInt(Elems[i].s) = Elems[i].s
              /\ Given(Elems[i], old) \in Int
              /\ Misplaced(Elems[i])
                   <=> (IF Elems[i].s < 0 THEN -Elems[i].s ELSE Elems[i].s) >= Len(old)
         /\ \A i, j \in 2 .. Len(Elems) :
              i < j => Given(Elems[i], old) < Given(Elems[j], old)
         /\ \A i \in 2 .. Len(Elems) :
              Elems[i].s < 0 \/ Given(Elems[i], old) = Len(old) - 1
                => Given(Elems[i], old) # i - 2
<1>1. Elems \in Seq(Elem) /\ Len(Elems) \in Nat /\ old \in Seq(Node) /\ Len(old) \in Nat
  BY RequestType DEF RInv, IInv, Regular
<1>2. /\ Val.kind = "list" /\ Elems # << >> /\ old # << >>
      /\ RemovalInOrder(req, old)
  BY DEF WellFormed, WellFormedList, StepKind, IsRemoval, Elems, Val
<1>3. /\ \A i \in 2 .. Len(Elems) :
           Elems[i].kind = "int" /\ Elems[i].s \in IntMin + 1 .. -IntMin - 1
      /\ \A i, j \in 2 .. Len(Elems) :
           i < j => Given(Elems[i], old) < Given(Elems[j], old)
      /\ \A i \in 2 .. Len(Elems) :
           Elems[i].s < 0 \/ Given(Elems[i], old) = Len(old) - 1
             => Given(Elems[i], old) # i - 2
  BY <1>2 DEF RemovalInOrder, Elems
<1>4. /\ Len(Elems) > 0 /\ Len(old) > 0
      /\ Len(Locations) = Len(Elems) - 1
      /\ \A i \in 2 .. Len(Elems) : Locations[i - 1] = Elems[i]
  BY <1>1, <1>2 DEF Locations
<1>5. AttrCount = Len(old)
  BY <1>4 DEF AttrCount
<1>6. ASSUME NEW i \in 2 .. Len(Elems)
      PROVE  /\ Elems[i].s \in Int /\ CInt(Elems[i].s) = Elems[i].s
             /\ Given(Elems[i], old) \in Int
             /\ Misplaced(Elems[i])
                  <=> (IF Elems[i].s < 0 THEN -Elems[i].s ELSE Elems[i].s) >= Len(old)
  <2>1. PICK v : v = Elems[i].s
    OBVIOUS
  <2>2. v \in IntMin + 1 .. -IntMin - 1 /\ IntMin \in Int
    BY <1>3, <2>1, IntMinAssumption
  <2>3. v \in IntMin .. -IntMin - 1 /\ v \in Int /\ v # IntMin
    BY <2>2
  <2>4. CInt(v) = v
    BY <2>3, FittingInt
  <2>5. CAbs(CInt(v)) = IF v < 0 THEN -v ELSE v
    BY <2>3, <2>4 DEF CAbs
  <2>6. Given(Elems[i], old) = IF v < 0 THEN Len(old) + v ELSE v
    BY <2>1 DEF Given
  <2>7. Misplaced(Elems[i]) <=> CAbs(CInt(v)) >= Len(old)
    BY <1>5, <2>1 DEF Misplaced
  <2> QED
    BY <1>1, <2>1, <2>3, <2>4, <2>5, <2>6, <2>7
<1> QED
  BY <1>1, <1>2, <1>3, <1>4, <1>5, <1>6

\* A removal is refused if it gives a position the list does not have.
LEMMA RefusedRemoval ==
  ASSUME RInv, WellFormed(req, old), StepKind = "nil", IsRemoval
  PROVE  Removed \subseteq 0 .. Len(old) - 1
           <=> \A j \in 1 .. Len(Locations) : ~Misplaced(Locations[j])
<1> DEFINE G(i) == Given(Elems[i], old)
           L == Len(old)
           m == Len(Elems)
<1>1. /\ m \in Nat /\ m > 0 /\ Len(Locations) = m - 1 /\ L \in Nat /\ L > 0
      /\ \A i \in 2 .. m :
           /\ Locations[i - 1] = Elems[i] /\ Elems[i].s \in Int
           /\ Misplaced(Elems[i])
                <=> (IF Elems[i].s < 0 THEN -Elems[i].s ELSE Elems[i].s) >= L
           /\ Elems[i].s < 0 \/ G(i) = L - 1 => G(i) # i - 2
      /\ \A i, j \in 2 .. m : i < j => G(i) < G(j)
  BY RemovalAsked
<1>2. \A i \in 2 .. m : G(i) = IF Elems[i].s < 0 THEN L + Elems[i].s ELSE Elems[i].s
  BY DEF Given
<1>3. ASSUME NEW j \in 1 .. Len(Locations)
      PROVE  j + 1 \in 2 .. m /\ Locations[j] = Elems[j + 1]
  <2>1. j + 1 \in 2 .. m /\ (j + 1) - 1 = j
    BY <1>1
  <2> QED
    BY <1>1, <2>1
<1>4. Removed = {G(i) : i \in 2 .. m}
  BY DEF Removed
<1> HIDE DEF G, L, m
<1>5. ASSUME Removed \subseteq 0 .. L - 1, NEW i \in 2 .. m
      PROVE  ~Misplaced(Elems[i])
  <2>1. G(i) \in 0 .. L - 1
    BY <1>4, <1>5
  <2>2. Elems[i].s < 0 => G(i) # 0
    <3>1. CASE i = 2
      BY <1>1, <3>1
    <3>2. CASE i # 2
      <4>1. 2 \in 2 .. m /\ 2 < i
        BY <1>1, <3>2
      <4>2. G(2) \in 0 .. L - 1 /\ G(2) < G(i)
        BY <1>1, <1>4, <1>5, <4>1
      <4> QED
        BY <2>1, <4>2
    <3> QED
      BY <3>1, <3>2
  <2> QED
    BY <1>1, <1>2, <2>1, <2>2
<1>6. ASSUME \A j \in 1 .. Len(Locations) : ~Misplaced(Locations[j]), NEW i \in 2 .. m
      PROVE  G(i) \in 0 .. L - 1
  <2>1. i - 1 \in 1 .. Len(Locations) /\ Locations[i - 1] = Elems[i]
    BY <1>1
  <2>2. ~Misplaced(Elems[i])
    BY <1>6, <2>1
  <2>3. PICK v, g : v = Elems[i].s /\ g = G(i)
    OBVIOUS
  <2>4. v \in Int /\ ~((IF v < 0 THEN -v ELSE v) >= L)
    BY <1>1, <2>2, <2>3
  <2>5. g = IF v < 0 THEN L + v ELSE v
    BY <1>2, <2>3
  <2>6. g \in 0 .. L - 1
    BY <1>1, <2>4, <2>5
  <2> QED
    BY <2>3, <2>6
<1>7. ASSUME Removed \subseteq 0 .. L - 1, NEW j \in 1 .. Len(Locations)
      PROVE  ~Misplaced(Locations[j])
  BY <1>3, <1>5, <1>7
<1>8. (\A j \in 1 .. Len(Locations) : ~Misplaced(Locations[j])) => Removed \subseteq 0 .. L - 1
  BY <1>4, <1>6
<1> QED
  BY <1>7, <1>8 DEF L

\* A call on the whole list begins a loop or ends as promised.
LEMMA ListRefines ==
  ASSUME RInv, AsAsked,
         AssignNonList \/ AssignEmpty \/ RefuseAssign \/ BeginReplace \/ RefuseRemoval
           \/ BeginRemoval
  PROVE  \/ Done
         \/ /\ pc' = "replace"
            /\ UNCHANGED <<sub, exprList, req, old, n>>
            /\ StepKind = "nil" /\ ~IsRemoval
            /\ Promised = New /\ Len(Elems) <= Len(old)
         \/ /\ pc' = "remove"
            /\ UNCHANGED <<sub, exprList, req, old, n>>
            /\ StepKind = "nil" /\ IsRemoval
<1>1. pc = "dispatch" /\ StepKind = "nil" /\ WellFormed(req, old)
  <2>1. pc = "dispatch" /\ StepKind \in {"nil", "other"} /\ WellFormed(req, old)
    BY DEF AssignNonList, AssignEmpty, RefuseAssign, BeginReplace, RefuseRemoval, BeginRemoval,
       AssignList, AssignCall, AsAsked
  <2> QED
    BY <2>1 DEF WellFormed, WellFormedItem, StepKind
<1>2. Val.kind = "list" /\ Elems # << >>
  BY <1>1, AssignmentAsked, RemovalAsked
<1>3. CASE AssignNonList \/ AssignEmpty
  BY <1>2, <1>3 DEF AssignNonList, AssignEmpty
<1>4. CASE RefuseAssign
  BY <1>1, <1>4, AssignmentAsked DEF RefuseAssign
<1>5. CASE BeginReplace
  <2>1. ~IsRemoval /\ pc' = "replace" /\ UNCHANGED <<sub, exprList, req, old, n>>
    BY <1>5 DEF BeginReplace
  <2> QED
    BY <1>1, <2>1, AssignmentAsked, PromisedOfList
<1>6. CASE RefuseRemoval
  <2>1. IsRemoval
    BY <1>6 DEF RefuseRemoval
  <2>2. PICK j \in 1 .. Len(Locations) : Misplaced(Locations[j])
    BY <1>6 DEF RefuseRemoval
  <2>3. Promised = old
    BY <1>1, <2>1, <2>2, RefusedRemoval, PromisedOfList
  <2> QED
    BY <1>1, <1>6, <2>3, ReturnDone DEF RefuseRemoval
<1>7. CASE BeginRemoval
  BY <1>1, <1>7 DEF BeginRemoval
<1> QED
  BY <1>3, <1>4, <1>5, <1>6, <1>7

\* What depends on the call and not on what it has done.
LEMMA SameCall ==
  ASSUME UNCHANGED <<req, old>>
  PROVE  /\ Promised' = Promised /\ Elems' = Elems /\ New' = New
         /\ Val' = Val /\ StepKind' = StepKind /\ (IsRemoval <=> IsRemoval')
<1>1. Elems' = Elems /\ Val' = Val /\ StepKind' = StepKind
  BY DEF Elems, Val, StepKind
<1> QED
  BY <1>1 DEF Promised, New, IsRemoval

\* A call ends its dispatch as promised, or begins a loop that will.
LEMMA DispatchRefines ==
  ASSUME RInv, AsAsked, Dispatch
  PROVE  Done \/ (AsAsked' /\ pc' # "idle" /\ UNCHANGED <<req, old>>)
<1>1. pc = "dispatch" /\ exprList
  BY DispatchPlace DEF AsAsked
<1>2. /\ old = Items(sub) /\ old \in Seq(Node) /\ Len(old) \in Nat /\ n = 0
      /\ WellFormed(req, old)
  BY <1>1, Found, AtDispatch DEF AsAsked
<1>3. CASE ClearAll
  <2>1. Promised = << >>
    BY <1>3, PromisedOfOther DEF ClearAll
  <2>2. Items(<< >>) = << >>
    BY DEF Items, ItemCount
  <2> QED
    BY <1>3, <2>1, <2>2 DEF ClearAll, ReturnWith, Done
<1>4. CASE RefuseStep
  <2>1. StepKind \in {"sym", "kw"} /\ \E e : Return(e)
    BY <1>2, <1>4 DEF RefuseStep, WellFormed, WellFormedItem, StepKind, ListKinds
  <2>2. Promised = old
    BY <1>1, <2>1, PromisedOfOther
  <2> QED
    BY <1>1, <2>1, <2>2, ReturnDone
<1>5. CASE StringNotFound
  <2>1. StepKind = "str" /\ PositionsOf(req.step.s) = {} /\ Return(errno)
    BY <1>5 DEF StringNotFound
  <2>2. ItemNamed(req.step, old) = Len(old) /\ Len(old) \notin 0 .. Len(old) - 1
    BY <1>1, <1>2, <2>1, StringNames
  <2>3. Promised = old
    BY <1>1, <2>1, <2>2, PromisedOfItem
  <2> QED
    BY <1>1, <2>1, <2>3, ReturnDone
<1>6. CASE NoExprList
  BY <1>1, <1>6 DEF NoExprList
<1>7. CASE RefuseProcedure \/ ItemMissing \/ RefuseValue \/ ReplaceItem \/ ExitOnStringNode
             \/ DeleteItem \/ IgnoreValue \/ BeginSplice
  <2>1. CASE Done
    BY <2>1
  <2>2. CASE ~Done
    <3>1. /\ pc' = "splice"
          /\ UNCHANGED <<sub, exprList, req, old, n>>
          /\ StepKind # "nil" /\ Val.kind \in {"list", "vector"}
          /\ at' \in 0 .. Len(old)
          /\ Promised = Around(old, at', New)
      BY <1>7, <2>2, ItemRefines
    <3>2. /\ Promised' = Promised /\ Elems' = Elems /\ New' = New
          /\ Val' = Val /\ StepKind' = StepKind
      BY <3>1, SameCall
    <3>3. n' = 0 /\ Len(Elems') \in Nat
      BY <1>2, <3>1, <3>2, RequestType DEF RInv, IInv
    <3>4. Items(sub') = Around(old, at', SubSeq(New, 1, 0))
      <4>1. PICK f, a : f = SubSeq(New, 1, 0) /\ a = at'
        OBVIOUS
      <4>2. f \in Seq(Node) /\ Len(f) = 0
        BY <4>1
      <4>3. Around(old, a, f) = old
        BY <1>2, <3>1, <4>1, <4>2, AroundNothing
      <4> QED
        BY <1>2, <3>1, <4>1, <4>3
    <3>5. Around(old, at, New)' = Around(old, at', New)
          /\ Around(old, at, SubSeq(New, 1, n))' = Around(old, at', SubSeq(New, 1, n'))
      BY <3>1, <3>2 DEF Around
    <3>6. Splicing'
      BY <3>1, <3>2, <3>3, <3>4, <3>5 DEF Splicing
    <3> QED
      BY <1>1, <1>2, <3>1, <3>6 DEF AsAsked, Loops
  <2> QED
    BY <2>1, <2>2
<1>8. CASE AssignNonList \/ AssignEmpty \/ RefuseAssign \/ BeginReplace \/ RefuseRemoval
             \/ BeginRemoval
  <2>1. CASE Done
    BY <2>1
  <2>2. CASE /\ pc' = "replace"
             /\ UNCHANGED <<sub, exprList, req, old, n>>
             /\ StepKind = "nil" /\ ~IsRemoval
             /\ Promised = New /\ Len(Elems) <= Len(old)
    <3>1. /\ Promised' = Promised /\ Elems' = Elems /\ New' = New
          /\ StepKind' = StepKind /\ (IsRemoval <=> IsRemoval')
      BY <2>2, SameCall
    <3>2. n' = 0
      BY <1>2, <2>2
    <3>3. \A i \in 1 .. n' : Items(sub')[i] = New'[i]
      BY <3>2
    <3>4. Replacing'
      BY <2>2, <3>1, <3>3 DEF Replacing
    <3> QED
      BY <1>1, <1>2, <2>2, <3>4 DEF AsAsked, Loops
  <2>3. CASE /\ pc' = "remove"
             /\ UNCHANGED <<sub, exprList, req, old, n>>
             /\ StepKind = "nil" /\ IsRemoval
    <3>1. StepKind' = StepKind /\ (IsRemoval <=> IsRemoval') /\ n' = 0
      BY <1>2, <2>3, SameCall
    <3>2. Spared(n)' = 1 .. Len(old)
      BY <2>3, <3>1 DEF Spared
    <3>3. /\ Selected(old, 1 .. Len(old)) = old
          /\ \A q \in 1 .. Len(old) : CountTo(1 .. Len(old), q) = q
      BY <1>2, SelectedAll
    <3>4. Items(sub)' = Selected(old, Spared(n))'
      BY <1>2, <2>3, <3>2, <3>3
    <3>5. \A q \in 1 .. Len(old') : CountTo(Spared(n)', q) = q - n'
      BY <2>3, <3>1, <3>2, <3>3
    <3>6. Removing'
      BY <2>3, <3>1, <3>4, <3>5 DEF Removing
    <3> QED
      BY <1>1, <1>2, <2>3, <3>6 DEF AsAsked, Loops
  <2> QED
    BY <1>8, <2>1, <2>2, <2>3, ListRefines
<1>9. CASE LookupAstray
  <2>1. ~CommaInFront(sub)
    BY <1>1, AtDispatch, SlotsOfAlternating
  <2>2. StepKind = "str" /\ \E i \in 1 .. Len(sub) : sub[i] # Comma /\ sub[i].s = NoText
    BY <1>9, <2>1 DEF LookupAstray, Untold
  <2>3. PICK i \in 1 .. Len(sub) : sub[i] # Comma /\ sub[i].s = NoText
    BY <2>2
  <2>4. PICK k \in 1 .. Len(old) : old[k] = sub[i]
    <3>1. i % 2 = 1 /\ Alternating(sub) /\ sub # << >>
      BY <1>1, <2>3, AtDispatch DEF Alternating
    <3>2. Len(sub) = 2 * Len(old) - 1
      BY <1>1, <3>1, AtDispatch, LiveItems
    <3>3. (i + 1) \div 2 \in 1 .. Len(old) /\ 2 * ((i + 1) \div 2) - 1 = i
      BY <1>2, <3>1, <3>2
    <3>4. old[(i + 1) \div 2] = sub[2 * ((i + 1) \div 2) - 1]
      BY <1>1, <3>3, AtDispatch DEF Items
    <3> QED
      BY <3>3, <3>4
  <2> QED
    BY <1>2, <2>2, <2>3, <2>4 DEF WellFormed, WellFormedItem, StepKind
<1>10. CASE CarCrash \/ CarIgnored \/ CarSetInt
  <2>1. StepKind \in ListKinds
    BY <1>10 DEF CarCrash, CarIgnored, CarSetInt, CarCall, IsCarIndex, ListKinds
  <2> QED
    BY <1>2, <2>1 DEF WellFormed, WellFormedItem, StepKind, ListKinds
<1> QED
  BY <1>3, <1>4, <1>5, <1>6, <1>7, <1>8, <1>9, <1>10 DEF Dispatch

-----------------------------------------------------------------------------
(***************************************************************************)
(* The turns of the loops.                                                 *)
(***************************************************************************)
LEMMA SpliceKeepsAsked ==
  ASSUME RInv, AsAsked, SpliceInsert
  PROVE  AsAsked' /\ pc' # "idle" /\ UNCHANGED <<req, old>>
<1>1. pc = "splice" /\ pc \in Loops /\ n < Len(Elems) /\ Splicing
  BY DEF SpliceInsert, Loops, AsAsked
<1>2. /\ sub \in Seq(Node \cup {Comma}) /\ Alternating(sub)
      /\ old \in Seq(Node) /\ Len(old) \in Nat /\ n \in Nat
  BY <1>1, InLoop DEF TypeOK
<1>3. /\ New \in Seq(Node) /\ Len(New) = Len(Elems) /\ Len(Elems) \in Nat
      /\ n + 1 \in 1 .. Len(Elems)
      /\ New[n + 1] = ItemOf(Elems[n + 1]) /\ New[n + 1] \in Node
  BY <1>1, <1>2, NewType
<1>4. at \in 0 .. Len(old) /\ Items(sub) = Around(old, at, SubSeq(New, 1, n))
  BY <1>1 DEF Splicing
<1>5. PICK f, g, a, x :
        f = SubSeq(New, 1, n) /\ g = SubSeq(New, 1, n + 1) /\ a = at /\ x = New[n + 1]
  OBVIOUS
<1>6. /\ f \in Seq(Node) /\ Len(f) = n /\ \A k \in 1 .. n : f[k] = New[k]
      /\ g \in Seq(Node) /\ Len(g) = n + 1 /\ \A k \in 1 .. n + 1 : g[k] = New[k]
      /\ x \in Node /\ a \in 0 .. Len(old)
  <2>1. PICK h : h = New
    OBVIOUS
  <2>2. h \in Seq(Node) /\ n \in Nat /\ n + 1 <= Len(h)
    BY <1>2, <1>3, <2>1
  <2>3. f = SubSeq(h, 1, n) /\ g = SubSeq(h, 1, n + 1)
    BY <1>5, <2>1
  <2>4. /\ f \in Seq(Node) /\ Len(f) = n /\ \A k \in 1 .. n : f[k] = h[k]
        /\ g \in Seq(Node) /\ Len(g) = n + 1 /\ \A k \in 1 .. n + 1 : g[k] = h[k]
    BY <2>2, <2>3
  <2> QED
    BY <1>3, <1>4, <1>5, <2>1, <2>4
<1>7. InsertAt(Around(old, a, f), a + Len(f) + 1, x) = Around(old, a, g)
  <2>1. Len(g) = Len(f) + 1 /\ \A k \in 1 .. Len(f) : g[k] = f[k]
    BY <1>2, <1>6, SMTT(30)
  <2>2. g[Len(f) + 1] = x
    <3>1. Len(f) + 1 = n + 1 /\ n + 1 \in 1 .. n + 1
      BY <1>2, <1>6
    <3> QED
      BY <1>5, <1>6, <3>1
  <2>3. /\ old \in Seq(Node) /\ a \in 0 .. Len(old) /\ f \in Seq(Node)
        /\ x \in Node /\ g \in Seq(Node)
    BY <1>2, <1>6
  <2> QED
    BY <2>1, <2>2, <2>3, AroundGrows, ZenonT(60)
<1>8. Around(old, a, f) \in Seq(Node) /\ Len(Around(old, a, f)) = Len(old) + n
  <2>1. old \in Seq(Node) /\ a \in 0 .. Len(old) /\ f \in Seq(Node) /\ Len(f) = n
    BY <1>2, <1>6
  <2>2. Around(old, a, f) \in Seq(Node) /\ Len(Around(old, a, f)) = Len(old) + Len(f)
    BY <2>1, AroundType, Zenon
  <2> QED
    BY <2>1, <2>2
<1>9. ItemCount(sub) = Len(old) + n
  <2>1. Len(Items(sub)) = ItemCount(sub)
    BY <1>2, ItemsType, Zenon
  <2> QED
    BY <1>4, <1>5, <1>8, <2>1
<1>10. sub' = InsertItem(sub, a + n, x) /\ n' = n + 1
       /\ UNCHANGED <<exprList, pc, req, old, at>>
  BY <1>1, <1>2, <1>3, <1>5, <1>6, <1>9 DEF SpliceInsert
<1>11. Items(sub') = InsertAt(Around(old, a, f), a + Len(f) + 1, x)
  <2>1. PICK s, r, c, k, d :
          /\ s = Around(old, a, f) /\ c = ItemCount(sub)
          /\ k = a + n /\ d = a + Len(f) + 1 /\ r = InsertItem(sub, k, x)
    OBVIOUS
  <2>2. k \in 0 .. c /\ c \in Nat /\ d - 1 = k /\ d = k + 1 /\ d \in 1 .. c + 1
    BY <1>2, <1>6, <1>9, <2>1, SMTT(30)
  <2>3. Items(sub) = s /\ s \in Seq(Node) /\ Len(s) = c
    BY <1>4, <1>5, <1>8, <1>9, <2>1
  <2>4. /\ ItemCount(r) = c + 1
        /\ \A i \in 1 .. c + 1 :
             Items(r)[i] = IF i <= k THEN s[i] ELSE IF i = k + 1 THEN x ELSE s[i - 1]
    <3>1. PICK S, b : S = Node \cup {Comma} /\ b = sub
      OBVIOUS
    <3>2. b \in Seq(S) /\ Alternating(b) /\ k \in 0 .. ItemCount(b)
      BY <1>2, <2>1, <2>2, <3>1
    <3>3. /\ ItemCount(InsertItem(b, k, x)) = ItemCount(b) + 1
          /\ \A i \in 1 .. ItemCount(b) + 1 :
               Items(InsertItem(b, k, x))[i]
                 = IF i <= k THEN Items(b)[i] ELSE IF i = k + 1 THEN x ELSE Items(b)[i - 1]
      BY <3>2, InsertItemItems
    <3> QED
      BY <2>1, <2>3, <3>1, <3>3
  <2>5. Items(r) = InsertAt(s, d, x)
    <3>1. /\ ItemCount(r) = Len(s) + 1 /\ d \in 1 .. Len(s) + 1
          /\ \A i \in 1 .. Len(s) + 1 :
               Items(r)[i] = IF i <= d - 1 THEN s[i] ELSE IF i = d THEN x ELSE s[i - 1]
      BY <2>2, <2>3, <2>4
    <3> QED
      BY <1>6, <2>3, <3>1, ItemsInserted
  <2> QED
    BY <1>10, <2>1, <2>5
<1>12. /\ Promised' = Promised /\ Elems' = Elems /\ New' = New
       /\ Val' = Val /\ StepKind' = StepKind
  BY <1>10, SameCall
<1>13. Around(old, at, New)' = Around(old, at, New)
       /\ Around(old, at, SubSeq(New, 1, n))' = Around(old, at, SubSeq(New, 1, n + 1))
  BY <1>10, <1>12 DEF Around
<1>14. Splicing'
  BY <1>1, <1>2, <1>3, <1>5, <1>7, <1>10, <1>11, <1>12, <1>13 DEF Splicing
<1> QED
  BY <1>1, <1>10, <1>14 DEF AsAsked, Loops

LEMMA EndSpliceRefines ==
  ASSUME RInv, AsAsked, EndSplice
  PROVE  Done
<1>1. pc = "splice" /\ n = Len(Elems) /\ Splicing /\ exprList
  BY DEF EndSplice, AsAsked
<1>2. New \in Seq(Node) /\ Len(New) = Len(Elems)
  BY NewType
<1>3. SubSeq(New, 1, Len(New)) = New
  BY <1>2, PrefixGrows
<1>4. Items(sub) = Promised
  BY <1>1, <1>2, <1>3 DEF Splicing
<1> QED
  BY <1>1, <1>4 DEF EndSplice, Return, ReturnWith, Done

\* A well-formed splice passes no element over.
LEMMA NothingSkipped ==
  ASSUME RInv, AsAsked PROVE ~SpliceSkip
<1> SUFFICES ASSUME SpliceSkip PROVE FALSE
  OBVIOUS
<1>1. pc = "splice" /\ n < Len(Elems) /\ Elems[n + 1].kind \notin {"str", "int"}
      /\ WellFormed(req, old) /\ Val.kind \in {"list", "vector"} /\ pc \in Loops
      /\ StepKind # "nil"
  BY DEF SpliceSkip, AsAsked, Splicing, Loops
<1>2. n \in Nat /\ Len(Elems) \in Nat /\ DOMAIN Elems = 1 .. Len(Elems)
  BY <1>1, InLoop, RequestType
<1>3. n + 1 \in DOMAIN Elems
  BY <1>1, <1>2
<1> QED
  BY <1>1, <1>3 DEF WellFormed, WellFormedItem, StepKind, Val, Elems

\* Where the replacing loop is.
LEMMA InReplace ==
  ASSUME RInv, AsAsked, pc = "replace"
  PROVE  /\ pc \in Loops /\ StepKind = "nil" /\ ~IsRemoval /\ WellFormed(req, old)
         /\ Promised = New /\ Len(Elems) <= Len(old) /\ \A i \in 1 .. n : Items(sub)[i] = New[i]
         /\ sub \in Seq(Node \cup {Comma}) /\ Alternating(sub)
         /\ ItemCount(sub) = Len(old) /\ Len(old) \in Nat /\ n \in Nat
         /\ n <= Len(Elems) /\ n <= Len(old)
         /\ at = IF n = 0 THEN 0 ELSE 2 * n - 1
         /\ Len(sub) = 2 * Len(old) - 1
         /\ New \in Seq(Node) /\ Len(New) = Len(Elems) /\ Len(Elems) \in Nat
<1>1. /\ pc \in Loops /\ StepKind = "nil" /\ ~IsRemoval /\ WellFormed(req, old)
      /\ Promised = New /\ Len(Elems) <= Len(old) /\ \A i \in 1 .. n : Items(sub)[i] = New[i]
  BY DEF AsAsked, Replacing, Loops
<1>2. /\ sub \in Seq(Node \cup {Comma}) /\ Alternating(sub) /\ TypeOK
      /\ Len(old) \in Nat /\ n \in Nat
  BY <1>1, InLoop
<1>3. /\ ItemCount(sub) = Len(old)
      /\ n <= Len(Elems) /\ n <= Len(old)
      /\ at = IF n = 0 THEN 0 ELSE 2 * n - 1
  <2>1. n <= Len(old) /\ ~CommaInFront(sub)
    BY <1>2, SlotsOfAlternating, InLoop, <1>1 DEF RInv, Regular
  <2> QED
    BY <1>2, <2>1 DEF RInv, IInv, LoopPosition
<1>4. New \in Seq(Node) /\ Len(New) = Len(Elems) /\ Len(Elems) \in Nat
  BY NewType
<1>5. Len(sub) = 2 * Len(old) - 1
  <2>1. Elems # << >>
    BY <1>1, AssignmentAsked
  <2>2. Len(old) > 0
    BY <1>1, <1>2, <2>1, RequestType
  <2> QED
    BY <1>2, <1>3, <2>2, LiveItems
<1> QED
  BY <1>1, <1>2, <1>3, <1>4, <1>5

LEMMA ReplaceKeepsAsked ==
  ASSUME RInv, AsAsked, ReplaceNext
  PROVE  AsAsked' /\ pc' # "idle" /\ UNCHANGED <<req, old>>
<1> DEFINE x == Replacement(Elems[n + 1])
<1>1. pc = "replace" /\ n < Len(Elems) /\ n < Len(old)
  BY DEF ReplaceNext, ReplaceTurn
<1>2. /\ pc \in Loops /\ StepKind = "nil" /\ ~IsRemoval /\ WellFormed(req, old)
      /\ Promised = New /\ Len(Elems) <= Len(old) /\ \A i \in 1 .. n : Items(sub)[i] = New[i]
      /\ sub \in Seq(Node \cup {Comma}) /\ Alternating(sub)
      /\ ItemCount(sub) = Len(old) /\ Len(old) \in Nat /\ n \in Nat
      /\ at = IF n = 0 THEN 0 ELSE 2 * n - 1
      /\ Len(sub) = 2 * Len(old) - 1 /\ Len(Elems) \in Nat
  BY <1>1, InReplace
<1>3. ReplacedAt = 2 * n
  BY <1>1, <1>2 DEF ReplacedAt, EltAt, Alternating
<1>4. /\ sub' = SetItem(sub, n, x) /\ n' = n + 1
      /\ UNCHANGED <<exprList, pc, req, old>>
  BY <1>3 DEF ReplaceNext, SetItem
<1>5. x = New[n + 1]
  <2>1. n + 1 \in 1 .. Len(Elems)
    BY <1>1, <1>2
  <2> QED
    BY <1>2, <2>1, AssignmentAsked
<1> HIDE DEF x
<1>6. Items(sub') = [Items(sub) EXCEPT ![n + 1] = x]
  <2>1. PICK S, b, k : S = Node \cup {Comma} /\ b = sub /\ k = n
    OBVIOUS
  <2>2. b \in Seq(S) /\ Alternating(b) /\ k \in 0 .. ItemCount(b) - 1
    BY <1>1, <1>2, <2>1
  <2>3. Items(SetItem(b, k, x)) = [Items(b) EXCEPT ![k + 1] = x]
    BY <2>2, SetItemItems
  <2> QED
    BY <1>4, <2>1, <2>3
<1>7. ASSUME NEW i \in 1 .. n + 1 PROVE Items(sub')[i] = New[i]
  <2>1. i \in DOMAIN Items(sub)
    BY <1>1, <1>2 DEF Items
  <2>2. Items(sub')[i] = IF i = n + 1 THEN x ELSE Items(sub)[i]
    BY <1>6, <2>1
  <2>3. i # n + 1 => i \in 1 .. n
    BY <1>2
  <2> QED
    BY <1>2, <1>5, <2>2, <2>3
<1>8. /\ Promised' = Promised /\ Elems' = Elems /\ New' = New
      /\ StepKind' = StepKind /\ (IsRemoval <=> IsRemoval')
  BY <1>4, SameCall
<1>9. Replacing'
  BY <1>2, <1>4, <1>7, <1>8 DEF Replacing
<1> QED
  BY <1>1, <1>2, <1>4, <1>9 DEF AsAsked, Loops

LEMMA EndReplaceRefines ==
  ASSUME RInv, AsAsked, EndReplace
  PROVE  Done
<1>1. pc = "replace" /\ n = Len(Elems) /\ exprList
  BY DEF EndReplace, AsAsked
<1>2. /\ StepKind = "nil" /\ ~IsRemoval /\ WellFormed(req, old)
      /\ Promised = New /\ Len(Elems) <= Len(old) /\ \A i \in 1 .. n : Items(sub)[i] = New[i]
      /\ sub \in Seq(Node \cup {Comma}) /\ Alternating(sub)
      /\ ItemCount(sub) = Len(old) /\ Len(old) \in Nat /\ n \in Nat
      /\ New \in Seq(Node) /\ Len(New) = Len(Elems)
  BY <1>1, InReplace
<1>3. n > 0
  <2>1. Elems # << >>
    BY <1>2, AssignmentAsked
  <2> QED
    BY <1>1, <1>2, <2>1, RequestType DEF RInv, IInv
<1>4. New = [i \in 1 .. n |-> Items(sub)[i]]
  <2>1. New = [i \in 1 .. n |-> New[i]]
    BY <1>1, <1>2
  <2> QED
    BY <1>2, <2>1
<1>5. CASE Len(Elems) < Len(old)
  <2>1. PICK S, b, m : S = Node \cup {Comma} /\ b = sub /\ m = n
    OBVIOUS
  <2>2. b \in Seq(S) /\ Alternating(b) /\ m \in 1 .. ItemCount(b)
    BY <1>1, <1>2, <1>3, <2>1
  <2>3. Items(Shrink(b, 2 * m - 1)) = [i \in 1 .. m |-> Items(b)[i]]
    BY <2>2, ShrinkItems
  <2>4. Items(Shrink(sub, 2 * Len(Elems) - 1)) = Promised
    BY <1>1, <1>2, <1>4, <2>1, <2>3
  <2> QED
    BY <1>1, <1>5, <2>4 DEF EndReplace, ReturnWith, Done
<1>6. CASE ~(Len(Elems) < Len(old))
  <2>1. ItemCount(sub) = n
    BY <1>1, <1>2, <1>6
  <2>2. Items(sub) = [i \in 1 .. n |-> Items(sub)[i]]
    BY <2>1 DEF Items
  <2>3. Items(sub) = Promised
    BY <1>2, <1>4, <2>2
  <2> QED
    BY <1>1, <1>6, <2>3 DEF EndReplace, ReturnWith, Done
<1> QED
  BY <1>5, <1>6

\* A well-formed assignment brings no more items than the list has, and the
\* list has those it brings items for.
LEMMA NothingPastEnd ==
  ASSUME RInv, AsAsked PROVE ~ReplacePastEnd /\ ~Extend /\ ~ReplaceMissing
<1>1. ASSUME ReplacePastEnd \/ Extend PROVE FALSE
  <2>1. pc = "replace" /\ n < Len(Elems) /\ n >= Len(old)
    BY <1>1 DEF ReplacePastEnd, Extend, ReplaceTurn
  <2> QED
    BY <2>1, InReplace
<1>2. ASSUME ReplaceMissing PROVE FALSE
  <2>1. ReplaceTurn /\ n < Len(old) /\ ~HasElt(sub, ReplacedAt) /\ pc \in Loops
    BY <1>2 DEF ReplaceMissing, ReplaceTurn, Loops
  <2>2. ~CommaInFront(sub)
    BY <2>1, InLoop, SlotsOfAlternating
  <2> QED
    BY <2>1, <2>2, ReplacedPlace DEF RInv
<1> QED
  BY <1>1, <1>2

\* Where the removing loop is.
LEMMA InRemoval ==
  ASSUME RInv, AsAsked, pc = "remove"
  PROVE  /\ pc \in Loops /\ StepKind = "nil" /\ IsRemoval /\ WellFormed(req, old)
         /\ Items(sub) = Selected(old, Spared(n))
         /\ \A q \in 1 .. Len(old) :
              (\A j \in 2 .. n + 1 : Given(Elems[j], old) < q - 1)
                => CountTo(Spared(n), q) = q - n
         /\ old \in Seq(Node) /\ Len(old) \in Nat /\ n \in Nat
         /\ n <= Len(Locations)
         /\ sub \in Seq(Node \cup {Comma}) /\ Alternating(sub)
         /\ ItemCount(sub) = Len(old) - n
         /\ \A i \in 2 .. Len(Elems) : ~Misplaced(Elems[i])
<1>1. /\ pc \in Loops /\ StepKind = "nil" /\ IsRemoval /\ WellFormed(req, old)
      /\ Items(sub) = Selected(old, Spared(n))
      /\ \A q \in 1 .. Len(old) :
           (\A j \in 2 .. n + 1 : Given(Elems[j], old) < q - 1)
             => CountTo(Spared(n), q) = q - n
  BY DEF AsAsked, Removing, Loops
<1>2. /\ sub \in Seq(Node \cup {Comma}) /\ Alternating(sub)
      /\ old \in Seq(Node) /\ Len(old) \in Nat /\ n \in Nat
  BY <1>1, InLoop DEF TypeOK
<1>3. n <= Len(Locations) /\ ItemCount(sub) + n = Len(old)
      /\ \A j \in 1 .. Len(Locations) :
            Locations[j].kind = "int" => ~Misplaced(Locations[j])
  BY DEF RInv, IInv, LoopPosition, CallState
<1>4. ASSUME NEW i \in 2 .. Len(Elems) PROVE ~Misplaced(Elems[i])
  <2>1. Len(Elems) \in Nat /\ Len(Locations) = Len(Elems) - 1
    BY <1>1, RemovalAsked
  <2>2. i - 1 \in 1 .. Len(Locations)
    BY <2>1
  <2>3. Locations[i - 1] = Elems[i] /\ Elems[i].kind = "int"
    BY <1>1, RemovalAsked
  <2> QED
    BY <1>3, <2>2, <2>3
<1>5. ItemCount(sub) = Len(old) - n
  <2>1. ItemCount(sub) \in Nat
    BY <1>2, AlternatingLength
  <2> QED
    BY <1>2, <1>3, <2>1
<1> QED
  BY <1>1, <1>2, <1>3, <1>4, <1>5

\* The place the next turn of a removal takes, and what is erased for it: an
\* item of the array and the comma before it, or behind it.
LEMMA NextRemoved ==
  ASSUME RInv, AsAsked, pc = "remove", n < Len(Locations)
  PROVE  LET m   == Given(Elems[n + 2], old) + 1
             k   == m - n - 1
             idx == RemovalIndex(CInt(Elems[n + 2].s))
         IN  /\ Locations[n + 1] = Elems[n + 2]
             /\ m \in Spared(n) /\ CountTo(Spared(n), m) = m - n
             /\ \A j \in 2 .. n + 1 : Given(Elems[j], old) < m - 1
             /\ k \in 0 .. ItemCount(sub) - 1
             /\ idx \in Nat /\ (idx = 2 * k \/ idx = 2 * k - 1) /\ idx + 2 <= Len(sub)
<1> DEFINE i == n + 2
           m == Given(Elems[i], old) + 1
           k == m - n - 1
           idx == RemovalIndex(CInt(Elems[i].s))
           L == Len(old)
<1>1. /\ StepKind = "nil" /\ IsRemoval /\ WellFormed(req, old)
      /\ \A q \in 1 .. L :
           (\A j \in 2 .. n + 1 : Given(Elems[j], old) < q - 1)
             => CountTo(Spared(n), q) = q - n
      /\ old \in Seq(Node) /\ L \in Nat /\ n \in Nat
      /\ sub \in Seq(Node \cup {Comma}) /\ Alternating(sub)
      /\ ItemCount(sub) = L - n
      /\ \A j \in 2 .. Len(Elems) : ~Misplaced(Elems[j])
  BY InRemoval
<1>2. /\ Len(Elems) \in Nat /\ Len(Locations) = Len(Elems) - 1
      /\ L > 0 /\ AttrCount = L
      /\ \A j \in 2 .. Len(Elems) :
           /\ Locations[j - 1] = Elems[j]
           /\ Elems[j].s \in Int /\ CInt(Elems[j].s) = Elems[j].s
           /\ Given(Elems[j], old) \in Int
           /\ Misplaced(Elems[j])
                <=> (IF Elems[j].s < 0 THEN -Elems[j].s ELSE Elems[j].s) >= L
           /\ Elems[j].s < 0 \/ Given(Elems[j], old) = L - 1
                => Given(Elems[j], old) # j - 2
      /\ \A j, h \in 2 .. Len(Elems) :
           j < h => Given(Elems[j], old) < Given(Elems[h], old)
  BY <1>1, RemovalAsked
<1>3. i \in 2 .. Len(Elems) /\ i - 1 = n + 1 /\ i - 2 = n
  BY <1>1, <1>2
<1>4. PICK v, c : v = Elems[i].s /\ c = Given(Elems[i], old)
  OBVIOUS
<1>5. /\ v \in Int /\ CInt(Elems[i].s) = v /\ c \in Int
      /\ ~((IF v < 0 THEN -v ELSE v) >= L)
      /\ v < 0 \/ c = L - 1 => c # n
      /\ Locations[n + 1] = Elems[i]
  BY <1>1, <1>2, <1>3, <1>4
<1>6. c = (IF v < 0 THEN L + v ELSE v) /\ c \in 0 .. L - 1
  <2>1. c = IF v < 0 THEN L + v ELSE v
    BY <1>4 DEF Given
  <2> QED
    BY <1>1, <1>2, <1>5, <2>1
<1>7. m = c + 1 /\ k = c - n /\ m \in 1 .. L /\ m - 1 = c
  <2>1. m = c + 1
    BY <1>4
  <2>2. k = m - n - 1
    OBVIOUS
  <2>3. c \in Int /\ n \in Nat /\ L \in Nat
    BY <1>1, <1>5
  <2> HIDE DEF m, k, L
  <2>4. m - 1 = c /\ k = c - n /\ m \in Int
    BY <2>1, <2>2, <2>3
  <2> QED
    BY <1>6, <2>1, <2>3, <2>4, SMTT(30)
<1> HIDE DEF i, m
<1>8. ASSUME NEW j \in 2 .. n + 1 PROVE Given(Elems[j], old) < m - 1 /\ j \in 2 .. Len(Elems)
  <2>1. j \in 2 .. Len(Elems) /\ j < i
    BY <1>1, <1>2, <1>3 DEF i
  <2> QED
    BY <1>2, <1>3, <1>4, <1>7, <2>1
<1>9. CountTo(Spared(n), m) = m - n
  BY <1>1, <1>7, <1>8
<1>10. m \in Spared(n)
  <2>1. \A j \in 2 .. n + 1 : Given(Elems[j], old) # m - 1
    BY <1>2, <1>6, <1>7, <1>8
  <2> QED
    BY <1>7, <2>1 DEF Spared
<1>11. m - n >= 1
  <2>1. Spared(n) \in SUBSET (1 .. L)
    BY DEF Spared
  <2>2. CountTo(Spared(n), m) \in 1 .. Cardinality(Spared(n))
    BY <1>1, <1>10, <2>1, NthPlaceOf
  <2> QED
    BY <1>1, <1>7, <1>9, <2>2, CountingPlaces, <2>1
<1>12. c >= n
  <2>1. n \in Nat /\ m = c + 1 /\ c \in Int
    BY <1>1, <1>5, <1>7
  <2> QED
    BY <1>11, <2>1
<1>13. Len(sub) = 2 * (L - n) - 1
  <2>1. ItemCount(sub) = L - n /\ L - n > 0
    BY <1>1, <1>6, <1>12
  <2>2. Alternating(sub) /\ TypeOK
    BY InRemoval, InLoop
  <2> HIDE DEF L
  <2>3. sub # << >>
    BY <2>1, <2>2, LiveItems
  <2> QED
    BY <2>1, <2>2, <2>3, LiveItems
<1>14. idx = IF v < 0 THEN (IF L + v > 0 THEN 2 * (L + v) - 1 ELSE at) - 2 * n
             ELSE (IF v = L - 1 THEN 2 * v - 1 ELSE 2 * v) - 2 * n
  BY <1>2, <1>5 DEF RemovalIndex
<1>15. L \in Nat /\ n \in Nat /\ ItemCount(sub) = L - n
  BY <1>1
<1> HIDE DEF idx, k, L
<1>16. /\ idx \in Nat /\ (idx = 2 * (c - n) \/ idx = 2 * (c - n) - 1)
       /\ idx + 2 <= 2 * (L - n) - 1
       /\ c - n \in 0 .. L - n - 1
  <2>1. v \in Int /\ c \in Int /\ c <= L - 1 /\ (v < 0 \/ c = L - 1 => c # n)
    BY <1>5, <1>6, <1>15
  <2>2. CASE v < 0
    <3>1. L + v = c /\ c > n /\ L + v > 0
      BY <1>6, <1>12, <1>15, <2>1, <2>2
    <3>2. idx = 2 * c - 1 - 2 * n
      BY <1>14, <1>15, <2>1, <2>2, <3>1
    <3> QED
      BY <1>15, <2>1, <3>1, <3>2
  <2> DEFINE front == (IF v = L - 1 THEN 2 * v - 1 ELSE 2 * v) - 2 * n
  <2>5. v >= 0 => idx = front
    <3>1. v >= 0 => ~(v < 0)
      BY <2>1
    <3> HIDE DEF front
    <3>2. idx = IF v < 0 THEN (IF L + v > 0 THEN 2 * (L + v) - 1 ELSE at) - 2 * n ELSE front
      BY <1>14 DEF front
    <3> QED
      BY <3>1, <3>2, Zenon
  <2>3. CASE v >= 0 /\ c = L - 1
    <3>1. v = c /\ c > n
      BY <1>6, <1>12, <1>15, <2>1, <2>3
    <3>2. idx = 2 * c - 1 - 2 * n
      BY <1>15, <2>1, <2>3, <2>5, <3>1
    <3> QED
      BY <1>15, <2>1, <2>3, <3>1, <3>2
  <2>4. CASE v >= 0 /\ c # L - 1
    <3>1. v = c /\ c <= L - 2
      BY <1>6, <1>15, <2>1, <2>4
    <3>2. idx = 2 * c - 2 * n
      BY <1>15, <2>1, <2>4, <2>5, <3>1
    <3> QED
      BY <1>12, <1>15, <2>1, <3>1, <3>2
  <2> QED
    BY <2>1, <2>2, <2>3, <2>4
<1>17. /\ idx \in Nat /\ (idx = 2 * k \/ idx = 2 * k - 1) /\ idx + 2 <= Len(sub)
       /\ k \in 0 .. ItemCount(sub) - 1
  BY <1>7, <1>13, <1>15, <1>16
<1> QED
  BY <1>5, <1>8, <1>9, <1>10, <1>17 DEF i, m, k, idx, L

LEMMA RemoveKeepsAsked ==
  ASSUME RInv, AsAsked, RemoveNext
  PROVE  AsAsked' /\ pc' # "idle" /\ UNCHANGED <<req, old>>
<1>1. PICK m, k, idx :
         /\ m = Given(Elems[n + 2], old) + 1 /\ k = m - n - 1
         /\ idx = RemovalIndex(CInt(Elems[n + 2].s))
  OBVIOUS
<1>2. pc = "remove" /\ n < Len(Locations)
  BY DEF RemoveNext
<1>3. /\ Locations[n + 1] = Elems[n + 2]
      /\ m \in Spared(n) /\ CountTo(Spared(n), m) = m - n
      /\ \A j \in 2 .. n + 1 : Given(Elems[j], old) < m - 1
      /\ k \in 0 .. ItemCount(sub) - 1
      /\ idx \in Nat /\ (idx = 2 * k \/ idx = 2 * k - 1) /\ idx + 2 <= Len(sub)
  BY <1>1, <1>2, NextRemoved
<1>4. /\ pc \in Loops /\ StepKind = "nil" /\ IsRemoval /\ WellFormed(req, old)
      /\ Items(sub) = Selected(old, Spared(n))
      /\ \A q \in 1 .. Len(old) :
           (\A j \in 2 .. n + 1 : Given(Elems[j], old) < q - 1)
             => CountTo(Spared(n), q) = q - n
      /\ old \in Seq(Node) /\ Len(old) \in Nat /\ n \in Nat
      /\ sub \in Seq(Node \cup {Comma}) /\ Alternating(sub)
      /\ ItemCount(sub) = Len(old) - n
  BY <1>2, InRemoval
<1>5. /\ sub' = Erase(sub, idx, 2) /\ n' = n + 1
      /\ UNCHANGED <<exprList, pc, req, old>>
  <2>1. HasElt(sub, idx) /\ HasElt(sub, idx + 1)
    BY <1>3, <1>4 DEF HasElt
  <2>2. RemovalIndex(CInt(Locations[n + 1].s)) = idx
    BY <1>1, <1>3
  <2> QED
    BY <2>1, <2>2, Zenon DEF RemoveNext
<1>6. PICK S : S = Spared(n)
  OBVIOUS
<1>7. /\ S \in SUBSET (1 .. Len(old)) /\ m \in S /\ m \in 1 .. Len(old) /\ m \in Nat
      /\ CountTo(S, m) = k + 1 /\ k \in Int
  <2>1. S \in SUBSET (1 .. Len(old)) /\ m \in S
    BY <1>3, <1>6 DEF Spared
  <2>2. m \in 1 .. Len(old)
    BY <2>1
  <2>3. CountTo(S, m) = m - n
    BY <1>3, <1>6
  <2>4. m - n = k + 1 /\ k \in Int
    BY <1>1, <1>4, <2>2
  <2> QED
    BY <2>1, <2>2, <2>3, <2>4
<1>8. Spared(n + 1) = S \ {m}
  <2>1. \A q \in 1 .. Len(old) : Given(Elems[n + 2], old) # q - 1 <=> q # m
    <3>1. Given(Elems[n + 2], old) = m - 1
      <4>1. (n + 1) + 1 = n + 2 /\ n + 2 \in 2 .. Len(Elems)
        BY <1>2, <1>4, RemovalAsked
      <4>2. Given(Elems[n + 2], old) \in Int
        BY <1>4, <4>1, RemovalAsked
      <4> QED
        BY <1>1, <4>2
    <3> QED
      BY <1>7, <3>1
  <2>2. 2 .. (n + 1) + 1 = (2 .. n + 1) \cup {n + 2}
    BY <1>4
  <2> QED
    BY <1>6, <2>1, <2>2 DEF Spared
<1>9. /\ CountTo(S, m) \in 1 .. Cardinality(S)
      /\ Selected(old, S \ {m}) = RemoveAt(Selected(old, S), CountTo(S, m))
      /\ \A p \in Nat : p >= m => CountTo(S \ {m}, p) = CountTo(S, p) - 1
  BY <1>4, <1>7, SelectedWithout
<1>10. Items(sub') = Selected(old, S \ {m})
  <2>1. PICK X, b : X = Node \cup {Comma} /\ b = sub
    OBVIOUS
  <2>2. b \in Seq(X) /\ Alternating(b) /\ k \in 0 .. ItemCount(b) - 1
        /\ idx \in Nat /\ (idx = 2 * k \/ idx = 2 * k - 1) /\ idx + 2 <= Len(b)
    BY <1>3, <1>4, <2>1
  <2>3. /\ ItemCount(Erase(b, idx, 2)) = ItemCount(b) - 1
        /\ \A i \in 1 .. ItemCount(b) - 1 :
             Items(Erase(b, idx, 2))[i] = IF i <= k THEN Items(b)[i] ELSE Items(b)[i + 1]
    BY <2>2, ErasedItems
  <2>4. PICK s, r, d : s = Items(b) /\ r = Erase(b, idx, 2) /\ d = k + 1
    OBVIOUS
  <2>5. s = Selected(old, S) /\ r = sub' /\ d = CountTo(S, m)
    BY <1>4, <1>5, <1>6, <1>7, <2>1, <2>4
  <2>6. s \in Seq(Node) /\ Len(s) = ItemCount(b)
    <3>1. Items(sub) \in Seq(Node) /\ Len(Items(sub)) = ItemCount(sub)
      BY <1>4, InLoop, LiveItems
    <3> QED
      BY <2>1, <2>4, <3>1
  <2>7. d - 1 = k /\ d \in 1 .. Len(s)
    BY <1>7, <2>2, <2>4, <2>6
  <2>8. /\ ItemCount(r) = Len(s) - 1
        /\ \A i \in 1 .. Len(s) - 1 : Items(r)[i] = IF i <= d - 1 THEN s[i] ELSE s[i + 1]
    BY <2>3, <2>4, <2>6, <2>7
  <2>9. Items(r) = RemoveAt(s, d)
    BY <2>6, <2>7, <2>8, ItemsRemoved
  <2> QED
    BY <1>9, <2>5, <2>9
<1>11. ASSUME NEW q \in 1 .. Len(old),
              \A j \in 2 .. (n + 1) + 1 : Given(Elems[j], old) < q - 1
       PROVE  CountTo(Spared(n + 1), q) = q - (n + 1)
  <2>1. n + 2 \in 2 .. (n + 1) + 1 /\ \A j \in 2 .. n + 1 : j \in 2 .. (n + 1) + 1
    BY <1>4
  <2>2. Given(Elems[n + 2], old) < q - 1
    BY <1>11, <2>1
  <2>3. q > m /\ q \in Nat
    <3>1. n + 2 \in 2 .. Len(Elems)
      BY <1>2, <1>4, RemovalAsked
    <3>2. Given(Elems[n + 2], old) \in Int
      BY <1>4, <3>1, RemovalAsked
    <3> QED
      BY <1>1, <1>11, <2>2, <3>2
  <2>4. CountTo(S, q) = q - n
    BY <1>4, <1>6, <1>11, <2>1
  <2>5. CountTo(S \ {m}, q) = CountTo(S, q) - 1
    <3>1. q >= m
      BY <1>7, <2>3
    <3> QED
      BY <1>9, <2>3, <3>1
  <2>6. n \in Nat
    BY <1>4
  <2>7. (q - n) - 1 = q - (n + 1)
    BY <2>3, <2>6
  <2>8. CountTo(S \ {m}, q) = (q - n) - 1
    BY <2>4, <2>5, Zenon
  <2> QED
    BY <1>8, <2>7, <2>8, Zenon
<1>12. /\ Promised' = Promised /\ Elems' = Elems /\ New' = New
       /\ StepKind' = StepKind /\ (IsRemoval <=> IsRemoval')
  BY <1>5, SameCall
<1>13. \A i : Spared(i)' = Spared(i)
  BY <1>5, <1>12 DEF Spared
<1>14. Removing'
  <2>1. Spared(n)' = Spared(n + 1)
    BY <1>5, <1>12 DEF Spared
  <2> QED
    BY <1>4, <1>5, <1>8, <1>10, <1>11, <1>12, <2>1 DEF Removing
<1> QED
  BY <1>2, <1>4, <1>5, <1>14 DEF AsAsked, Loops, RemoveNext

\* A removal that has come to the end has taken all the positions.
LEMMA EndRemovalRefines ==
  ASSUME RInv, AsAsked, EndRemoval
  PROVE  Done
<1>1. pc = "remove" /\ n = Len(Locations) /\ exprList
  BY DEF EndRemoval, AsAsked
<1>2. /\ StepKind = "nil" /\ IsRemoval /\ WellFormed(req, old)
      /\ Items(sub) = Selected(old, Spared(n))
      /\ Len(old) \in Nat
      /\ \A i \in 2 .. Len(Elems) : ~Misplaced(Elems[i])
  BY <1>1, InRemoval
<1>3. Len(Elems) \in Nat /\ Len(Locations) = Len(Elems) - 1
      /\ \A i \in 2 .. Len(Elems) : Locations[i - 1] = Elems[i] /\ Given(Elems[i], old) \in Int
  BY <1>2, RemovalAsked
<1>4. Removed \subseteq 0 .. Len(old) - 1
  <2>1. ASSUME NEW j \in 1 .. Len(Locations) PROVE ~Misplaced(Locations[j])
    <3>1. j + 1 \in 2 .. Len(Elems) /\ (j + 1) - 1 = j
      BY <1>3
    <3> QED
      BY <1>2, <1>3, <3>1
  <2> QED
    BY <1>2, <2>1, RefusedRemoval
<1>5. Spared(n) = {k \in 1 .. Len(old) : k - 1 \notin Removed}
  <2>1. n + 1 = Len(Elems)
    BY <1>1, <1>3
  <2> QED
    BY <2>1 DEF Spared, Removed, Elems, Val
<1>6. Items(sub) = Promised
  BY <1>2, <1>4, <1>5, PromisedOfList
<1> QED
  BY <1>1, <1>6 DEF EndRemoval, Return, ReturnWith, Done

\* A well-formed removal that has begun refuses no position.
LEMMA NothingRefused ==
  ASSUME RInv, AsAsked PROVE ~RefuseLocation
<1> SUFFICES ASSUME RefuseLocation PROVE FALSE
  OBVIOUS
<1>1. pc = "remove" /\ n < Len(Locations)
      /\ (Locations[n + 1].kind = "int" => Misplaced(Locations[n + 1]))
  BY DEF RefuseLocation
<1>2. /\ StepKind = "nil" /\ IsRemoval /\ WellFormed(req, old) /\ n \in Nat
      /\ \A i \in 2 .. Len(Elems) : ~Misplaced(Elems[i])
  BY <1>1, InRemoval
<1>3. Len(Elems) \in Nat /\ Len(Locations) = Len(Elems) - 1
      /\ \A i \in 2 .. Len(Elems) : Locations[i - 1] = Elems[i] /\ Elems[i].kind = "int"
  BY <1>2, RemovalAsked
<1>4. n + 2 \in 2 .. Len(Elems) /\ (n + 2) - 1 = n + 1
  BY <1>1, <1>2, <1>3
<1>5. Locations[n + 1] = Elems[n + 2] /\ Elems[n + 2].kind = "int" /\ ~Misplaced(Elems[n + 2])
  BY <1>2, <1>3, <1>4
<1> QED
  BY <1>1, <1>5

LEMMA LoopRefines ==
  ASSUME RInv, AsAsked, LoopTurn
  PROVE  Done \/ (AsAsked' /\ pc' # "idle" /\ UNCHANGED <<req, old>>)
<1>1. CASE SpliceInsert
  BY <1>1, SpliceKeepsAsked
<1>2. CASE EndSplice
  BY <1>2, EndSpliceRefines
<1>3. CASE ReplaceNext
  BY <1>3, ReplaceKeepsAsked
<1>4. CASE EndReplace
  BY <1>4, EndReplaceRefines
<1>5. CASE RemoveNext
  BY <1>5, RemoveKeepsAsked
<1>6. CASE EndRemoval
  BY <1>6, EndRemovalRefines
<1> QED
  BY <1>1, <1>2, <1>3, <1>4, <1>5, <1>6, NothingSkipped, NothingPastEnd, NothingRefused
     DEF LoopTurn

-----------------------------------------------------------------------------
(***************************************************************************)
(* The invariant of well-formed calls.                                     *)
(***************************************************************************)
LEMMA InitAsked == Init => AsAsked
  BY DEF Init, AsAsked, Loops

LEMMA IdleSlots == ASSUME RInv, pc = "idle" PROVE Slots(sub) = Items(sub)
<1>1. Alternating(sub) /\ sub \in Seq(Node \cup {Comma})
  BY DEF RInv, IInv, TypeOK, Regular, Live, Ended
<1> QED
  BY <1>1, SlotsOfAlternating

LEMMA ReceiveAsked ==
  ASSUME RInv, AsAsked, NEW r \in Requests, WellFormed(r, Items(sub)), Receive(r)
  PROVE  AsAsked'
<1>1. pc' = "dispatch" /\ req' = r /\ old' = Items(sub) /\ exprList' = exprList
  BY IdleSlots DEF Receive
<1>2. WellFormed(req, old)'
  BY <1>1
<1> QED
  BY <1>1, <1>2 DEF AsAsked, Loops

LEMMA DoneAsked == Done => AsAsked'
  BY DEF Done, AsAsked

LEMMA StutterAsked == AsAsked /\ UNCHANGED vars => AsAsked'
<1> SUFFICES ASSUME AsAsked, UNCHANGED vars PROVE AsAsked'
  OBVIOUS
<1>1. UNCHANGED <<sub, exprList, pc, req, old, n, at>>
  BY DEF vars
<1>2. /\ Promised' = Promised /\ Elems' = Elems /\ New' = New
      /\ Val' = Val /\ StepKind' = StepKind /\ (IsRemoval <=> IsRemoval')
  BY <1>1, SameCall
<1>3. \A i : Spared(i)' = Spared(i)
  BY <1>1, <1>2 DEF Spared
<1>4. Splicing => Splicing'
  BY <1>1, <1>2 DEF Splicing
<1>5. Replacing => Replacing'
  BY <1>1, <1>2 DEF Replacing
<1>6. Removing => Removing'
  BY <1>1, <1>2, <1>3 DEF Removing
<1>7. WellFormed(req, old) => WellFormed(req, old)'
  BY <1>1
<1> QED
  BY <1>1, <1>4, <1>5, <1>6, <1>7 DEF AsAsked

LEMMA RunRefines ==
  ASSUME RInv, AsAsked, Dispatch \/ LoopTurn
  PROVE  Done \/ (AsAsked' /\ pc' # "idle" /\ UNCHANGED <<req, old>>)
  BY DispatchRefines, LoopRefines

LEMMA NextAsked == RInv /\ AsAsked /\ [WFNext]_vars => AsAsked'
<1> SUFFICES ASSUME RInv, AsAsked, [WFNext]_vars PROVE AsAsked'
  OBVIOUS
<1>1. CASE \E r \in Requests : WellFormed(r, Items(sub)) /\ Receive(r)
  BY <1>1, ReceiveAsked
<1>2. CASE Dispatch \/ LoopTurn
  BY <1>2, RunRefines, DoneAsked
<1>3. CASE UNCHANGED vars
  BY <1>3, StutterAsked
<1> QED
  BY <1>1, <1>2, <1>3 DEF WFNext

\* No well-formed call adds to the list by assignment.
LEMMA NextRegular == RInv /\ AsAsked /\ [WFNext]_vars => RInv'
<1> SUFFICES ASSUME RInv, AsAsked, [WFNext]_vars PROVE RInv'
  OBVIOUS
<1>1. [Next]_vars /\ ~ReplacePastEnd /\ ~Extend
  BY NothingPastEnd DEF WFNext, Next
<1> QED
  BY <1>1, MostStepsKeep DEF RInv, Kept

LEMMA AlwaysAsAsked == WellFormedSpec => [](RInv /\ AsAsked)
<1>1. Init => RInv /\ AsAsked
  BY InitInv, InitAsked DEF RInv
<1> QED
  BY <1>1, NextRegular, NextAsked, PTL DEF WellFormedSpec

-----------------------------------------------------------------------------
(***************************************************************************)
(* The step of ItemList a step of the code is.                             *)
(***************************************************************************)
\* The definitions ItemList has of its own.
LEMMA AbstractApplied ==
  ASSUME NEW e, NEW s PROVE Abstract!Applied(e, s) = Applied(e, s)
<1>c. \A S : Abstract!Cardinality(S) = Cardinality(S)
  BY DEF Abstract!Cardinality, Cardinality
<1>p. \A S, p : Abstract!CountTo(S, p) = CountTo(S, p)
  BY <1>c DEF Abstract!CountTo, CountTo
<1>n. \A S, k : Abstract!NthPlace(S, k) = NthPlace(S, k)
  BY <1>p, Zenon DEF Abstract!NthPlace, NthPlace
<1>1. \A t, S : Abstract!Selected(t, S) = Selected(t, S)
  BY <1>c, <1>n DEF Abstract!Selected, Selected
<1>2. \A D : Abstract!Without(s, D) = Without(s, D)
  BY <1>1 DEF Abstract!Without, Without
<1>3. \A k, new : Abstract!SpliceIn(s, k, new) = SpliceIn(s, k, new)
  BY DEF Abstract!SpliceIn, SpliceIn
<1> QED
  BY <1>2, <1>3 DEF Abstract!Applied, Applied

\* The number of an item is one, whatever names it.
LEMMA ItemNamedType ==
  ASSUME NEW step \in Step, NEW s \in Seq(Node)
  PROVE  ItemNamed(step, s) \in Nat
<1>1. step.n \in Int /\ Len(s) \in Nat
  BY DEF Step
<1>2. IndexNamed(step, Len(s)) \in Nat
  BY <1>1 DEF IndexNamed
<1> DEFINE found == {k \in 1 .. Len(s) : s[k] = [tid |-> "STRING", s |-> step.s]}
<1>3. CASE step.kind = "str" /\ found # {}
  <2> DEFINE c == CHOOSE k \in found : \A j \in found : k <= j
  <2>1. found \in SUBSET Nat /\ found \subseteq 1 .. Len(s)
    BY <1>1
  <2>2. ItemNamed(step, s) = c - 1
    BY <1>3 DEF ItemNamed
  <2> HIDE DEF found
  <2>3. c \in found
    BY <1>3, <2>1, LeastElement
  <2> HIDE DEF c
  <2> QED
    BY <1>1, <2>1, <2>2, <2>3
<1>4. CASE ~(step.kind = "str" /\ found # {})
  BY <1>1, <1>2, <1>4 DEF ItemNamed
<1> QED
  BY <1>3, <1>4

\* The edit a well-formed call asks for is one of ItemList's.
IsEdit(e) == e \in Abstract!Edit /\ e.op \notin {"none", "unspecified"}

LEMMA EditIs ==
  ASSUME NEW op \in {"refused", "replace", "before", "after", "drop", "assign"},
         NEW places \in SUBSET Nat, NEW new \in Seq(Node)
  PROVE  IsEdit([op |-> op, at |-> places, new |-> new])
  BY DEF IsEdit, Abstract!Edit, Abstract!Ops

LEMMA EditOfItemType == ASSUME RInv PROVE IsEdit(EditOfItem(req, old))
<1> DEFINE k == ItemNamed(req.step, old)
           E(op, items) == [op |-> op, at |-> {k}, new |-> items]
           Set(tid) == <<[tid |-> tid, s |-> Val.s]>>
<1>1. k \in Nat
  BY ItemNamedType, RequestType DEF RInv, IInv, Regular
<1>2. EditOfItem(req, old) \in
        {E("refused", << >>), E("drop", << >>), E("before", New), E("after", New),
         E("replace", Set("ID")), E("replace", Set("STRING")), E("replace", Set("INT"))}
  <2> HIDE DEF k
  <2>1. CASE k \notin 0 .. Len(old) - 1
    <3>1. EditOfItem(req, old) = E("refused", << >>)
      BY <2>1 DEF EditOfItem, k
    <3> QED
      BY <3>1
  <2>2. CASE k \in 0 .. Len(old) - 1
    <3> DEFINE f == EditOfItem(req, old)
    <3>1. \/ Val.kind = "null" /\ f = E("drop", << >>)
          \/ Val.kind = "sym" /\ f = E("replace", Set("ID"))
          \/ f = E("replace", Set("STRING"))
          \/ f = E("replace", Set("INT"))
          \/ f = E("before", New)
          \/ f = E("after", New)
          \/ f = E("refused", << >>)
      BY <2>2 DEF EditOfItem, Val, New, Elems, k
    <3> QED
      BY <3>1
  <2> QED
    BY <2>1, <2>2
<1>3. New \in Seq(Node)
  BY NewType
<1>4. \A tid \in {"STRING", "INT", "ID"} : Set(tid) \in Seq(Node)
  <2>1. Val.s \in Texts \cup Int
    BY RequestType DEF RInv, IInv, Value
  <2>2. \A tid \in {"STRING", "INT", "ID"} : [tid |-> tid, s |-> Val.s] \in Node
    BY <2>1 DEF Node
  <2> QED
    BY <2>2, OneAndTwo
<1>5. << >> \in Seq(Node) /\ {k} \in SUBSET Nat
  BY <1>1
<1> HIDE DEF k
<1> QED
  BY <1>2, <1>3, <1>4, <1>5, EditIs

LEMMA EditType == ASSUME RInv, WellFormed(req, old) PROVE IsEdit(EditOf(req, old))
<1> DEFINE E(op, places, items) == [op |-> op, at |-> places, new |-> items]
<1>1. << >> \in Seq(Node) /\ {} \in SUBSET Nat
  OBVIOUS
<1>2. CASE StepKind = "star"
  <2>1. EditOf(req, old) = E("assign", {}, << >>)
    BY <1>2 DEF EditOf, StepKind
  <2> QED
    BY <1>1, <2>1, EditIs
<1>3. CASE StepKind = "nil"
  <2>1. EditOf(req, old) = EditOfList(req, old)
    BY <1>3 DEF EditOf, StepKind
  <2>2. CASE ~IsRemoval
    <3>1. EditOfList(req, old) = E("assign", {}, New)
      BY <2>2 DEF EditOfList, IsRemoval, New, Elems, Val
    <3>2. New \in Seq(Node)
      BY NewType
    <3> QED
      BY <1>1, <2>1, <3>1, <3>2, EditIs
  <2>3. CASE IsRemoval /\ Removed \subseteq 0 .. Len(old) - 1
    <3>1. EditOfList(req, old) = E("drop", Removed, << >>)
      BY <2>3 DEF EditOfList, IsRemoval, Removed, Elems, Val
    <3>2. Removed \in SUBSET Nat
      <4>1. 0 .. Len(old) - 1 \subseteq Nat
        OBVIOUS
      <4> QED
        BY <2>3, <4>1
    <3> QED
      BY <1>1, <2>1, <3>1, <3>2, EditIs
  <2>4. CASE IsRemoval /\ ~(Removed \subseteq 0 .. Len(old) - 1)
    <3>1. EditOfList(req, old) = E("refused", {}, << >>)
      BY <2>4 DEF EditOfList, IsRemoval, Removed, Elems, Val
    <3> QED
      BY <1>1, <2>1, <3>1, EditIs
  <2> QED
    BY <2>2, <2>3, <2>4
<1>4. CASE StepKind \notin {"star", "nil"}
  <2>1. EditOf(req, old) = EditOfItem(req, old)
    BY <1>4 DEF EditOf, StepKind
  <2> QED
    BY <2>1, EditOfItemType
<1> QED
  BY <1>2, <1>3, <1>4

LEMMA RunsInside == Dispatch \/ LoopTurn => pc # "idle"
  BY DispatchPlace, LoopPlace DEF Loops

\* While a call runs, what it asks for is an edit.
EditAsked == IsRunning => IsEdit(EditOf(req, old))

LEMMA RunningAsks == RInv /\ AsAsked => EditAsked
  BY EditType DEF AsAsked, IsRunning, EditAsked

LEMMA EditIsNone == \A e : IsEdit(e) => e \in Abstract!Edit \ {Abstract!NoEdit} /\ e.op # "unspecified"
<1>1. Abstract!NoEdit.op = "none"
  BY DEF Abstract!NoEdit
<1> QED
  BY <1>1 DEF IsEdit

LEMMA StepRefines ==
  ASSUME RInv, AsAsked, EditAsked', [WFNext]_vars
  PROVE  [Abstract!Begin \/ Abstract!Finish]_(Abstract!ivars)
<1> DEFINE items == IF IsRunning THEN old ELSE Items(sub)
           edit  == IF IsRunning THEN EditOf(req, old)
                                 ELSE [op |-> "none", at |-> {}, new |-> << >>]
<1>1. UNCHANGED <<items, edit>> => UNCHANGED Abstract!ivars
  BY DEF Abstract!ivars
<1>2. CASE \E r \in Requests : WellFormed(r, Items(sub)) /\ Receive(r)
  <2>1. pc = "idle" /\ pc' = "dispatch" /\ sub' = sub /\ old' = Items(sub)
    BY <1>2, IdleSlots DEF Receive
  <2>2. ~IsRunning /\ IsRunning' /\ items' = items /\ edit = Abstract!NoEdit
    BY <2>1 DEF IsRunning, Abstract!NoEdit
  <2>3. edit' \in Abstract!Edit \ {Abstract!NoEdit}
    <3>1. edit' = EditOf(req', old') /\ IsEdit(EditOf(req', old'))
      BY <2>2 DEF EditAsked, IsEdit, Abstract!Edit
    <3> QED
      BY <3>1, EditIsNone
  <2> QED
    BY <2>2, <2>3 DEF Abstract!Begin
<1>3. CASE Dispatch \/ LoopTurn
  <2>1. IsRunning
    BY <1>3, RunsInside DEF IsRunning
  <2>2. CASE Done
    <3>1. items = old /\ items' = Items(sub') /\ edit = EditOf(req, old) /\ edit' = Abstract!NoEdit
      BY <2>1, <2>2 DEF Done, IsRunning, Abstract!NoEdit
    <3>2. edit # Abstract!NoEdit /\ edit.op # "unspecified"
      <4>1. IsEdit(EditOf(req, old))
        BY <2>1, RunningAsks DEF EditAsked
      <4> QED
        BY <3>1, <4>1, EditIsNone
    <3>3. items' = Abstract!Applied(edit, items)
      BY <2>2, <3>1, AbstractApplied DEF Done, Promised
    <3> HIDE DEF items, edit
    <3> QED
      BY <3>1, <3>2, <3>3 DEF Abstract!Finish, items, edit
  <2>3. CASE pc' # "idle" /\ UNCHANGED <<req, old>>
    <3>1. IsRunning' /\ req' = req /\ old' = old
      BY <2>3 DEF IsRunning
    <3>2. UNCHANGED <<items, edit>>
      BY <2>1, <3>1
    <3> QED
      BY <1>1, <3>2
  <2> QED
    BY <1>3, <2>2, <2>3, RunRefines
<1>4. CASE UNCHANGED vars
  <2>1. UNCHANGED <<sub, pc, req, old>>
    BY <1>4 DEF vars
  <2>2. UNCHANGED <<items, edit>>
    BY <2>1 DEF IsRunning
  <2> QED
    BY <1>1, <2>2
<1> QED
  BY <1>2, <1>3, <1>4 DEF WFNext

\* Each well-formed call of set! on a list value does to its items, in one step
\* as far as the script can tell, what the README says of it: the loops over
\* the flat array of items and commas add up to one edit of the list.
THEOREM VectorEditsAreAtomic ==
  WellFormedSpec => Abstract!ItemListInit /\ [][Abstract!Begin \/ Abstract!Finish]_(Abstract!ivars)
<1>1. Init => Abstract!ItemListInit
  <2>1. SUFFICES ASSUME Init PROVE Abstract!ItemListInit
    OBVIOUS
  <2>2. ~IsRunning
    BY <2>1 DEF Init, IsRunning
  <2>3. Items(sub) \in Seq(Node)
    <3>1. TypeOK /\ Alternating(sub)
      BY <2>1, InitInv DEF Init, IInv, Regular, Live, Ended
    <3> QED
      BY <3>1, LiveItems
  <2> QED
    BY <2>2, <2>3 DEF Abstract!ItemListInit, Abstract!NoEdit
<1>2. RInv /\ AsAsked => EditAsked
  BY RunningAsks
<1>3. RInv /\ AsAsked /\ EditAsked' /\ [WFNext]_vars
        => [Abstract!Begin \/ Abstract!Finish]_(Abstract!ivars)
  BY StepRefines
<1> QED
  BY <1>1, <1>2, <1>3, AlwaysAsAsked, PTL DEF WellFormedSpec

\* The editing of list values implements the list of the README for well-formed
\* calls.  That every edit takes effect follows if every call returns, which is
\* liveness; that a well-formed call never kills the program is proved.
THEOREM VectorImplementsItemList == WellFormedSpec /\ CallReturns => ImplementsItemList
<1> DEFINE Mapped == (IF IsRunning THEN EditOf(req, old)
                      ELSE [op |-> "none", at |-> {}, new |-> << >>]) = Abstract!NoEdit
<1>1. Init => pc = "idle"
  BY DEF Init
<1>2. [WFNext]_vars /\ pc = "idle" => (pc \in {"idle", "dispatch"})'
  BY RunsInside DEF WFNext, Receive, vars
<1>3. pc \in {"idle", "dispatch"} => pc = "idle" \/ pc = "dispatch"
  OBVIOUS
<1>4. AsAsked /\ pc \in {"idle"} \cup Ended => pc = "idle"
  BY DEF AsAsked, Loops, Ended
<1>5. pc = "idle" => Mapped
  BY DEF IsRunning, Abstract!NoEdit
<1> QED
  BY <1>1, <1>2, <1>3, <1>4, <1>5, AlwaysAsAsked, VectorEditsAreAtomic, PTL
     DEF WellFormedSpec, CallReturns, ImplementsItemList, Abstract!ItemListSpec
=============================================================================
