---------------------------- MODULE ArglistProofs ----------------------------
(***************************************************************************)
(* Theorems about ArglistMutators, for every set of names and values,      *)
(* every set of calls, every set of parsed targets and every width of int. *)
(***************************************************************************)
EXTENDS ArglistRefinement, CommaListLemmas, SequenceLemmas

\* Outside a splice the locals are reset and old is what the target has; a
\* call has no outcome before it returns.
AtRest ==
  /\ pc # "splice" => n = 0 /\ old = Items(args)
  /\ pc \in {"dispatch", "splice"} => outcome = "none"

\* The inductive invariant.
IInv == TypeOK /\ CommaDiscipline /\ AtRest /\ SpliceIsContiguous

-----------------------------------------------------------------------------
LEMMA AnyRequestType == AnyRequest \in Requests
  BY RequestsAssumption DEF AnyRequest

\* The parts of a request.
LEMMA RequestType ==
  ASSUME TypeOK
  PROVE  /\ req.step \in Step
         /\ Val \in Value
         /\ Val.b \in Binding
         /\ Elems \in Seq(Elem)
         /\ Len(Elems) \in Nat
         /\ \A i \in 1 .. Len(Elems) : Elems[i] \in Elem
<1>1. req \in Request
  BY RequestsAssumption DEF TypeOK
<1>2. req.step \in Step /\ Val \in Value
  BY <1>1 DEF Request, Val
<1>3. Val.b \in Binding /\ Elems \in Seq(Elem)
  BY <1>2 DEF Value, Val, Elems
<1> QED
  BY <1>2, <1>3

LEMMA ElemBinding == ASSUME NEW e \in Elem, e.kind = "binding" PROVE e.b \in Binding
  BY DEF Elem

LEMMA PositionType ==
  ASSUME IInv, IndexStep
  PROVE  Position \in Int
<1>1. ItemCount(args) \in Nat
  BY AlternatingLength DEF IInv, TypeOK, CommaDiscipline
<1>2. req.step \in Step /\ CInt(req.step.n) \in Int
  BY RequestType, CIntType DEF IInv, Step
<1>3. KwIndex(req.step) \in Int
  BY <1>2 DEF KwIndex, Step
<1> QED
  BY <1>1, <1>3 DEF Position, Normalize, CAbs

\* What is known of the arg_list in every state.
LEMMA ArgsType ==
  ASSUME IInv
  PROVE  /\ args \in Seq(Binding \cup {Comma}) /\ Alternating(args)
         /\ Items(args) \in Seq(Binding)
         /\ ItemCount(args) \in Nat
         /\ Len(Items(args)) = ItemCount(args)
         /\ args # << >> => Len(args) = 2 * ItemCount(args) - 1
         /\ args = << >> <=> ItemCount(args) = 0
<1>1. args \in Seq(Binding \cup {Comma}) /\ Alternating(args)
  BY DEF IInv, TypeOK, CommaDiscipline
<1>2. Items(args) \in Seq(Binding) /\ Len(Items(args)) = ItemCount(args)
  BY <1>1, ItemsType, Zenon
<1> QED
  BY <1>1, <1>2, AlternatingLength

-----------------------------------------------------------------------------
(***************************************************************************)
(* The ways a step can end a call.                                         *)
(***************************************************************************)
LEMMA ReturnKeeps ==
  ASSUME NEW a \in Seq(Binding \cup {Comma}), Alternating(a), NEW e \in Errnos,
         NEW out \in {"none", "ok", "error"}, ReturnWith(a, e, out), rule' \in Keys
  PROVE  IInv'
<1>1. Items(a) \in Seq(Binding)
  BY ItemsType
<1>2. TypeOK'
  BY <1>1, AnyRequestType DEF ReturnWith, TypeOK
<1> QED
  BY <1>2 DEF ReturnWith, IInv, CommaDiscipline, AtRest, SpliceIsContiguous

LEMMA FailKeeps ==
  ASSUME IInv, NEW e \in Errnos, Fail(e)
  PROVE  IInv'
  BY ReturnKeeps, ArgsType DEF Fail, IInv, TypeOK

LEMMA SucceedKeeps ==
  ASSUME IInv, NEW a \in Seq(Binding \cup {Comma}), Alternating(a),
         NEW e \in Errnos, Succeed(a, e)
  PROVE  IInv'
  BY ReturnKeeps DEF Succeed, IInv, TypeOK

LEMMA HaltKeeps ==
  ASSUME IInv, pc = "dispatch", NEW how \in {"crashed", "exited"}, Halt(how)
  PROVE  IInv'
  BY DEF Halt, IInv, TypeOK, CommaDiscipline, AtRest, SpliceIsContiguous

\* sealark_arglist_replace_binding_at_int, at any number it is given
LEMMA ReplaceKeeps ==
  ASSUME IInv, NEW k \in Int, NEW e \in Errnos, ReplaceBindingAt(k, e)
  PROVE  IInv'
<1>1. CASE k \in 0 .. ItemCount(args) - 1
  <2>1. Val.b \in Binding /\ Val.b # Comma
    BY RequestType, CommaAssumption DEF IInv
  <2>2. /\ SetItem(args, k, Val.b) \in Seq(Binding \cup {Comma})
        /\ Alternating(SetItem(args, k, Val.b))
    BY <1>1, <2>1, ArgsType, SetItemAlternates
  <2> QED
    BY <1>1, <2>2, SucceedKeeps DEF ReplaceBindingAt
<1>2. CASE k \notin 0 .. ItemCount(args) - 1
  BY <1>2, FailKeeps DEF ReplaceBindingAt, Errnos
<1> QED
  BY <1>1, <1>2
-----------------------------------------------------------------------------
(***************************************************************************)
(* The dispatch.                                                           *)
(***************************************************************************)

\* The first binding of a name is one of the target's bindings.
LEMMA FirstNamedType ==
  ASSUME IInv, Named # {}
  PROVE  FirstNamed \in 0 .. ItemCount(args) - 1
<1>1. Named \in SUBSET Nat /\ Named \subseteq 0 .. ItemCount(args) - 1
  BY ArgsType DEF Named
<1>2. \E k \in Named : \A j \in Named : k <= j
  BY <1>1, LeastElement
<1> QED
  BY <1>1, <1>2 DEF FirstNamed

LEMMA BeginSpliceKeeps ==
  ASSUME IInv, BeginSplice
  PROVE  IInv'
<1>1. /\ pc = "dispatch" /\ pc' = "splice" /\ n' = 0 /\ old' = Items(args)
      /\ errno' \in Errnos
      /\ UNCHANGED <<args, rule, req, old, n, outcome>>
  BY DEF BeginSplice, IndexStep, StepOnArgs, IInv, AtRest, Errnos
<1>2. at' \in Int
  BY PositionType, ArgsType DEF BeginSplice, Normalize, CAbs
<1>3. TypeOK' /\ CommaDiscipline'
  BY <1>1, <1>2 DEF IInv, TypeOK, CommaDiscipline
<1>4. Elems' = Elems /\ Len(Elems) \in Nat
  BY <1>1, RequestType DEF Elems, IInv
<1>5. SpliceIsContiguous'
  <2>1. Items(args') = [k \in 1 .. Len(old') + 0 |->
                          IF k <= at' THEN old'[k]
                          ELSE IF k <= at' + 0 THEN Elems'[k - at'].b
                          ELSE old'[k - 0]]
    BY <1>1, <1>2, ArgsType
  <2> QED
    BY <1>1, <1>4, <2>1 DEF SpliceIsContiguous
<1> QED
  BY <1>1, <1>3, <1>5 DEF IInv, AtRest

LEMMA DispatchKeeps ==
  ASSUME IInv, Dispatch
  PROVE  IInv'
<1>1. pc = "dispatch"
  BY DEF Dispatch, StringStep, ClearAll, ExitOnKeyword, InvalidStep, KeyNotFound,
     RemoveNamed, ReplaceNamed, RefuseForNamed, RemoveAtIndex, ReplaceAtIndex, RefuseAtIndex,
     BeginSplice, ClearTarget, SetRule, RefuseRule, IgnoreStep, SymbolStep, IndexStep,
     StepOnArgs, StepOnTarget
<1>2. errno \in Errnos
  BY DEF IInv, TypeOK
<1>3. << >> \in Seq(Binding \cup {Comma}) /\ Alternating(<< >>)
  BY DEF Alternating
<1>4. CASE StringStep
  BY <1>2, <1>4, FailKeeps DEF StringStep
<1>5. CASE ClearAll
  BY <1>3, <1>5, SucceedKeeps DEF ClearAll, Errnos
<1>6. CASE ExitOnKeyword
  BY <1>1, <1>6, HaltKeeps DEF ExitOnKeyword
<1>7. CASE InvalidStep
  BY <1>7, FailKeeps DEF InvalidStep, Errnos
<1>8. CASE KeyNotFound
  BY <1>8, FailKeeps DEF KeyNotFound, Errnos
<1>9. CASE RemoveNamed
  <2>1. FirstNamed \in 0 .. ItemCount(args) - 1
    BY <1>9, FirstNamedType DEF RemoveNamed
  <2>2. KeyIndex \div 2 = FirstNamed
    BY <2>1, ArgsType DEF KeyIndex
  <2>3. /\ RemoveItem(args, KeyIndex \div 2) \in Seq(Binding \cup {Comma})
        /\ Alternating(RemoveItem(args, KeyIndex \div 2))
    BY <2>1, <2>2, ArgsType, RemoveItemAlternates
  <2> QED
    BY <1>9, <2>3, SucceedKeeps DEF RemoveNamed, Errnos
<1>10. CASE ReplaceNamed
  <2>1. KeyIndex \in Int
    BY <1>10, FirstNamedType, ArgsType DEF ReplaceNamed, KeyIndex
  <2> QED
    BY <1>10, <2>1, ReplaceKeeps DEF ReplaceNamed, Errnos
<1>11. CASE RefuseForNamed
  BY <1>1, <1>11, FailKeeps, HaltKeeps DEF RefuseForNamed, Errnos
<1>12. CASE RemoveAtIndex
  <2>1. CASE Position \in 0 .. ItemCount(args) - 1
    BY <1>12, <2>1, ArgsType, RemoveItemAlternates, SucceedKeeps DEF RemoveAtIndex, Errnos
  <2>2. CASE Position \notin 0 .. ItemCount(args) - 1
    BY <1>12, <2>2, FailKeeps DEF RemoveAtIndex, Errnos
  <2> QED
    BY <2>1, <2>2
<1>13. CASE ReplaceAtIndex
  BY <1>13, PositionType, ReplaceKeeps DEF ReplaceAtIndex, Errnos
<1>14. CASE RefuseAtIndex
  BY <1>14, FailKeeps DEF RefuseAtIndex, Errnos
<1>15. CASE BeginSplice
  BY <1>15, BeginSpliceKeeps
<1>16. CASE ClearTarget
  BY <1>2, <1>3, <1>16, SucceedKeeps DEF ClearTarget
<1>17. CASE SetRule
  <2>1. rule' \in Keys
    BY <1>17, RequestType DEF SetRule, IInv, Binding
  <2> QED
    BY <1>2, <1>17, <2>1, ArgsType, ReturnKeeps DEF SetRule
<1>18. CASE RefuseRule
  BY <1>18, FailKeeps DEF RefuseRule, Errnos
<1>19. CASE IgnoreStep
  BY <1>2, <1>19, ArgsType, FailKeeps, SucceedKeeps DEF IgnoreStep
<1> QED
  BY <1>4, <1>5, <1>6, <1>7, <1>8, <1>9, <1>10, <1>11, <1>12, <1>13, <1>14, <1>15,
     <1>16, <1>17, <1>18, <1>19 DEF Dispatch
-----------------------------------------------------------------------------
(***************************************************************************)
(* The turns of a splice.                                                  *)
(***************************************************************************)

\* What is known in a splice: how many bindings there are.
LEMMA InSplice ==
  ASSUME IInv, pc = "splice"
  PROVE  /\ n \in Nat /\ at \in Int /\ errno \in Errnos
         /\ old \in Seq(Binding) /\ Len(old) \in Nat
         /\ ItemCount(args) = Len(old) + n
         /\ n > 0 => at \in 0 .. Len(old)
         /\ Items(args) = [k \in 1 .. Len(old) + n |->
                             IF k <= at THEN old[k]
                             ELSE IF k <= at + n THEN Elems[k - at].b
                             ELSE old[k - n]]
<1>1. n \in Nat /\ at \in Int /\ errno \in Errnos /\ old \in Seq(Binding) /\ Len(old) \in Nat
  BY DEF IInv, TypeOK
<1>2. /\ n > 0 => at \in 0 .. Len(old)
      /\ Items(args) = [k \in 1 .. Len(old) + n |->
                          IF k <= at THEN old[k]
                          ELSE IF k <= at + n THEN Elems[k - at].b
                          ELSE old[k - n]]
  BY DEF IInv, SpliceIsContiguous
<1>3. Len(old) + n \in Nat /\ DOMAIN Items(args) = 1 .. Len(old) + n
  BY <1>1, <1>2
<1>4. DOMAIN Items(args) = 1 .. ItemCount(args) /\ ItemCount(args) \in Nat
  BY ArgsType DEF Items
<1>5. ItemCount(args) = Len(old) + n
  BY <1>3, <1>4
<1> QED
  BY <1>1, <1>2, <1>5

LEMMA SpliceNextKeeps ==
  ASSUME IInv, SpliceNext
  PROVE  IInv'
<1> DEFINE x == Elems[n + 1].b
           ct == Len(old) + n
<1>1. /\ pc = "splice" /\ n < Len(Elems) /\ Elems[n + 1].kind = "binding"
      /\ at + n \in 0 .. ItemCount(args)
      /\ args' = InsertItem(args, at + n, x)
      /\ n' = n + 1 /\ errno' = "OK"
      /\ rule' = rule /\ pc' = pc /\ req' = req /\ old' = old /\ at' = at
      /\ outcome' = outcome
  BY DEF SpliceNext, Turn
<1>2. x \in Binding /\ x # Comma /\ Len(Elems) \in Nat
  <2>1. n + 1 \in 1 .. Len(Elems)
    BY <1>1, InSplice, RequestType DEF IInv
  <2> QED
    BY <1>1, <2>1, RequestType, ElemBinding, CommaAssumption DEF IInv
<1> HIDE DEF x
<1>3. args' \in Seq(Binding \cup {Comma}) /\ Alternating(args')
  BY <1>1, <1>2, ArgsType, InsertItemAlternates
<1>4. at \in 0 .. Len(old) /\ ItemCount(args) = ct /\ ct \in Nat /\ n \in Nat
  BY <1>1, InSplice
<1>5. /\ ItemCount(args') = ct + 1
      /\ \A i \in 1 .. ct + 1 :
           Items(args')[i] = IF i <= at + n THEN Items(args)[i]
                             ELSE IF i = at + n + 1 THEN x ELSE Items(args)[i - 1]
  <2> DEFINE S == Binding \cup {Comma}
  <2>1. args \in Seq(S) /\ Alternating(args) /\ x \in S /\ Comma \in S
    BY <1>2, ArgsType
  <2> HIDE DEF S
  <2> QED
    BY <1>1, <1>4, <2>1, InsertItemItems
<1>6. ASSUME NEW i \in 1 .. ct + 1
      PROVE  (IF i <= at + n THEN Items(args)[i]
              ELSE IF i = at + n + 1 THEN x ELSE Items(args)[i - 1])
             = IF i <= at THEN old[i]
               ELSE IF i <= at + (n + 1) THEN Elems[i - at].b
               ELSE old[i - (n + 1)]
  <2>1. CASE i <= at + n
    BY <1>1, <1>4, <2>1, InSplice
  <2>2. CASE i = at + n + 1
    <3>1. i - at = n + 1 /\ ~(i <= at)
      BY <1>4, <2>2
    <3> QED
      BY <1>4, <2>2, <3>1 DEF x
  <2>3. CASE i > at + n + 1
    <3>1. i - 1 \in 1 .. ct /\ ~(i - 1 <= at + n) /\ (i - 1) - n = i - (n + 1)
      BY <1>4, <2>3
    <3>2. Items(args)[i - 1] = old[(i - 1) - n]
      BY <1>1, <1>4, <3>1, InSplice
    <3> QED
      BY <1>4, <2>3, <3>1, <3>2
  <2> QED
    BY <1>4, <2>1, <2>2, <2>3
<1>7. Items(args') = [k \in 1 .. Len(old) + (n + 1) |->
                       IF k <= at THEN old[k]
                       ELSE IF k <= at + (n + 1) THEN Elems[k - at].b
                       ELSE old[k - (n + 1)]]
  <2>1. ct + 1 = Len(old) + (n + 1)
    BY <1>1, <1>4, InSplice
  <2>2. Items(args') = [k \in 1 .. ItemCount(args') |-> Items(args')[k]]
    BY DEF Items
  <2> QED
    BY <1>5, <1>6, <2>1, <2>2
<1>8. TypeOK' /\ CommaDiscipline'
  BY <1>1, <1>3, <1>4 DEF IInv, TypeOK, CommaDiscipline, Errnos
<1>9. SpliceIsContiguous'
  <2>1. Elems' = Elems
    BY <1>1 DEF Elems
  <2> QED
    BY <1>1, <1>2, <1>4, <1>7, <2>1 DEF SpliceIsContiguous
<1> QED
  BY <1>1, <1>8, <1>9 DEF IInv, AtRest

LEMMA LoopTurnKeeps ==
  ASSUME IInv, LoopTurn
  PROVE  IInv'
<1>1. CASE SpliceNext
  BY <1>1, SpliceNextKeeps
<1>2. CASE SpliceOutside
  BY <1>2, FailKeeps DEF SpliceOutside, Errnos
<1>3. CASE SpliceRefused
  BY <1>3, FailKeeps DEF SpliceRefused, Errnos
<1>4. CASE EndSplice
  BY <1>4, InSplice, ArgsType, FailKeeps, SucceedKeeps DEF EndSplice
<1> QED
  BY <1>1, <1>2, <1>3, <1>4 DEF LoopTurn

-----------------------------------------------------------------------------
(***************************************************************************)
(* The theorems.                                                           *)
(***************************************************************************)
LEMMA InitInv == Init => IInv
<1> SUFFICES ASSUME Init PROVE IInv
  OBVIOUS
<1>1. args \in Seq(Binding \cup {Comma}) /\ Alternating(args)
  BY ParsedAssumption DEF Init
<1>2. Items(args) \in Seq(Binding)
  BY <1>1, ItemsType, Zenon
<1>3. TypeOK
  BY <1>1, <1>2, AnyRequestType DEF Init, TypeOK, Errnos
<1> QED
  BY <1>1, <1>3 DEF Init, IInv, CommaDiscipline, AtRest, SpliceIsContiguous

LEMMA ReceiveKeeps ==
  ASSUME IInv, NEW r \in Requests, Receive(r)
  PROVE  IInv'
<1>1. TypeOK'
  BY ArgsType DEF IInv, TypeOK, Receive
<1> QED
  BY <1>1 DEF IInv, CommaDiscipline, AtRest, SpliceIsContiguous, Receive

LEMMA NextKeeps == IInv /\ [Next]_vars => IInv'
<1> SUFFICES ASSUME IInv, [Next]_vars PROVE IInv'
  OBVIOUS
<1>1. CASE \E r \in Requests : Receive(r)
  BY <1>1, ReceiveKeeps
<1>2. CASE Dispatch
  BY <1>2, DispatchKeeps
<1>3. CASE LoopTurn
  BY <1>3, LoopTurnKeeps
<1>4. CASE UNCHANGED vars
  <2>1. /\ args' = args /\ rule' = rule /\ errno' = errno /\ pc' = pc /\ req' = req
        /\ old' = old /\ n' = n /\ at' = at /\ outcome' = outcome
    BY <1>4 DEF vars
  <2>2. TypeOK' /\ CommaDiscipline' /\ AtRest'
    BY <2>1 DEF IInv, TypeOK, CommaDiscipline, AtRest
  <2>3. SpliceIsContiguous'
    BY <2>1 DEF IInv, SpliceIsContiguous, Elems
  <2> QED
    BY <2>2, <2>3 DEF IInv
<1> QED
  BY <1>1, <1>2, <1>3, <1>4 DEF Next

\* The invariant holds after any sequence of calls on the attributes.
THEOREM Invariance == Spec => []IInv
  BY InitInv, NextKeeps, PTL DEF Spec

\* The variables keep their types: an arg_list only ever holds bindings and
\* commas, whatever a script splices into it.
THEOREM TypeCorrect == Spec => []TypeOK
<1>1. IInv => TypeOK
  BY DEF IInv
<1> QED
  BY <1>1, Invariance, PTL

\* No edit of a target's attributes, finished or given up half way, leaves a
\* leading, doubled or dangling comma between them.
THEOREM CommasAlternate == Spec => []CommaDiscipline
<1>1. IInv => CommaDiscipline
  BY DEF IInv
<1> QED
  BY <1>1, Invariance, PTL

\* At every turn of a splice the target has its old bindings in their order,
\* and between them, in one run, the new ones inserted so far in theirs.
THEOREM SplicesAreContiguous == Spec => []SpliceIsContiguous
<1>1. IInv => SpliceIsContiguous
  BY DEF IInv
<1> QED
  BY <1>1, Invariance, PTL

-----------------------------------------------------------------------------
(***************************************************************************)
(* What a call that fails leaves.                                          *)
(***************************************************************************)
AllKept(s, t) == \A k \in 1 .. Len(s) : \E j \in 1 .. Len(t) : t[j] = s[k]

\* In a splice the old bindings are found on either side of the new ones.
LEMMA SpliceKeepsOld ==
  ASSUME IInv, pc = "splice"
  PROVE  AllKept(old, Items(args))
<1> SUFFICES ASSUME NEW k \in 1 .. Len(old)
             PROVE  \E j \in 1 .. Len(Items(args)) : Items(args)[j] = old[k]
  BY DEF AllKept
<1>1. n \in Nat /\ at \in Int /\ Len(old) \in Nat /\ Len(Items(args)) = Len(old) + n
  BY InSplice, ArgsType
<1>2. CASE k <= at
  <2>1. k \in 1 .. Len(Items(args)) /\ Items(args)[k] = old[k]
    BY <1>1, <1>2, InSplice
  <2> QED
    BY <2>1
<1>3. CASE ~(k <= at)
  <2>1. k + n \in 1 .. Len(old) + n /\ ~(k + n <= at) /\ ~(k + n <= at + n) /\ (k + n) - n = k
    BY <1>1, <1>3
  <2>2. Items(args)[k + n] = old[(k + n) - n]
    BY <2>1, InSplice
  <2> QED
    BY <1>1, <2>1, <2>2
<1> QED
  BY <1>2, <1>3

\* A dispatch step that ends in an error has changed nothing.
LEMMA DispatchErrorKeeps ==
  ASSUME IInv, Dispatch, outcome' = "error"
  PROVE  args' = args /\ rule' = rule /\ pc = "dispatch"
  BY DEF Dispatch, StringStep, ClearAll, ExitOnKeyword, InvalidStep, KeyNotFound,
     RemoveNamed, ReplaceNamed, RefuseForNamed, RemoveAtIndex, ReplaceAtIndex, RefuseAtIndex,
     BeginSplice, ClearTarget, SetRule, RefuseRule, IgnoreStep, SymbolStep, IndexStep,
     StepOnArgs, StepOnTarget, ReplaceBindingAt, Succeed, Fail, ReturnWith, Halt

LEMMA FailedStepKeeps ==
  ASSUME IInv, Next, outcome' = "error"
  PROVE  /\ AllKept(old, Items(args'))
         /\ pc = "dispatch" => Items(args') = old /\ rule' = rule
<1>1. CASE \E r \in Requests : Receive(r)
  BY <1>1 DEF Receive
<1>2. CASE Dispatch
  <2>1. args' = args /\ rule' = rule /\ Items(args) = old
    BY <1>2, DispatchErrorKeeps DEF IInv, AtRest
  <2>2. Items(args') = old
    BY <2>1
  <2> QED
    BY <2>1, <2>2 DEF AllKept
<1>3. CASE SpliceNext
  BY <1>3 DEF SpliceNext, Turn, IInv, AtRest
<1>4. CASE SpliceOutside \/ SpliceRefused \/ EndSplice
  <2>1. pc = "splice" /\ args' = args
    BY <1>4 DEF SpliceOutside, SpliceRefused, EndSplice, Turn, Fail, Succeed, ReturnWith
  <2>2. AllKept(old, Items(args))
    BY <2>1, SpliceKeepsOld
  <2> QED
    BY <2>1, <2>2
<1> QED
  BY <1>1, <1>2, <1>3, <1>4 DEF Next, LoopTurn

\* A call that fails has lost no binding, and one refused before a splice
\* began has changed nothing: neither the bindings nor the rule.
THEOREM FailuresLoseNothing == Spec => FailureLosesNothing
<1>1. IInv /\ [Next]_vars
        => [outcome' = "error"
              => /\ \A k \in 1 .. Len(old) : \E j \in 1 .. Len(Items(args')) : Items(args')[j] = old[k]
                 /\ pc = "dispatch" => Items(args') = old /\ rule' = rule]_vars
  BY FailedStepKeeps DEF AllKept
<1> QED
  BY <1>1, Invariance, PTL DEF Spec, FailureLosesNothing

-----------------------------------------------------------------------------
(***************************************************************************)
(* The binding that ItemList names is the one that the code finds.         *)
(***************************************************************************)
\* The name that ItemList looks up among the bindings, the code looks up in
\* the array: the first of that name is the same.
LEMMA NameNames ==
  ASSUME IInv, SymbolStep
  PROVE  BindingNamed(req.step, old) = IF Named = {} THEN Len(old) ELSE FirstNamed
<1> DEFINE found == {k \in 1 .. Len(old) : old[k].key = req.step.s}
<1>1. req.step.kind = "sym" /\ old = Items(args) /\ Len(old) = ItemCount(args)
      /\ ItemCount(args) \in Nat
  BY ArgsType DEF SymbolStep, StepOnArgs, StepKind, IInv, AtRest
<1>2. BindingNamed(req.step, old) =
        IF found = {} THEN Len(old) ELSE (CHOOSE k \in found : \A j \in found : k <= j) - 1
  BY <1>1 DEF BindingNamed
<1>3. ASSUME NEW k \in 0 .. ItemCount(args) - 1
      PROVE  k \in Named <=> k + 1 \in found
  <2>1. k + 1 \in 1 .. ItemCount(args) /\ 2 * (k + 1) - 1 = 2 * k + 1
    BY <1>1
  <2>2. old[k + 1] = args[2 * k + 1]
    BY <1>1, <2>1 DEF Items
  <2> QED
    BY <1>1, <2>1, <2>2 DEF Named, EltAt
<1>4. Named \subseteq 0 .. ItemCount(args) - 1 /\ found \subseteq 1 .. ItemCount(args)
  BY <1>1 DEF Named
<1>5. found = {} <=> Named = {}
  <2>1. \A k \in found : k - 1 \in 0 .. ItemCount(args) - 1 /\ (k - 1) + 1 = k
    BY <1>1, <1>4
  <2>2. \A k \in found : k - 1 \in Named
    BY <1>3, <2>1
  <2> HIDE DEF found
  <2> QED
    BY <1>3, <1>4, <2>2
<1>6. CASE Named # {}
  <2> DEFINE c == CHOOSE k \in found : \A j \in found : k <= j
  <2>1. FirstNamed \in Named /\ \A j \in Named : FirstNamed <= j
    <3>1. Named \in SUBSET Nat
      BY <1>1, <1>4
    <3> QED
      BY <1>6, <3>1, LeastElement DEF FirstNamed
  <2>2. c \in found /\ \A j \in found : c <= j
    <3>1. found \in SUBSET Nat /\ found # {}
      BY <1>1, <1>5, <1>6
    <3> HIDE DEF found
    <3> QED
      BY <3>1, LeastElement
  <2>3. FirstNamed \in 0 .. ItemCount(args) - 1 /\ c \in 1 .. ItemCount(args)
    BY <1>4, <2>1, <2>2
  <2>4. FirstNamed + 1 \in found
    BY <1>3, <2>1, <2>3
  <2>5. c - 1 \in Named
    <3>1. c - 1 \in 0 .. ItemCount(args) - 1 /\ (c - 1) + 1 = c
      BY <1>1, <2>3
    <3> QED
      BY <1>3, <2>2, <3>1
  <2>6. c <= FirstNamed + 1 /\ FirstNamed <= c - 1
    BY <2>1, <2>2, <2>4, <2>5
  <2> HIDE DEF c
  <2>7. c - 1 = FirstNamed
    BY <1>1, <2>3, <2>6
  <2> QED
    BY <1>2, <1>5, <1>6, <2>7 DEF c
<1> QED
  BY <1>2, <1>5, <1>6

-----------------------------------------------------------------------------
(***************************************************************************)
(* What the edit of a call comes to, and that a call which ends has made   *)
(* it.                                                                     *)
(***************************************************************************)
Promised == Applied(EditOf(req, old), old)

\* What the call puts in, if it is a list or a vector.
New == [i \in DOMAIN Elems |-> Elems[i].b]

Done == pc' # "splice" /\ Items(args') = Promised

\* A splice that is going to do what is asked of it: at the binding the call
\* names or behind it, unless it inserts nothing.
Begun(a) ==
  \/ Elems = << >> /\ Promised = old
  \/ a \in 0 .. Len(old) /\ Promised = Around(old, a, New)

LEMMA NewType ==
  ASSUME IInv, WellFormed(req, old), Val.kind \in {"list", "vector"}
  PROVE  New \in Seq(Binding) /\ Len(New) = Len(Elems) /\ (Elems = << >> => Len(New) = 0)
<1>1. /\ Elems \in Seq(Elem) /\ Len(Elems) \in Nat /\ DOMAIN Elems = 1 .. Len(Elems)
      /\ \A i \in 1 .. Len(Elems) : Elems[i] \in Elem
  BY RequestType DEF IInv
<1>2. \A i \in 1 .. Len(Elems) : Elems[i].kind = "binding"
  BY <1>1 DEF WellFormed, Val, Elems
<1>3. \A i \in 1 .. Len(Elems) : Elems[i].b \in Binding
  BY <1>1, <1>2, ElemBinding
<1> QED
  BY <1>1, <1>3 DEF New

\* A call on the call expression, or on :*.
LEMMA PromisedOfWhole ==
  /\ (req.on = "target" /\ StepKind = "@@") \/ (req.on = "args" /\ StepKind = "star")
       => Promised = << >>
  /\ req.on = "target" /\ StepKind # "@@" => Promised = old
  BY AssignEdit, RefusedEdit DEF Promised, EditOf, StepKind

\* A call on one of the bindings.
LEMMA PromisedOfBinding ==
  ASSUME IInv, pc = "dispatch", req.on = "args", StepKind # "star",
         NEW k, k = BindingNamed(req.step, old)
  PROVE  /\ k \notin 0 .. Len(old) - 1 => Promised = old
         /\ k \in 0 .. Len(old) - 1 =>
              /\ Val.kind = "null" => Promised = RemoveAt(old, k + 1)
              /\ Val.kind = "binding" => Promised = [old EXCEPT ![k + 1] = Val.b]
              /\ Val.kind \in {"node", "cobj", "sym", "atom"} => Promised = old
              /\ Val.kind = "list" /\ StepKind # "sym" => Promised = Around(old, k, New)
              /\ Val.kind = "vector" /\ StepKind # "sym" => Promised = Around(old, k + 1, New)
              /\ Val.kind \in {"list", "vector"} /\ StepKind = "sym" => Promised = old
<1> DEFINE e == EditOf(req, old)
           E(op, items) == [op |-> op, at |-> {k}, new |-> items]
<1>1. old \in Seq(Binding) /\ Len(old) \in Nat
  BY DEF IInv, TypeOK
<1>2. e = IF k \notin 0 .. Len(old) - 1 THEN E("refused", << >>)
          ELSE IF Val.kind = "null" THEN E("drop", << >>)
          ELSE IF Val.kind = "binding" THEN E("replace", <<Val.b>>)
          ELSE IF Val.kind = "list" /\ StepKind # "sym" THEN E("before", New)
          ELSE IF Val.kind = "vector" /\ StepKind # "sym" THEN E("after", New)
          ELSE E("refused", << >>)
  <2>1. ASSUME k \notin 0 .. Len(old) - 1 PROVE e = E("refused", << >>)
    BY <2>1 DEF EditOf, StepKind
  <2>2. SUFFICES ASSUME k \in 0 .. Len(old) - 1
                 PROVE  e = IF Val.kind = "null" THEN E("drop", << >>)
                            ELSE IF Val.kind = "binding" THEN E("replace", <<Val.b>>)
                            ELSE IF Val.kind = "list" /\ StepKind # "sym" THEN E("before", New)
                            ELSE IF Val.kind = "vector" /\ StepKind # "sym" THEN E("after", New)
                            ELSE E("refused", << >>)
    BY <2>1
  <2>3. Val.kind = "null" => e = E("drop", << >>)
    BY <2>2 DEF EditOf, StepKind, Val
  <2>4. Val.kind = "binding" => e = E("replace", <<Val.b>>)
    BY <2>2 DEF EditOf, StepKind, Val
  <2>5. Val.kind = "list" /\ StepKind # "sym" => e = E("before", New)
    BY <2>2 DEF EditOf, StepKind, Val, New, Elems
  <2>6. Val.kind = "vector" /\ StepKind # "sym" => e = E("after", New)
    BY <2>2 DEF EditOf, StepKind, Val, New, Elems
  <2>7. ASSUME Val.kind \notin {"null", "binding"},
               ~(Val.kind \in {"list", "vector"} /\ StepKind # "sym")
        PROVE  e = E("refused", << >>)
    BY <2>2, <2>7 DEF EditOf, StepKind, Val
  <2> HIDE DEF e, E
  <2> QED
    BY <2>3, <2>4, <2>5, <2>6, <2>7
<1>3. Applied(E("refused", << >>), old) = old
  BY RefusedEdit
<1>4. ASSUME k \in 0 .. Len(old) - 1
      PROVE  /\ Applied(E("drop", << >>), old) = RemoveAt(old, k + 1)
             /\ Applied(E("replace", <<Val.b>>), old) = [old EXCEPT ![k + 1] = Val.b]
             /\ Applied(E("before", New), old) = Around(old, k, New)
             /\ Applied(E("after", New), old) = Around(old, k + 1, New)
  <2>1. k \in Int /\ k + 1 \in 1 .. Len(old) /\ (k + 1) - 1 = k
    BY <1>1, <1>4
  <2>2. Applied(E("before", New), old) = Around(old, k, New)
    BY <2>1, BeforeEdit
  <2>3. Applied(E("after", New), old) = Around(old, k + 1, New)
    BY <2>1, AfterEdit
  <2>4. Applied([op |-> "drop", at |-> {(k + 1) - 1}, new |-> << >>], old) = RemoveAt(old, k + 1)
    BY <1>1, <2>1, DropEdit
  <2>5. Applied([op |-> "replace", at |-> {(k + 1) - 1}, new |-> <<Val.b>>], old)
          = [old EXCEPT ![k + 1] = Val.b]
    BY <1>1, <2>1, ReplaceEdit
  <2> QED
    BY <2>1, <2>2, <2>3, <2>4, <2>5
<1> HIDE DEF e, E
<1>5. Promised = Applied(e, old)
  BY DEF Promised, e
<1> QED
  BY <1>2, <1>3, <1>4, <1>5

\* Before a splice the array holds the bindings the call found.
LEMMA Found ==
  ASSUME IInv, pc = "dispatch"
  PROVE  /\ old = Items(args) /\ old \in Seq(Binding)
         /\ Len(old) = ItemCount(args) /\ Len(old) \in Nat
  BY ArgsType DEF IInv, AtRest

LEMMA RemovedItems ==
  ASSUME IInv, pc = "dispatch", NEW k \in 0 .. Len(old) - 1
  PROVE  Items(RemoveItem(args, k)) = RemoveAt(old, k + 1)
<1> DEFINE r == RemoveItem(args, k)
           q == RemoveAt(old, k + 1)
<1>1. /\ old = Items(args) /\ old \in Seq(Binding)
      /\ Len(old) = ItemCount(args) /\ Len(old) \in Nat
  BY Found
<1>2. k + 1 \in 1 .. Len(old)
  BY <1>1
<1>3. /\ ItemCount(r) = Len(old) - 1
      /\ \A i \in 1 .. Len(old) - 1 :
           Items(r)[i] = IF i <= k THEN old[i] ELSE old[i + 1]
  BY <1>1, ArgsType, RemoveItemItems
<1>4. /\ q \in Seq(Binding) /\ Len(q) = Len(old) - 1
      /\ \A i \in 1 .. Len(old) - 1 : q[i] = IF i < k + 1 THEN old[i] ELSE old[i + 1]
  BY <1>1, <1>2, RemoveAtType
<1> HIDE DEF r, q
<1>5. \A i \in 1 .. Len(old) - 1 : Items(r)[i] = q[i]
  BY <1>1, <1>3, <1>4
<1>6. Items(r) = [i \in 1 .. Len(old) - 1 |-> Items(r)[i]]
  BY <1>3 DEF Items
<1>7. q = [i \in 1 .. Len(old) - 1 |-> q[i]]
  BY <1>4
<1>8. Items(r) = q
  BY <1>5, <1>6, <1>7
<1> QED
  BY <1>8 DEF r, q

LEMMA FailDone ==
  ASSUME IInv, pc = "dispatch", NEW e, Fail(e), Promised = old
  PROVE  Done
  BY Found DEF Fail, ReturnWith, Done

LEMMA SucceedDone ==
  ASSUME NEW a, NEW e, Succeed(a, e), Promised = Items(a)
  PROVE  Done
  BY DEF Succeed, ReturnWith, Done

\* Replacing a binding the target has, or being refused to.
LEMMA ReplaceDone ==
  ASSUME IInv, pc = "dispatch", NEW k \in Int, NEW e, ReplaceBindingAt(k, e),
         k \in 0 .. Len(old) - 1 => Promised = [old EXCEPT ![k + 1] = Val.b],
         k \notin 0 .. Len(old) - 1 => Promised = old
  PROVE  Done
<1>1. Len(old) = ItemCount(args) /\ old = Items(args)
  BY Found
<1>2. CASE k \in 0 .. Len(old) - 1
  <2>1. PICK S, a, x : S = Binding \cup {Comma} /\ a = args /\ x = Val.b
    OBVIOUS
  <2>2. a \in Seq(S) /\ Alternating(a) /\ k \in 0 .. ItemCount(a) - 1
    BY <1>1, <1>2, <2>1, ArgsType
  <2>3. Items(SetItem(a, k, x)) = [Items(a) EXCEPT ![k + 1] = x]
    BY <2>2, SetItemItems
  <2> QED
    BY <1>1, <1>2, <2>1, <2>3, SucceedDone DEF ReplaceBindingAt
<1>3. CASE k \notin 0 .. Len(old) - 1
  BY <1>1, <1>3, FailDone DEF ReplaceBindingAt
<1> QED
  BY <1>2, <1>3

\* A step that is neither a number nor a name names no binding.
LEMMA NothingNamed ==
  ASSUME NEW step, step.kind # "sym", ~IsIndex(step), NEW s
  PROVE  BindingNamed(step, s) = Len(s)
  BY DEF BindingNamed, IndexNamed, IsIndex

LEMMA SymbolRefines ==
  ASSUME IInv, WellFormed(req, old),
         KeyNotFound \/ RemoveNamed \/ ReplaceNamed \/ RefuseForNamed
  PROVE  Done
<1> DEFINE k == BindingNamed(req.step, old)
<1>1. /\ SymbolStep /\ pc = "dispatch" /\ req.on = "args" /\ StepKind = "sym"
      /\ StepKind # "star"
  BY DEF KeyNotFound, RemoveNamed, ReplaceNamed, RefuseForNamed, SymbolStep, StepOnArgs
<1>2. Len(old) = ItemCount(args) /\ Len(old) \in Nat
  BY <1>1, Found
<1>3. k = IF Named = {} THEN Len(old) ELSE FirstNamed
  BY <1>1, NameNames
<1>4. /\ k \notin 0 .. Len(old) - 1 => Promised = old
      /\ k \in 0 .. Len(old) - 1 =>
           /\ Val.kind = "null" => Promised = RemoveAt(old, k + 1)
           /\ Val.kind = "binding" => Promised = [old EXCEPT ![k + 1] = Val.b]
           /\ Val.kind \in {"node", "cobj", "sym", "atom"} => Promised = old
           /\ Val.kind \in {"list", "vector"} => Promised = old
  BY <1>1, PromisedOfBinding
<1>5. Named # {} => FirstNamed \in 0 .. Len(old) - 1 /\ k = FirstNamed
  BY <1>2, <1>3, FirstNamedType
<1> HIDE DEF k
<1>6. CASE KeyNotFound
  <2>1. Promised = old
    BY <1>2, <1>3, <1>4, <1>6 DEF KeyNotFound
  <2> QED
    BY <1>1, <1>6, <2>1, FailDone DEF KeyNotFound
<1>7. CASE RemoveNamed
  <2>1. k \in 0 .. Len(old) - 1 /\ k = FirstNamed /\ Promised = RemoveAt(old, k + 1)
    BY <1>4, <1>5, <1>7 DEF RemoveNamed
  <2>2. KeyIndex \div 2 = k
    BY <1>2, <2>1 DEF KeyIndex
  <2>3. Items(RemoveItem(args, KeyIndex \div 2)) = Promised
    BY <1>1, <2>1, <2>2, RemovedItems
  <2> QED
    BY <1>7, <2>3, SucceedDone DEF RemoveNamed
<1>8. CASE ReplaceNamed
  <2>1. Named # {} /\ Val.kind = "binding"
    BY <1>8 DEF ReplaceNamed
  <2>2. k \in {0, Len(old)}
    BY <1>1, <2>1 DEF WellFormed, Val, StepKind, k
  <2>3. FirstNamed = 0 /\ 0 \in 0 .. Len(old) - 1 /\ k = 0
    BY <1>2, <1>5, <2>1, <2>2
  <2>4. Promised = [old EXCEPT ![0 + 1] = Val.b]
    BY <1>4, <2>1, <2>3
  <2>5. KeyIndex = 0
    BY <2>3 DEF KeyIndex
  <2>6. PICK z, e : z \in Int /\ z = 0 /\ e = "ENOT_A_KW"
    OBVIOUS
  <2>7. z \in Int /\ ReplaceBindingAt(z, e) /\ z \in 0 .. Len(old) - 1 /\ Promised = [old EXCEPT ![z + 1] = Val.b]
    BY <1>8, <2>3, <2>4, <2>5, <2>6 DEF ReplaceNamed
  <2> QED
    BY <1>1, <2>7, ReplaceDone
<1>9. CASE RefuseForNamed
  <2>1. Val.kind \in {"cobj", "list", "vector", "sym", "atom"}
    <3>1. Val.kind # "node"
      BY <1>1 DEF WellFormed, Val, StepKind
    <3> QED
      BY <1>9, <3>1 DEF RefuseForNamed
  <2>2. Promised = old
    BY <1>4, <2>1
  <2>3. PICK e : Fail(e)
    BY <1>9, <2>1 DEF RefuseForNamed
  <2> QED
    BY <1>1, <2>2, <2>3, FailDone
<1> QED
  BY <1>6, <1>7, <1>8, <1>9

LEMMA IndexRefines ==
  ASSUME IInv, WellFormed(req, old),
         RemoveAtIndex \/ ReplaceAtIndex \/ RefuseAtIndex \/ BeginSplice
  PROVE  \/ Done
         \/ pc' = "splice" /\ Begun(at') /\ UNCHANGED <<args, req, old>>
<1> DEFINE k == BindingNamed(req.step, old)
           p == Position
<1>1. /\ IndexStep /\ pc = "dispatch" /\ req.on = "args" /\ IsIndex(req.step)
      /\ StepKind # "star" /\ StepKind # "sym"
  BY DEF RemoveAtIndex, ReplaceAtIndex, RefuseAtIndex, BeginSplice, IndexStep, StepOnArgs,
     IsIndex, StepKind
<1>2. Len(old) = ItemCount(args) /\ Len(old) \in Nat /\ old = Items(args)
      /\ old \in Seq(Binding)
  BY <1>1, Found
<1>3. p \in Int
  BY <1>1, PositionType
<1>4. /\ p \in 0 .. Len(old) - 1 <=> k \in 0 .. Len(old) - 1
      /\ p \in 0 .. Len(old) - 1 => k = p
  <2>1. req.step.n \in Int /\ FitsInt(req.step) /\ k = IndexNamed(req.step, Len(old))
    <3>1. req.step.n \in Int /\ req.step.kind # "sym"
      BY <1>1, RequestType DEF IInv, Step, StepKind
    <3>2. FitsInt(req.step)
      BY DEF WellFormed
    <3> QED
      BY <3>1, <3>2 DEF BindingNamed
  <2>2. PICK ct \in Nat : ct = Len(old)
    BY <1>2
  <2>3. p = Normalize(ct, KwIndex(req.step))
    BY <1>2, <2>2 DEF Position
  <2> QED
    BY <1>1, <2>1, <2>2, <2>3, NumberNames
<1>5. /\ k \notin 0 .. Len(old) - 1 => Promised = old
      /\ k \in 0 .. Len(old) - 1 =>
           /\ Val.kind = "null" => Promised = RemoveAt(old, k + 1)
           /\ Val.kind = "binding" => Promised = [old EXCEPT ![k + 1] = Val.b]
           /\ Val.kind \in {"node", "cobj", "sym", "atom"} => Promised = old
           /\ Val.kind = "list" => Promised = Around(old, k, New)
           /\ Val.kind = "vector" => Promised = Around(old, k + 1, New)
  BY <1>1, PromisedOfBinding
<1>6. Val.kind \in {"list", "vector"} => k < Len(old) \/ Elems = << >>
  BY DEF WellFormed, Val, Elems
<1>7. k \in Nat
  <2>1. req.step.n \in Int /\ StepKind # "sym"
    BY <1>1, RequestType DEF IInv, Step
  <2> QED
    BY <1>2, <2>1 DEF IndexNamed, BindingNamed, StepKind
<1> HIDE DEF k, p
<1>8. CASE RemoveAtIndex
  <2>1. CASE p \in 0 .. Len(old) - 1
    <3>1. Promised = Items(RemoveItem(args, p))
      BY <1>1, <1>4, <1>5, <1>8, <2>1, RemovedItems DEF RemoveAtIndex
    <3> QED
      BY <1>2, <1>8, <2>1, <3>1, SucceedDone DEF RemoveAtIndex, p
  <2>2. CASE p \notin 0 .. Len(old) - 1
    <3>1. Promised = old
      BY <1>4, <1>5, <2>2
    <3> QED
      BY <1>1, <1>2, <1>8, <2>2, <3>1, FailDone DEF RemoveAtIndex, p
  <2> QED
    BY <2>1, <2>2
<1>9. CASE ReplaceAtIndex
  <2>1. Val.kind = "binding" /\ ReplaceBindingAt(p, "OK")
    BY <1>9 DEF ReplaceAtIndex, p
  <2>2. /\ p \in 0 .. Len(old) - 1 => Promised = [old EXCEPT ![p + 1] = Val.b]
        /\ p \notin 0 .. Len(old) - 1 => Promised = old
    BY <1>4, <1>5, <2>1
  <2> QED
    BY <1>1, <1>3, <2>1, <2>2, ReplaceDone
<1>10. CASE RefuseAtIndex
  <2>1. Val.kind \in {"node", "cobj", "sym", "atom"}
    BY <1>10 DEF RefuseAtIndex
  <2>2. Promised = old
    BY <1>5, <2>1
  <2>3. PICK e : Fail(e)
    BY <1>10 DEF RefuseAtIndex
  <2> QED
    BY <1>1, <2>2, <2>3, FailDone
<1>11. CASE BeginSplice
  <2>1. /\ Val.kind \in {"list", "vector"} /\ pc' = "splice" /\ UNCHANGED <<args, req, old>>
        /\ at' = LET index == Normalize(Len(old), p)
                 IN  IF Val.kind = "list" THEN index ELSE index + 1
    BY <1>2, <1>11 DEF BeginSplice, p
  <2>2. CASE k \in 0 .. Len(old) - 1
    <3>1. p = k /\ Normalize(Len(old), p) = k
      BY <1>2, <1>4, <2>2 DEF Normalize
    <3>2. /\ Val.kind = "list" => at' = k /\ Promised = Around(old, k, New)
          /\ Val.kind = "vector" => at' = k + 1 /\ Promised = Around(old, k + 1, New)
      BY <1>5, <2>1, <2>2, <3>1
    <3>3. k \in 0 .. Len(old) /\ k + 1 \in 0 .. Len(old)
      BY <1>2, <2>2
    <3>4. Begun(at')
      BY <2>1, <3>2, <3>3 DEF Begun
    <3> QED
      BY <2>1, <3>4
  <2>3. CASE k \notin 0 .. Len(old) - 1
    <3>1. Elems = << >>
      BY <1>2, <1>7, <1>6, <2>1, <2>3
    <3>2. Begun(at')
      BY <1>5, <2>3, <3>1 DEF Begun
    <3> QED
      BY <2>1, <3>2
  <2> QED
    BY <2>2, <2>3
<1> QED
  BY <1>8, <1>9, <1>10, <1>11

LEMMA DispatchRefines ==
  ASSUME IInv, WellFormed(req, old), Dispatch
  PROVE  \/ Done
         \/ pc' = "splice" /\ Begun(at') /\ UNCHANGED <<args, req, old>>
<1>1. pc = "dispatch"
  BY DEF Dispatch, StringStep, ClearAll, ExitOnKeyword, InvalidStep, KeyNotFound,
     RemoveNamed, ReplaceNamed, RefuseForNamed, RemoveAtIndex, ReplaceAtIndex, RefuseAtIndex,
     BeginSplice, ClearTarget, SetRule, RefuseRule, IgnoreStep, SymbolStep, IndexStep,
     StepOnArgs, StepOnTarget
<1>2. old = Items(args) /\ Len(old) \in Nat
  BY <1>1, Found
<1>3. Items(<< >>) = << >>
  BY DEF Items, ItemCount
<1>4. CASE StringStep \/ InvalidStep
  <2>1. req.on = "args" /\ StepKind \in {"str", "nil", "other"} /\ \E e : Fail(e)
    BY <1>4 DEF StringStep, InvalidStep, StepOnArgs
  <2>2. BindingNamed(req.step, old) = Len(old)
    BY <2>1, NothingNamed DEF StepKind, IsIndex
  <2>3. Promised = old
    BY <1>1, <1>2, <2>1, <2>2, PromisedOfBinding
  <2> QED
    BY <1>1, <2>1, <2>3, FailDone
<1>5. CASE ClearAll
  <2>1. Promised = << >>
    BY <1>5, PromisedOfWhole DEF ClearAll, StepOnArgs
  <2> QED
    BY <1>3, <1>5, <2>1, SucceedDone DEF ClearAll
<1>6. CASE ExitOnKeyword
  BY <1>6 DEF ExitOnKeyword, StepOnArgs, StepKind, WellFormed
<1>7. CASE KeyNotFound \/ RemoveNamed \/ ReplaceNamed \/ RefuseForNamed
  BY <1>7, SymbolRefines
<1>8. CASE RemoveAtIndex \/ ReplaceAtIndex \/ RefuseAtIndex \/ BeginSplice
  BY <1>8, IndexRefines
<1>9. CASE ClearTarget
  <2>1. Promised = << >>
    BY <1>9, PromisedOfWhole DEF ClearTarget, StepOnTarget
  <2> QED
    BY <1>3, <1>9, <2>1, SucceedDone DEF ClearTarget
<1>10. CASE SetRule \/ RefuseRule \/ IgnoreStep
  <2>1. req.on = "target" /\ StepKind # "@@"
    BY <1>10 DEF SetRule, RefuseRule, IgnoreStep, StepOnTarget
  <2>2. Promised = old
    BY <2>1, PromisedOfWhole
  <2>3. pc' = "idle" /\ args' = args
    BY <1>10 DEF SetRule, RefuseRule, IgnoreStep, Succeed, Fail, ReturnWith
  <2> QED
    BY <1>2, <2>2, <2>3 DEF Done
<1> QED
  BY <1>4, <1>5, <1>6, <1>7, <1>8, <1>9, <1>10 DEF Dispatch

-----------------------------------------------------------------------------
(***************************************************************************)
(* A splice that has begun as asked ends as asked.                         *)
(***************************************************************************)
SpliceAsPromised ==
  pc = "splice" /\ WellFormed(req, old) => Val.kind \in {"list", "vector"} /\ Begun(at)

\* The dispatch ends the call, or has changed nothing and goes on to a splice.
LEMMA DispatchEnds ==
  ASSUME Dispatch
  PROVE  /\ pc = "dispatch"
         /\ \/ pc' \in {"idle", "crashed", "exited"}
            \/ /\ pc' = "splice" /\ Val.kind \in {"list", "vector"}
               /\ UNCHANGED <<args, req, old>>
<1>1. ASSUME NEW a, NEW e, NEW out, ReturnWith(a, e, out) PROVE pc' = "idle"
  BY <1>1 DEF ReturnWith
<1>2. ASSUME NEW e, Fail(e) PROVE pc' = "idle"
  BY <1>1, <1>2 DEF Fail
<1>3. ASSUME NEW a, NEW e, Succeed(a, e) PROVE pc' = "idle"
  BY <1>1, <1>3 DEF Succeed
<1>4. ASSUME NEW k, NEW e, ReplaceBindingAt(k, e) PROVE pc' = "idle"
  BY <1>2, <1>3, <1>4 DEF ReplaceBindingAt
<1>5. pc = "dispatch"
  BY DEF Dispatch, StringStep, ClearAll, ExitOnKeyword, InvalidStep, KeyNotFound,
     RemoveNamed, ReplaceNamed, RefuseForNamed, RemoveAtIndex, ReplaceAtIndex, RefuseAtIndex,
     BeginSplice, ClearTarget, SetRule, RefuseRule, IgnoreStep, SymbolStep, IndexStep,
     StepOnArgs, StepOnTarget
<1>6. CASE StringStep \/ ClearAll \/ InvalidStep \/ KeyNotFound \/ RemoveNamed \/ ReplaceNamed
  BY <1>2, <1>3, <1>4, <1>5, <1>6
     DEF StringStep, ClearAll, InvalidStep, KeyNotFound, RemoveNamed, ReplaceNamed
<1>7. CASE RemoveAtIndex \/ ReplaceAtIndex \/ RefuseAtIndex
  BY <1>2, <1>3, <1>4, <1>5, <1>7 DEF RemoveAtIndex, ReplaceAtIndex, RefuseAtIndex
<1>8. CASE ClearTarget \/ SetRule \/ RefuseRule \/ IgnoreStep
  BY <1>1, <1>2, <1>3, <1>5, <1>8 DEF ClearTarget, SetRule, RefuseRule, IgnoreStep
<1>9. CASE RefuseForNamed \/ ExitOnKeyword
  BY <1>2, <1>5, <1>9 DEF RefuseForNamed, ExitOnKeyword, Halt
<1>10. CASE BeginSplice
  BY <1>5, <1>10 DEF BeginSplice
<1> QED
  BY <1>6, <1>7, <1>8, <1>9, <1>10 DEF Dispatch

LEMMA NextAsPromised ==
  ASSUME IInv, SpliceAsPromised, [Next]_vars
  PROVE  SpliceAsPromised'
<1>1. ASSUME UNCHANGED <<req, old>>, NEW a, Begun(a), a = at'
      PROVE  Begun(at)'
  <2>1. Promised' = Promised
    BY <1>1 DEF Promised
  <2>2. Elems' = Elems
    BY <1>1 DEF Elems
  <2>3. New' = New
    BY <2>2 DEF New
  <2>4. Around(old, at, New)' = Around(old, a, New)
    BY <1>1, <2>3 DEF Around
  <2> QED
    BY <1>1, <2>1, <2>2, <2>4 DEF Begun
<1>2. CASE \E r \in Requests : Receive(r)
  BY <1>2 DEF Receive, SpliceAsPromised
<1>3. CASE Dispatch
  <2>1. SUFFICES ASSUME pc' = "splice", WellFormed(req, old)'
                 PROVE  Val'.kind \in {"list", "vector"} /\ Begun(at)'
    BY DEF SpliceAsPromised
  <2>2. UNCHANGED <<req, old>> /\ Val.kind \in {"list", "vector"}
    BY <1>3, <2>1, DispatchEnds
  <2>3. WellFormed(req, old)
    BY <2>1, <2>2
  <2>4. Begun(at')
    BY <1>3, <2>1, <2>3, DispatchRefines DEF Done
  <2> QED
    BY <1>1, <2>2, <2>4 DEF Val
<1>4. CASE SpliceNext \/ UNCHANGED vars
  <2>1. UNCHANGED <<pc, req, old, at>>
    BY <1>4 DEF SpliceNext, vars
  <2>2. SUFFICES ASSUME pc = "splice", WellFormed(req, old)
                 PROVE  Val'.kind \in {"list", "vector"} /\ Begun(at)'
    BY <2>1 DEF SpliceAsPromised
  <2>3. Val.kind \in {"list", "vector"} /\ Begun(at)
    BY <2>2 DEF SpliceAsPromised
  <2> QED
    BY <1>1, <2>1, <2>3 DEF Val
<1>5. CASE SpliceOutside \/ SpliceRefused \/ EndSplice
  BY <1>5 DEF SpliceOutside, SpliceRefused, EndSplice, Fail, Succeed, ReturnWith, SpliceAsPromised
<1> QED
  BY <1>2, <1>3, <1>4, <1>5 DEF Next, LoopTurn

\* A splice of a well-formed call ends when all elements are in.
LEMMA LoopRefines ==
  ASSUME IInv, SpliceAsPromised, WellFormed(req, old),
         SpliceOutside \/ SpliceRefused \/ EndSplice
  PROVE  Done
<1>1. pc = "splice" /\ args' = args /\ pc' = "idle"
  BY DEF SpliceOutside, SpliceRefused, EndSplice, Turn, Fail, Succeed, ReturnWith
<1>2. Val.kind \in {"list", "vector"} /\ Begun(at)
  BY <1>1 DEF SpliceAsPromised
<1>3. /\ n \in Nat /\ at \in Int /\ old \in Seq(Binding) /\ Len(old) \in Nat
      /\ ItemCount(args) = Len(old) + n
      /\ Items(args) = [k \in 1 .. Len(old) + n |->
                          IF k <= at THEN old[k]
                          ELSE IF k <= at + n THEN Elems[k - at].b
                          ELSE old[k - n]]
  BY <1>1, InSplice
<1>4. /\ Len(Elems) \in Nat /\ DOMAIN Elems = 1 .. Len(Elems)
      /\ n <= Len(Elems) /\ (Elems = << >> => Len(Elems) = 0)
  BY <1>1, RequestType DEF IInv, SpliceIsContiguous
<1>5. New \in Seq(Binding) /\ Len(New) = Len(Elems)
  BY <1>2, NewType
<1>6. CASE EndSplice
  <2>1. n = Len(Elems)
    BY <1>6 DEF EndSplice
  <2>2. CASE Elems = << >> /\ Promised = old
    <3>1. n = 0 /\ DOMAIN old = 1 .. Len(old)
      BY <1>3, <1>4, <2>1, <2>2
    <3>2. \A k \in 1 .. Len(old) : Items(args)[k] = old[k]
      BY <1>3, <3>1
    <3>3. Items(args) = [k \in 1 .. Len(old) |-> Items(args)[k]]
      BY <1>3, <3>1
    <3>4. old = [k \in 1 .. Len(old) |-> old[k]]
      BY <1>3
    <3>5. Items(args) = old
      BY <3>2, <3>3, <3>4
    <3> QED
      BY <1>1, <2>2, <3>5 DEF Done
  <2>3. CASE at \in 0 .. Len(old) /\ Promised = Around(old, at, New)
    <3> DEFINE r == Around(old, at, New)
    <3>1. /\ r \in Seq(Binding) /\ Len(r) = Len(old) + n
          /\ \A k \in 1 .. Len(old) + Len(New) :
               r[k] = IF k <= at THEN old[k]
                      ELSE IF k <= at + Len(New) THEN New[k - at]
                      ELSE old[k - Len(New)]
      <4>1. PICK S, l, a, f : S = Binding /\ l = old /\ a = at /\ f = New
        OBVIOUS
      <4>2. l \in Seq(S) /\ a \in 0 .. Len(l) /\ f \in Seq(S)
        BY <1>3, <1>5, <2>3, <4>1
      <4>3. /\ Around(l, a, f) \in Seq(S) /\ Len(Around(l, a, f)) = Len(l) + Len(f)
            /\ \A k \in 1 .. Len(l) + Len(f) :
                 Around(l, a, f)[k] = IF k <= a THEN l[k]
                                      ELSE IF k <= a + Len(f) THEN f[k - a]
                                      ELSE l[k - Len(f)]
        BY <4>2, AroundType
      <4> QED
        BY <1>5, <2>1, <4>1, <4>3
    <3>2. ASSUME NEW k \in 1 .. Len(old) + n
          PROVE  Items(args)[k] = r[k]
      <4>1. ~(k <= at) /\ k <= at + n => k - at \in DOMAIN Elems
        BY <1>3, <1>4, <2>1, <3>2
      <4>2. ~(k <= at) /\ k <= at + n => New[k - at] = Elems[k - at].b
        BY <4>1 DEF New
      <4> HIDE DEF r
      <4> QED
        BY <1>3, <1>5, <2>1, <3>1, <4>2
    <3> HIDE DEF r
    <3>3. Items(args) = [k \in 1 .. Len(old) + n |-> Items(args)[k]]
      BY <1>3
    <3>4. r = [k \in 1 .. Len(old) + n |-> r[k]]
      BY <1>3, <3>1
    <3>5. Items(args) = r
      BY <3>2, <3>3, <3>4
    <3> QED
      BY <1>1, <2>3, <3>5 DEF Done, r
  <2> QED
    BY <1>2, <2>2, <2>3 DEF Begun
<1>7. CASE SpliceOutside \/ SpliceRefused
  <2>1. n < Len(Elems) /\ (Elems[n + 1].kind # "binding" \/ at + n \notin 0 .. ItemCount(args))
    BY <1>7 DEF SpliceOutside, SpliceRefused, Turn
  <2>2. Elems[n + 1].kind = "binding"
    <3>1. n + 1 \in DOMAIN Elems
      BY <1>3, <1>4, <2>1
    <3> QED
      BY <1>2, <3>1 DEF WellFormed, Val, Elems
  <2>3. at \in 0 .. Len(old)
    BY <1>2, <1>3, <1>4, <2>1 DEF Begun
  <2> QED
    BY <1>3, <2>1, <2>2, <2>3
<1> QED
  BY <1>6, <1>7

-----------------------------------------------------------------------------
(***************************************************************************)
(* The step of ItemList a step of the code is.                             *)
(***************************************************************************)
\* What a call may ask for, and the bindings it brings.
LEMMA EditShape ==
  ASSUME NEW r \in Requests, NEW s
  PROVE  \E op, new :
           /\ op \in {"refused", "replace", "before", "after", "drop", "assign"}
           /\ EditOf(r, s) = [op |-> op, at |-> {BindingNamed(r.step, s)}, new |-> new]
           /\ \/ new = << >>
              \/ new = <<r.val.b>>
              \/ /\ r.val.kind \in {"list", "vector"}
                 /\ new = [i \in DOMAIN r.val.elems |-> r.val.elems[i].b]
<1> DEFINE k == BindingNamed(r.step, s)
           many == [i \in DOMAIN r.val.elems |-> r.val.elems[i].b]
           E(op, new) == [op |-> op, at |-> {k}, new |-> new]
<1>1. r.on \in {"args", "target"}
  BY RequestsAssumption DEF Request
<1>2. \/ EditOf(r, s) \in {E("assign", << >>), E("refused", << >>), E("drop", << >>),
                           E("replace", <<r.val.b>>)}
      \/ r.val.kind = "list" /\ EditOf(r, s) = E("before", many)
      \/ r.val.kind = "vector" /\ EditOf(r, s) = E("after", many)
  <2>1. CASE (r.on = "target" /\ r.step.kind = "@@") \/ (r.on = "args" /\ r.step.kind = "star")
    <3>1. EditOf(r, s) = E("assign", << >>)
      BY <2>1 DEF EditOf
    <3> QED
      BY <3>1
  <2>2. CASE r.on = "target" /\ r.step.kind # "@@"
    <3>1. EditOf(r, s) = E("refused", << >>)
      BY <2>2 DEF EditOf
    <3> QED
      BY <3>1
  <2>3. CASE r.on = "args" /\ r.step.kind # "star"
    <3>1. CASE k \notin 0 .. Len(s) - 1
      <4>1. EditOf(r, s) = E("refused", << >>)
        BY <2>3, <3>1 DEF EditOf
      <4> QED
        BY <4>1
    <3>2. CASE k \in 0 .. Len(s) - 1
      <4>1. r.val.kind = "null" => EditOf(r, s) = E("drop", << >>)
        BY <2>3, <3>2 DEF EditOf
      <4>2. r.val.kind = "binding" => EditOf(r, s) = E("replace", <<r.val.b>>)
        BY <2>3, <3>2 DEF EditOf
      <4>3. r.val.kind = "list" /\ r.step.kind # "sym" => EditOf(r, s) = E("before", many)
        BY <2>3, <3>2 DEF EditOf
      <4>4. r.val.kind = "vector" /\ r.step.kind # "sym" => EditOf(r, s) = E("after", many)
        BY <2>3, <3>2 DEF EditOf
      <4>5. ASSUME r.val.kind \notin {"null", "binding"},
                   ~(r.val.kind \in {"list", "vector"} /\ r.step.kind # "sym")
            PROVE  EditOf(r, s) = E("refused", << >>)
        BY <2>3, <3>2, <4>5 DEF EditOf
      <4> HIDE DEF k, many, E
      <4> QED
        BY <4>1, <4>2, <4>3, <4>4, <4>5
    <3> QED
      BY <3>1, <3>2
  <2> QED
    BY <1>1, <2>1, <2>2, <2>3
<1> HIDE DEF k, many
<1> QED
  BY <1>2 DEF k, many

\* The definitions ItemList has of its own.
LEMMA AbstractApplied ==
  ASSUME NEW e, NEW s PROVE Abstract!Applied(e, s) = Applied(e, s)
<1>c. \A S : Abstract!Cardinality(S) = Cardinality(S)
  BY DEF Abstract!Cardinality, Cardinality
<1>p. \A S, p : Abstract!CountTo(S, p) = CountTo(S, p)
  BY <1>c DEF Abstract!CountTo, CountTo
<1>n. \A S, k : Abstract!NthPlace(S, k) = NthPlace(S, k)
  BY <1>p, Zenon DEF Abstract!NthPlace, NthPlace
<1>1. \A t, S : Abstract!Selected(t, S) = Selected(t, S)
  BY <1>c, <1>n DEF Abstract!Selected, Selected
<1>2. \A D : Abstract!Without(s, D) = Without(s, D)
  BY <1>1 DEF Abstract!Without, Without
<1>3. \A k, new : Abstract!SpliceIn(s, k, new) = SpliceIn(s, k, new)
  BY DEF Abstract!SpliceIn, SpliceIn
<1> QED
  BY <1>2, <1>3 DEF Abstract!Applied, Applied

LEMMA BindingNamedType ==
  ASSUME NEW step \in Step, NEW s \in Seq(Binding)
  PROVE  BindingNamed(step, s) \in Nat
<1>1. step.n \in Int /\ Len(s) \in Nat
  BY DEF Step
<1>2. IndexNamed(step, Len(s)) \in Nat
  BY <1>1 DEF IndexNamed
<1> DEFINE found == {k \in 1 .. Len(s) : s[k].key = step.s}
<1>3. CASE step.kind = "sym" /\ found # {}
  <2> DEFINE c == CHOOSE k \in found : \A j \in found : k <= j
  <2>1. found \in SUBSET Nat /\ found \subseteq 1 .. Len(s)
    BY <1>1
  <2> HIDE DEF found
  <2>2. c \in found
    BY <1>3, <2>1, LeastElement
  <2>3. BindingNamed(step, s) = c - 1
    BY <1>3 DEF BindingNamed, found
  <2> HIDE DEF c
  <2> QED
    BY <1>1, <2>1, <2>2, <2>3
<1>4. CASE ~(step.kind = "sym" /\ found # {})
  BY <1>1, <1>2, <1>4 DEF BindingNamed
<1> QED
  BY <1>3, <1>4

\* A call asks ItemList for an edit.
EditAsked == pc = "dispatch" /\ WellFormed(req, old) => EditOf(req, old) \in Abstract!Edit

LEMMA EditType == IInv => EditAsked
<1> SUFFICES ASSUME IInv, pc = "dispatch", WellFormed(req, old)
             PROVE  EditOf(req, old) \in Abstract!Edit
  BY DEF EditAsked
<1>1. req \in Requests /\ req.step \in Step /\ Val.b \in Binding /\ old \in Seq(Binding)
  BY RequestType DEF IInv, TypeOK
<1>2. {BindingNamed(req.step, old)} \in SUBSET Nat
  BY <1>1, BindingNamedType
<1>3. PICK op, new :
        /\ op \in {"refused", "replace", "before", "after", "drop", "assign"}
        /\ EditOf(req, old) = [op |-> op, at |-> {BindingNamed(req.step, old)}, new |-> new]
        /\ \/ new = << >>
           \/ new = <<Val.b>>
           \/ Val.kind \in {"list", "vector"} /\ new = New
  BY <1>1, EditShape DEF Val, New, Elems
<1>4. << >> \in Seq(Binding) /\ <<Val.b>> \in Seq(Binding)
  BY <1>1
<1>5. Val.kind \in {"list", "vector"} => New \in Seq(Binding)
  BY NewType
<1>6. new \in Seq(Binding)
  BY <1>3, <1>4, <1>5
<1> QED
  BY <1>2, <1>3, <1>6 DEF Abstract!Edit, Abstract!Ops

LEMMA StepRefines ==
  ASSUME IInv, SpliceAsPromised, IInv', EditAsked', [Next]_vars
  PROVE  [Abstract!Begin \/ Abstract!Finish]_(Abstract!ivars)
<1> DEFINE items == IF IsRunning THEN old ELSE Items(args)
           edit  == IF ~IsRunning THEN [op |-> "none", at |-> {}, new |-> << >>]
                    ELSE IF WellFormed(req, old) THEN EditOf(req, old) ELSE Unspecified
<1>1. UNCHANGED <<items, edit>> => UNCHANGED Abstract!ivars
  BY DEF Abstract!ivars
<1>2. Items(args') \in Seq(Binding)
  <2>1. args' \in Seq(Binding \cup {Comma}) /\ Alternating(args')
    BY DEF IInv, TypeOK, CommaDiscipline
  <2> QED
    BY <2>1, ItemsType
<1>3. ASSUME NEW r \in Requests, NEW s
      PROVE  EditOf(r, s).op # "none" /\ EditOf(r, s).op # "unspecified"
  <2>1. PICK op, where, new :
          /\ op \in {"refused", "replace", "before", "after", "drop", "assign"}
          /\ EditOf(r, s) = [op |-> op, at |-> where, new |-> new]
    BY EditShape
  <2>2. EditOf(r, s).op = op
    BY <2>1
  <2> QED
    BY <2>1, <2>2
<1>4. req \in Requests /\ req' \in Requests
  BY DEF IInv, TypeOK
<1>5. CASE \E r \in Requests : Receive(r)
  <2>1. pc = "idle" /\ pc' = "dispatch" /\ args' = args /\ old' = Items(args)
    BY <1>5 DEF Receive
  <2>2. ~IsRunning /\ IsRunning' /\ items' = items /\ edit = Abstract!NoEdit
    BY <2>1 DEF IsRunning, Abstract!NoEdit
  <2>3. edit' \in Abstract!Edit /\ edit' # Abstract!NoEdit
    <3>1. CASE WellFormed(req, old)'
      <4>1. edit' = EditOf(req', old') /\ EditOf(req', old') \in Abstract!Edit
        BY <2>1, <2>2, <3>1 DEF EditAsked, Abstract!Edit
      <4>2. EditOf(req', old').op # "none"
        BY <1>3, <1>4
      <4> QED
        BY <4>1, <4>2 DEF Abstract!NoEdit
    <3>2. CASE ~WellFormed(req, old)'
      <4> DEFINE e == [op |-> "unspecified", at |-> {}, new |-> << >>]
      <4>1. edit' = e
        BY <2>2, <3>2 DEF Unspecified
      <4>2. << >> \in Seq(Binding) /\ {} \in SUBSET Nat
        OBVIOUS
      <4>3. e \in Abstract!Edit
        BY <4>2 DEF Abstract!Edit, Abstract!Ops
      <4>4. e.op = "unspecified" /\ Abstract!NoEdit.op = "none"
        BY DEF Abstract!NoEdit
      <4>5. e # Abstract!NoEdit
        BY <4>4
      <4> QED
        BY <4>1, <4>3, <4>5
    <3> QED
      BY <3>1, <3>2
  <2> QED
    BY <2>2, <2>3 DEF Abstract!Begin
<1>6. ASSUME IsRunning, pc' \in {"idle", "crashed", "exited"},
             WellFormed(req, old) => Items(args') = Promised
      PROVE  Abstract!Finish
  <2>1. items = old /\ items' = Items(args') /\ edit' = Abstract!NoEdit
    BY <1>6 DEF IsRunning, Abstract!NoEdit
  <2>2. CASE WellFormed(req, old)
    <3>1. edit = EditOf(req, old)
      BY <1>6, <2>2
    <3>2. edit.op # "none" /\ edit.op # "unspecified"
      BY <1>3, <1>4, <3>1
    <3>3. edit # Abstract!NoEdit
      BY <3>2 DEF Abstract!NoEdit
    <3>4. items' = Abstract!Applied(edit, items)
      BY <1>6, <2>1, <2>2, <3>1, AbstractApplied DEF Promised
    <3> HIDE DEF items, edit
    <3> QED
      BY <2>1, <3>2, <3>3, <3>4 DEF Abstract!Finish, items, edit
  <2>3. CASE ~WellFormed(req, old)
    <3>1. edit = [op |-> "unspecified", at |-> {}, new |-> << >>]
      BY <1>6, <2>3 DEF Unspecified
    <3>2. edit # Abstract!NoEdit /\ edit.op = "unspecified"
      BY <3>1 DEF Abstract!NoEdit
    <3> QED
      BY <1>2, <2>1, <3>2 DEF Abstract!Finish
  <2> QED
    BY <2>2, <2>3
<1>7. ASSUME IsRunning, IsRunning', req' = req, old' = old
      PROVE  UNCHANGED <<items, edit>>
  BY <1>7
<1>8. CASE Dispatch
  <2>1. IsRunning
    BY <1>8, DispatchEnds DEF IsRunning
  <2>2. CASE pc' = "splice"
    <3>1. IsRunning' /\ req' = req /\ old' = old
      BY <1>8, <2>2, DispatchEnds DEF IsRunning
    <3> QED
      BY <1>1, <1>7, <2>1, <3>1
  <2>3. CASE pc' # "splice"
    <3>1. pc' \in {"idle", "crashed", "exited"}
      BY <1>8, <2>3, DispatchEnds
    <3>2. WellFormed(req, old) => Items(args') = Promised
      BY <1>8, <2>3, DispatchRefines DEF Done
    <3> QED
      BY <1>6, <2>1, <3>1, <3>2
  <2> QED
    BY <2>2, <2>3
<1>9. CASE SpliceNext
  <2>1. IsRunning /\ IsRunning' /\ req' = req /\ old' = old
    BY <1>9 DEF SpliceNext, Turn, IsRunning
  <2> QED
    BY <1>1, <1>7, <2>1
<1>10. CASE SpliceOutside \/ SpliceRefused \/ EndSplice
  <2>1. IsRunning /\ pc' = "idle"
    BY <1>10 DEF SpliceOutside, SpliceRefused, EndSplice, Turn, Fail, Succeed, ReturnWith, IsRunning
  <2>2. WellFormed(req, old) => Items(args') = Promised
    BY <1>10, LoopRefines DEF Done
  <2> QED
    BY <1>6, <2>1, <2>2
<1>11. CASE UNCHANGED vars
  <2>1. UNCHANGED <<args, pc, req, old>>
    BY <1>11 DEF vars
  <2>2. UNCHANGED <<items, edit>>
    BY <2>1 DEF IsRunning
  <2> QED
    BY <1>1, <2>2
<1> QED
  BY <1>5, <1>8, <1>9, <1>10, <1>11 DEF Next, LoopTurn

\* Each well-formed call of set! on a target's attributes does to them, in one
\* step as far as the script can tell, what the README says of it, and a call
\* that is not well-formed leaves bindings.
THEOREM ArglistEditsAreAtomic ==
  Spec => Abstract!ItemListInit /\ [][Abstract!Begin \/ Abstract!Finish]_(Abstract!ivars)
<1>1. Init => SpliceAsPromised
  BY DEF Init, SpliceAsPromised
<1>2. IInv /\ SpliceAsPromised /\ [Next]_vars => SpliceAsPromised'
  BY NextAsPromised
<1>3. Spec => []SpliceAsPromised
  BY <1>1, <1>2, Invariance, PTL DEF Spec
<1>4. IInv => EditAsked
  BY EditType
<1>5. Init => Abstract!ItemListInit
  <2>1. SUFFICES ASSUME Init PROVE Abstract!ItemListInit
    OBVIOUS
  <2>2. ~IsRunning
    BY <2>1 DEF Init, IsRunning
  <2>3. Items(args) \in Seq(Binding)
    BY <2>1, InitInv, ArgsType
  <2> QED
    BY <2>2, <2>3 DEF Abstract!ItemListInit, Abstract!NoEdit
<1>6. IInv /\ SpliceAsPromised /\ IInv' /\ EditAsked' /\ [Next]_vars
        => [Abstract!Begin \/ Abstract!Finish]_(Abstract!ivars)
  BY StepRefines
<1> QED
  BY <1>3, <1>4, <1>5, <1>6, Invariance, PTL DEF Spec

\* The editing of attributes implements the list of the README.  That every
\* edit takes effect follows if every call returns, which is liveness.
THEOREM ArglistImplementsItemList == Spec /\ CallReturns => ImplementsItemList
<1> DEFINE Mapped == (IF ~IsRunning THEN [op |-> "none", at |-> {}, new |-> << >>]
                      ELSE IF WellFormed(req, old) THEN EditOf(req, old) ELSE Unspecified)
                       = Abstract!NoEdit
           Ended == pc \in {"idle", "crashed", "exited"}
<1>1. Init => Ended
  BY DEF Init
<1>2. [Next]_vars /\ Ended => (Ended \/ pc = "dispatch")'
  BY DispatchEnds DEF Next, LoopTurn, Receive, SpliceNext, SpliceOutside, SpliceRefused, EndSplice,
     Turn, vars
<1>3. Ended => Mapped
  BY DEF IsRunning, Abstract!NoEdit
<1> QED
  BY <1>1, <1>2, <1>3, ArglistEditsAreAtomic, PTL
     DEF Spec, CallReturns, ImplementsItemList, Abstract!ItemListSpec
=============================================================================
