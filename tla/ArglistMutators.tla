--------------------------- MODULE ArglistMutators ---------------------------
(***************************************************************************)
(* Editing the attributes of a target: (set! (<target> :@ step) value),    *)
(* (set! (<target> :@@) value) and (set! (<target> :rule) value).          *)
(*                                                                         *)
(* A target's attributes are the bindings in the arg_list of a rule call,  *)
(* in an array where commas separate them.  sunlark_set_bang hands the     *)
(* arg_list to sunlark_arglist_mutate and the call expression itself to    *)
(* sunlark_target_mutate; it raises an error if the result is NULL, with   *)
(* errno for a reason.  A splice is one step per turn of its loop.         *)
(***************************************************************************)
EXTENDS CommaList, KwIndex

CONSTANTS
  Keys,       \* names of attributes and rules
  Values,     \* what bindings may be bound to
  Requests,   \* the calls a script may make
  Parsed,     \* the arg_lists of the targets a parsed file may hold
  MaxItems    \* bound: a splice is called only if the list cannot outgrow it

Binding == [key : Keys, v : Values]

\* Elements of a Scheme list or vector: a binding node, another Sunlark
\* node, anything else.
Elem == [kind : {"binding"}, b : Binding] \cup [kind : {"node", "other"}]

\* New values: :null, a binding, another node, a foreign C object, a symbol,
\* any other atom, a list or a vector.
Value == [kind  : {"null", "binding", "node", "cobj", "sym", "atom", "list", "vector"},
          b     : Binding,
          elems : Seq(Elem)]

Step == [kind : StepKinds \cup {"@@", "rule"}, n : Int, s : Keys]

\* on is what the path before the step leads to.
Request == [on : {"args", "target"}, step : Step, val : Value]

ASSUME RequestsAssumption == Requests \subseteq Request /\ Requests # {}

ASSUME ParsedAssumption ==
  \A a \in Parsed : a \in Seq(Binding \cup {Comma}) /\ Alternating(a) /\ a # << >>

ASSUME CommaAssumption == Comma \notin Binding

VARIABLES
  args,       \* arg_list->subnodes
  rule,       \* the rule's name
  errno,
  pc,         \* where the call is
  req,        \* the call being served
  old,        \* the bindings when the call came in
  n,          \* elements spliced so far: i in the loops
  at,         \* where the splice inserts its first element, from 0
  outcome     \* how the last call ended for the script

vars == <<args, rule, errno, pc, req, old, n, at, outcome>>

AnyRequest == CHOOSE r \in Requests : TRUE

-----------------------------------------------------------------------------
Init ==
  /\ args \in Parsed
  /\ rule \in Keys
  /\ errno = "OK"
  /\ pc = "idle"
  /\ req = AnyRequest
  /\ old = Items(args)
  /\ n = 0
  /\ at = 0
  /\ outcome = "none"

\* The call returns with array a, and out is what the script sees of it.
ReturnWith(a, e, out) ==
  /\ args' = a
  /\ errno' = e
  /\ outcome' = out
  /\ pc' = "idle"
  /\ req' = AnyRequest
  /\ old' = Items(a)
  /\ n' = 0
  /\ at' = 0

\* NULL comes back and set_bang raises the error errno stands for.
Fail(e) == ReturnWith(args, e, "error") /\ UNCHANGED rule

Succeed(a, e) == ReturnWith(a, e, "ok") /\ UNCHANGED rule

Halt(how) == pc' = how /\ UNCHANGED <<args, rule, errno, req, old, n, at, outcome>>

-----------------------------------------------------------------------------
Receive(r) ==
  /\ pc = "idle"
  /\ ItemCount(args) + Len(r.val.elems) <= MaxItems
  /\ pc' = "dispatch"
  /\ req' = r
  /\ old' = Items(args)
  /\ outcome' = "none"
  /\ UNCHANGED <<args, rule, errno, n, at>>

StepKind == req.step.kind
Val == req.val
Elems == req.val.elems

\* A step on the arg_list; the string test comes before errno is reset.
StepOnArgs == pc = "dispatch" /\ req.on = "args"

StringStep == StepOnArgs /\ StepKind = "str" /\ Fail(errno)

ClearAll ==
  /\ StepOnArgs
  /\ StepKind = "star"
  /\ Succeed(<< >>, "EKW_NOT_NBR")

ExitOnKeyword ==
  /\ StepOnArgs
  /\ StepKind \in {"kw", "@@", "rule"}
  /\ Halt("exited")

InvalidStep ==
  /\ StepOnArgs
  /\ StepKind \in {"nil", "other"}
  /\ Fail("EINVALID_ARG")

-----------------------------------------------------------------------------
(***************************************************************************)
(* A step that is a symbol selects the first binding of that name.         *)
(***************************************************************************)
SymbolStep == StepOnArgs /\ StepKind = "sym"

Named == {k \in 0 .. ItemCount(args) - 1 : EltAt(args, 2 * k).key = req.step.s}

FirstNamed == CHOOSE k \in Named : \A j \in Named : k <= j

\* sealark_binding_index_for_key counts array elements, commas included
KeyIndex == 2 * FirstNamed

KeyNotFound ==
  /\ SymbolStep
  /\ Named = {}
  /\ Fail("ENOT_FOUND_BINDING")

\* slip: the binding is erased and its comma is left
RemoveNamedOnly ==
  /\ SymbolStep
  /\ Named # {}
  /\ Val.kind = "null"
  /\ Succeed(Erase(args, KeyIndex, 1), "ENOT_A_KW")

\* sealark_remove_binding_at_index takes the index as it was counted
RemoveNamed ==
  /\ SymbolStep
  /\ Named # {}
  /\ Val.kind = "null"
  /\ Succeed(RemoveItem(args, KeyIndex \div 2), "ENOT_A_KW")

\* sealark_arglist_replace_binding_at_int(arglist, k, b)
ReplaceBindingAt(k, e) ==
  IF k \in 0 .. ItemCount(args) - 1
    THEN Succeed(SetItem(args, k, Val.b), e)
    ELSE Fail("EINDEX_OUT_OF_BOUNDS")

\* ... but the same index is passed on as the number of a binding
ReplaceNamed ==
  /\ SymbolStep
  /\ Named # {}
  /\ Val.kind = "binding"
  /\ ReplaceBindingAt(KeyIndex, "ENOT_A_KW")

\* slip: the binding is taken out before the new one is looked at
RefuseAfterRemoval ==
  /\ SymbolStep
  /\ Named # {}
  /\ Val.kind = "node"
  /\ ReturnWith(RemoveItem(args, FirstNamed), "ESUNLARK_ARG_TYPE_ERR", "error")
  /\ UNCHANGED rule

\* the message for a node that is no binding prints a number as a string
RefuseForNamed ==
  /\ SymbolStep
  /\ Named # {}
  /\ \/ Val.kind = "cobj" /\ Fail("ENOT_IMPLEMENTED")
     \/ Val.kind = "node" /\ (Fail("ESUNLARK_ARG_TYPE_ERR") \/ Halt("crashed"))
     \/ Val.kind \in {"list", "vector", "sym", "atom"} /\ Fail("ENOT_A_KW")

-----------------------------------------------------------------------------
(***************************************************************************)
(* A step that is an index: sunlark_mutate_arglist_at_int.                 *)
(***************************************************************************)
IndexStep == StepOnArgs /\ IsIndex(req.step)

Position == Normalize(ItemCount(args), KwIndex(req.step))

RemoveAtIndex ==
  /\ IndexStep
  /\ Val.kind = "null"
  /\ IF Position \in 0 .. ItemCount(args) - 1
       THEN Succeed(RemoveItem(args, Position), "OK")
       ELSE Fail("EINDEX_OUT_OF_BOUNDS")

ReplaceAtIndex ==
  /\ IndexStep
  /\ Val.kind = "binding"
  /\ ReplaceBindingAt(Position, "OK")

RefuseAtIndex ==
  /\ IndexStep
  /\ \/ Val.kind \in {"node", "cobj"} /\ Fail("ENOT_IMPLEMENTED")
     \/ Val.kind \in {"sym", "atom"} /\ Fail("EINVALID_UPDATE")

\* slip: vectors go in front of the splice point too
BeginSpliceAtPoint ==
  /\ IndexStep
  /\ Val.kind \in {"list", "vector"}
  /\ pc' = "splice"
  /\ at' = Position
  /\ errno' = "OK"
  /\ UNCHANGED <<args, rule, req, old, n, outcome>>

\* The splice normalizes once more, and uses what it gets unchecked.
BeginSplice ==
  /\ IndexStep
  /\ Val.kind \in {"list", "vector"}
  /\ pc' = "splice"
  /\ at' = LET index == Normalize(ItemCount(args), Position)
           IN  IF Val.kind = "list" THEN index ELSE index + 1
  /\ errno' = IF NormalizeFails(ItemCount(args), Position) THEN "EINDEX_OUT_OF_BOUNDS" ELSE "OK"
  /\ UNCHANGED <<args, rule, req, old, n, outcome>>

-----------------------------------------------------------------------------
(***************************************************************************)
(* The loops of _binding_splice_list and _binding_splice_vector.           *)
(***************************************************************************)
Turn == pc = "splice" /\ n < Len(Elems)

\* slip: the Scheme object is inserted, not the node it wraps
SpliceNextWrapped ==
  /\ Turn
  /\ Elems[n + 1].kind = "binding"
  /\ at + n \in 0 .. ItemCount(args)
  /\ args' = InsertItem(args, at + n, Elems[n + 1])
  /\ n' = n + 1
  /\ errno' = "OK"
  /\ UNCHANGED <<rule, pc, req, old, at, outcome>>

\* slip: every element is inserted at the index of the first
SpliceNextInFront ==
  /\ Turn
  /\ Elems[n + 1].kind = "binding"
  /\ at + n \in 0 .. ItemCount(args)
  /\ args' = InsertItem(args, at, Elems[n + 1].b)
  /\ n' = n + 1
  /\ errno' = "OK"
  /\ UNCHANGED <<rule, pc, req, old, at, outcome>>

SpliceNext ==
  /\ Turn
  /\ Elems[n + 1].kind = "binding"
  /\ at + n \in 0 .. ItemCount(args)
  /\ args' = InsertItem(args, at + n, Elems[n + 1].b)
  /\ n' = n + 1
  /\ errno' = "OK"
  /\ UNCHANGED <<rule, pc, req, old, at, outcome>>

\* sealark_arglist_insert_binding_at_int set errno
SpliceOutside ==
  /\ Turn
  /\ Elems[n + 1].kind = "binding"
  /\ at + n \notin 0 .. ItemCount(args)
  /\ Fail(IF Val.kind = "list" THEN "ESPLICE_BINDING_ARG" ELSE "ESPLICE_ERR")

\* slip: an element that is no binding is passed over for ever
SpliceRefusedStuck ==
  /\ Turn
  /\ Elems[n + 1].kind # "binding"
  /\ UNCHANGED vars

\* what was inserted before the bad element stays
SpliceRefused ==
  /\ Turn
  /\ Elems[n + 1].kind # "binding"
  /\ Fail("ESPLICE_BINDING_ARG")

\* Neither function returns a value when it succeeds: the caller finds NULL
\* or not as the registers have it, and may report an error.
EndSplice ==
  /\ pc = "splice"
  /\ n = Len(Elems)
  /\ Succeed(args, errno) \/ Fail(errno)

-----------------------------------------------------------------------------
(***************************************************************************)
(* A step on the call expression: sunlark_target_mutate.                   *)
(***************************************************************************)
StepOnTarget == pc = "dispatch" /\ req.on = "target"

\* :@@ removes all bindings, whatever the new value is
ClearTarget ==
  /\ StepOnTarget
  /\ StepKind = "@@"
  /\ Succeed(<< >>, errno)

SetRule ==
  /\ StepOnTarget
  /\ StepKind = "rule"
  /\ Val.kind = "sym"
  /\ rule' = Val.b.key
  /\ ReturnWith(args, errno, "ok")

RefuseRule ==
  /\ StepOnTarget
  /\ StepKind = "rule"
  /\ Val.kind # "sym"
  /\ Fail("EINVALID_UPDATE")

\* Any other step falls off the end of a function that has a result.
IgnoreStep ==
  /\ StepOnTarget
  /\ StepKind \notin {"@@", "rule"}
  /\ Succeed(args, errno) \/ Fail(errno)

-----------------------------------------------------------------------------
Dispatch ==
  \/ StringStep \/ ClearAll \/ ExitOnKeyword \/ InvalidStep
  \/ KeyNotFound \/ RemoveNamed \/ ReplaceNamed \/ RefuseForNamed
  \/ RemoveAtIndex \/ ReplaceAtIndex \/ RefuseAtIndex \/ BeginSplice
  \/ ClearTarget \/ SetRule \/ RefuseRule \/ IgnoreStep

LoopTurn == SpliceNext \/ SpliceOutside \/ SpliceRefused \/ EndSplice

Next == (\E r \in Requests : Receive(r)) \/ Dispatch \/ LoopTurn

\* Single threaded: a call once begun runs on; nothing makes a script call.
Spec == Init /\ [][Next]_vars /\ WF_vars(Dispatch \/ LoopTurn)
-----------------------------------------------------------------------------
(***************************************************************************)
(* Properties                                                              *)
(***************************************************************************)

Errnos == {"OK", "EKW_NOT_NBR", "ENOT_A_KW", "ENOT_IMPLEMENTED", "EINVALID_ARG",
           "ENOT_FOUND_BINDING", "ESUNLARK_ARG_TYPE_ERR", "EINDEX_OUT_OF_BOUNDS",
           "EINVALID_UPDATE", "ESPLICE_BINDING_ARG", "ESPLICE_ERR"}

\* The types of the variables.
TypeOK ==
  /\ args \in Seq(Binding \cup {Comma})
  /\ rule \in Keys
  /\ errno \in Errnos
  /\ pc \in {"idle", "dispatch", "splice", "crashed", "exited"}
  /\ req \in Requests
  /\ old \in Seq(Binding)
  /\ n \in Nat
  /\ at \in Int
  /\ outcome \in {"none", "ok", "error"}

\* Whatever is set!, bindings and commas alternate in the arg_list, at every
\* turn of a splice and after one that was given up half way: indices are
\* normalized twice, shifted by one for vectors and used unchecked.
CommaDiscipline == Alternating(args)

\* The bindings a splice has inserted so far are the first n it was given,
\* in their order, in one run at the place the call named; the bindings
\* the target had are all still there, in their order, around that run.
SpliceIsContiguous ==
  pc = "splice" =>
    /\ n <= Len(Elems)
    /\ n > 0 => at \in 0 .. Len(old)
    /\ Items(args) = [k \in 1 .. Len(old) + n |->
                        IF k <= at THEN old[k]
                        ELSE IF k <= at + n THEN Elems[k - at].b
                        ELSE old[k - n]]

\* A call the script sees fail has lost no binding of the target: only a
\* splice can fail after it has changed the arg_list, and what it leaves
\* still has every binding the call found.
FailureLosesNothing ==
  [][outcome' = "error"
       => /\ \A k \in 1 .. Len(old) : \E j \in 1 .. Len(Items(args')) : Items(args')[j] = old[k]
          /\ pc = "dispatch" => Items(args') = old /\ rule' = rule]_vars

\* Every call comes back to the script, unless it kills the program.
CallReturns == pc = "dispatch" ~> pc \in {"idle", "crashed", "exited"}

\* What README ("you use the same technique to add/replace/remove ...
\* bindings") and the test of replacement by name say: a binding set! under
\* the name of an attribute takes the place of the attribute of that name.
NamedIsReplaced ==
  [][ReplaceNamed
       => Items(args') = [old EXCEPT ![FirstNamed + 1] = Val.b]]_vars
=============================================================================
