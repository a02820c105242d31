--------------------------- MODULE VectorMutators ---------------------------
(***************************************************************************)
(* Editing a Starlark list value: (set! (<path to a list> step) value).    *)
(*                                                                         *)
(* sunlark_set_bang hands a list value to sunlark_vector_mutate_dispatch,  *)
(* which edits the list's expr_list in place.  One call is modelled as     *)
(* Receive, one dispatching step, and one step per turn of the loop it     *)
(* runs, so that what the array looks like between two turns is visible.   *)
(* errno is the only trace an error leaves: set_bang discards the result.  *)
(***************************************************************************)
EXTENDS CommaList, KwIndex

CONSTANTS
  Texts,      \* the contents of strings and the names of symbols
  EmptyText,  \* the empty string, one of the texts
  NoText,     \* the text of a node that was never given one
  Requests,   \* the calls a script may make
  Parsed,     \* the arrays of the lists a parsed file may hold
  MaxItems    \* bound: a splice is called only if the list cannot outgrow it

\* What an item of the array may be; numbers are held as their value.
Node == [tid : {"STRING", "INT", "ID"}, s : Texts \cup Int \cup {NoText}]

\* The elements of a Scheme list or vector: "remove!" is the keyword
\* :remove!, "other" anything but a string, an integer or a symbol.
Elem == [kind : {"str", "sym", "remove!", "other"}, s : Texts] \cup [kind : {"int"}, s : Int]

\* New values.  "null" is :null, "strnode" a Sunlark node of type STRING,
\* "node" any other Sunlark node; elems is used by "list" and "vector".
Value == [kind  : {"str", "int", "sym", "null", "kw", "strnode", "node",
                   "proc", "bool", "list", "vector"},
          s     : Texts \cup Int,
          elems : Seq(Elem)]

\* A step that is itself a list goes by its first element: an index, the
\* keyword :list-expr?, or anything else.
ListKinds == {"(int)", "(kwnum)", "(-kwnum)", "(list-expr?)", "(other)"}

Step == [kind : StepKinds \cup ListKinds, n : Int, s : Texts]

Request == [step : Step, val : Value]

ASSUME RequestsAssumption == Requests \subseteq Request /\ Requests # {}

ASSUME ParsedAssumption ==
  \A a \in Parsed : a \in Seq(Node \cup {Comma}) /\ Alternating(a) /\ a # << >>

ASSUME TextsAssumption == EmptyText \in Texts \ Int /\ NoText \notin Texts \cup Int

ASSUME CommaAssumption == Comma \notin Node

VARIABLES
  sub,        \* expr_list->subnodes
  exprList,   \* whether the list_expr still has its expr_list child
  errno,
  pc,         \* where the call is
  req,        \* the call being served
  old,        \* the slots when the call came in (old_ct, attr_ct count them)
  n,          \* elements of the new value processed so far
  at,         \* the loop's position: i, index or idx in the code
  last        \* new_item_type and new_str of the replacing loop; Comma if unset

vars == <<sub, exprList, errno, pc, req, old, n, at, last>>

Loops == {"splice", "replace", "remove"}

\* how the program or the model may end
Ended == {"crashed", "exited", "astray"}

\* req between calls, when it means nothing
AnyRequest == CHOOSE r \in Requests : TRUE

\* A list that grew from nothing starts with a comma.
CommaInFront(a) ==
  /\ a # << >>
  /\ \A i \in 1 .. Len(a) : a[i] = Comma <=> i % 2 = 1

\* The items as (subnode_ct + 1) / 2 counts them.  With a comma in front
\* each stands behind one, and a last comma with no item is counted too.
Slots(a) ==
  IF ~CommaInFront(a) THEN Items(a)
  ELSE [k \in 1 .. ItemCount(a) |-> IF 2 * k <= Len(a) THEN a[2 * k] ELSE Comma]

-----------------------------------------------------------------------------
Init ==
  /\ sub \in Parsed
  /\ exprList = TRUE
  /\ errno = "OK"
  /\ pc = "idle"
  /\ req = AnyRequest
  /\ old = Slots(sub)
  /\ n = 0
  /\ at = 0
  /\ last = Comma

(***************************************************************************)
(* How a call ends.                                                        *)
(***************************************************************************)

\* The call returns, with array a in the list; its locals are forgotten.
ReturnWith(a, e) ==
  /\ sub' = a
  /\ errno' = e
  /\ pc' = "idle"
  /\ req' = AnyRequest
  /\ old' = Slots(a)
  /\ n' = 0
  /\ at' = 0
  /\ last' = Comma

\* The call returns and this step leaves the list alone.
Return(e) == ReturnWith(sub, e) /\ UNCHANGED exprList

\* A NULL dereference, a failed assertion, an exit(): the program is gone.
Halt(how) == pc' = how /\ UNCHANGED <<sub, exprList, errno, req, old, n, at, last>>

-----------------------------------------------------------------------------
(***************************************************************************)
(* The call and its dispatch on the step.                                  *)
(***************************************************************************)
Receive(r) ==
  /\ pc = "idle"
  /\ r.step.kind \notin {"nil", "other"} => ItemCount(sub) + Len(r.val.elems) <= MaxItems
  /\ pc' = "dispatch"
  /\ req' = r
  /\ errno' = KwIndexErrno(r.step)
  /\ old' = Slots(sub)
  /\ UNCHANGED <<sub, exprList, n, at, last>>

StepKind == req.step.kind
Val == req.val
Elems == req.val.elems

\* :* empties the list, whatever the new value is
ClearAll ==
  /\ pc = "dispatch"
  /\ StepKind = "star"
  /\ exprList
  /\ ReturnWith(<< >>, errno)
  /\ UNCHANGED exprList

RefuseStep ==
  /\ pc = "dispatch"
  /\ \/ StepKind \in {"sym", "kw"} /\ Return("ENOT_IMPLEMENTED")
     \/ StepKind = "(other)" /\ Return("EUNEXPECTED_STATE")

\* Items that are the string s, by position (from 0).
PositionsOf(s) ==
  {k \in 0 .. ItemCount(sub) - 1 :
     EltAt(sub, 2 * k) = [tid |-> "STRING", s |-> s]}

\* sealark_vector_fst_item_idx_for_string: the first of them, or -1
FirstPosition(s) ==
  IF PositionsOf(s) = {} THEN -1
  ELSE CHOOSE k \in PositionsOf(s) : \A j \in PositionsOf(s) : k <= j

\* the step is a list that starts with an index
IsCarIndex == StepKind \in {"(int)", "(kwnum)", "(-kwnum)"}

\* Sealark's lookups go by the places of the commas and by the texts of the
\* items.  What they make of a comma in front, or of a node without a text,
\* is not in this source: the model ends there.
Untold ==
  \/ CommaInFront(sub) /\ (IsCarIndex \/ (IsIndex(req.step) /\ Val.kind # "proc"))
  \/ StepKind = "str" /\ (CommaInFront(sub) \/ \E k \in 1 .. Len(sub) :
                                               sub[k] # Comma /\ sub[k].s = NoText)

LookupAstray ==
  /\ pc = "dispatch"
  /\ exprList
  /\ Untold
  /\ Halt("astray")

StringNotFound ==
  /\ pc = "dispatch"
  /\ StepKind = "str"
  /\ ~Untold
  /\ PositionsOf(req.step.s) = {}
  /\ Return(errno)

\* Emptying a list with '() also erases its expr_list child, which every
\* later edit but the refused ones looks up and dereferences or asserts.
NoExprList ==
  /\ pc = "dispatch"
  /\ ~exprList
  /\ StepKind \in {"star", "nil", "other", "str"} \/ IsIndex(req.step) \/ IsCarIndex
  /\ Halt("crashed")

-----------------------------------------------------------------------------
(***************************************************************************)
(* One item: sunlark_vector_mutate_item, _vector_mutate_item_at_index.     *)
(***************************************************************************)

\* the index passed in: the step's number or the position of its string
Index == IF StepKind = "str" THEN FirstPosition(req.step.s) ELSE KwIndex(req.step)

Position == Normalize(ItemCount(sub), Index)

ErrnoAfterNormalize ==
  IF NormalizeFails(ItemCount(sub), Index) THEN "EINDEX_OUT_OF_BOUNDS" ELSE errno

\* sunlark_infer_expr_list_type: the first item that is no symbol decides
VecType(a) ==
  LET typed == {i \in 1 .. Len(a) : a[i] # Comma /\ a[i].tid # "ID"}
  IN  IF typed = {} THEN "none"
      ELSE a[CHOOSE i \in typed : \A j \in typed : i <= j].tid

ItemCall ==
  /\ pc = "dispatch"
  /\ exprList
  /\ ~Untold
  /\ IsIndex(req.step) \/ (StepKind = "str" /\ PositionsOf(req.step.s) # {})

\* sealark_vector_item_for_int found the item
ItemFound == ItemCall /\ Val.kind # "proc" /\ Position \in 0 .. ItemCount(sub) - 1

RefuseProcedure ==
  /\ ItemCall
  /\ Val.kind = "proc"
  /\ Return("ENOT_IMPLEMENTED")

ItemMissing ==
  /\ ItemCall
  /\ Val.kind # "proc"
  /\ Position \notin 0 .. ItemCount(sub) - 1
  /\ Return(ErrnoAfterNormalize)

\* a string only into a string list, an integer only into an integer list
TypeFits ==
  /\ Val.kind \in {"str", "strnode"} => VecType(sub) = "STRING"
  /\ Val.kind = "int" => VecType(sub) = "INT"

RefuseValue ==
  /\ ItemFound
  /\ Val.kind = "kw" \/ (Val.kind \in {"str", "int"} /\ ~TypeFits)
  /\ Return("EINVALID_ARG")

\* slip: the node keeps the tag of the Scheme value
NewItemUntagged == [tid |-> Val.kind, s |-> Val.s]

NewItem ==
  [tid |-> CASE Val.kind \in {"str", "strnode"} -> "STRING"
             [] Val.kind = "int"                -> "INT"
             [] OTHER                           -> "ID",
   s   |-> Val.s]

ReplaceItem ==
  /\ ItemFound
  /\ Val.kind \in {"str", "int", "sym", "strnode"}
  /\ TypeFits
  /\ ReturnWith(SetItem(sub, Position, NewItem), errno)
  /\ UNCHANGED exprList

\* a string node for an item of any other list ends the program
ExitOnStringNode ==
  /\ ItemFound
  /\ Val.kind = "strnode"
  /\ ~TypeFits
  /\ Halt("exited")

DeleteItem ==
  /\ ItemFound
  /\ Val.kind = "null"
  /\ ReturnWith(RemoveItem(sub, Position), "OK")
  /\ UNCHANGED exprList

\* booleans and nodes that are no strings fall through to the end
IgnoreValue ==
  /\ ItemFound
  /\ Val.kind \in {"bool", "node"}
  /\ Return(errno)

\* slip: vectors go in front of the splice point too
BeginSpliceAtPoint ==
  /\ ItemFound
  /\ Val.kind \in {"list", "vector"}
  /\ pc' = "splice"
  /\ at' = Position
  /\ UNCHANGED <<sub, exprList, errno, req, old, n, last>>

BeginSplice ==
  /\ ItemFound
  /\ Val.kind \in {"list", "vector"}
  /\ pc' = "splice"
  /\ at' = IF Val.kind = "list" THEN Position ELSE Position + 1
  /\ UNCHANGED <<sub, exprList, errno, req, old, n, last>>

-----------------------------------------------------------------------------
(***************************************************************************)
(* One item, by a step that is a list: sunlark_vector_dispatcher looks it  *)
(* up, and what it is decides what is done.                                *)
(***************************************************************************)
CarIndex ==
  CASE StepKind = "(int)"    -> CInt(req.step.n)
    [] StepKind = "(kwnum)"  -> req.step.n
    [] StepKind = "(-kwnum)" -> -req.step.n
    [] OTHER                 -> -1

CarPosition == Normalize(ItemCount(sub), CarIndex)

CarCall == pc = "dispatch" /\ exprList /\ IsCarIndex /\ ~Untold

CarItem == EltAt(sub, 2 * CarPosition)

\* what sunlark_is_nbr_kw left in errno
CarErrno == IF StepKind = "(int)" THEN "ENOT_A_KW" ELSE "OK"

\* The wrapper around NULL, and #t in place of a node, are dereferenced.
CarCrash ==
  /\ \/ CarCall /\ CarPosition \notin 0 .. ItemCount(sub) - 1
     \/ pc = "dispatch" /\ StepKind = "(list-expr?)"
  /\ Halt("crashed")

\* sunlark_set_string is empty and has no result to be judged by,
\* sunlark_set_id refuses any step
CarIgnored ==
  /\ CarCall
  /\ CarPosition \in 0 .. ItemCount(sub) - 1
  /\ \/ CarItem.tid = "STRING" /\ Return(CarErrno)
     \/ CarItem.tid \in {"STRING", "ID"} /\ Return("EUNEXPECTED_STATE")

\* s7_integer of what is no integer is 0
CarSetInt ==
  /\ CarCall
  /\ CarPosition \in 0 .. ItemCount(sub) - 1
  /\ CarItem.tid = "INT"
  /\ LET new == [tid |-> "INT", s |-> IF Val.kind = "int" THEN Val.s ELSE 0]
     IN  ReturnWith(SetItem(sub, CarPosition, new), CarErrno)
  /\ UNCHANGED exprList

-----------------------------------------------------------------------------
(***************************************************************************)
(* The splice loops: strings and integers are inserted one by one, other   *)
(* elements are passed over but counted.                                   *)
(***************************************************************************)

ItemOf(e) == [tid |-> CASE e.kind = "str" -> "STRING"
                        [] e.kind = "int" -> "INT"
                        [] OTHER          -> "ID",
              s   |-> e.s]

SpliceInsert ==
  /\ pc = "splice"
  /\ n < Len(Elems)
  /\ Elems[n + 1].kind \in {"str", "int"}
  /\ n' = n + 1
  /\ IF at + n <= ItemCount(sub)
       THEN sub' = InsertItem(sub, at + n, ItemOf(Elems[n + 1])) /\ UNCHANGED errno
       ELSE errno' = "EINDEX_OUT_OF_BOUNDS" /\ UNCHANGED sub
  /\ UNCHANGED <<exprList, pc, req, old, at, last>>

\* slip: a passed-over element is never left behind
SpliceSkipStuck ==
  /\ pc = "splice"
  /\ n < Len(Elems)
  /\ Elems[n + 1].kind \notin {"str", "int"}
  /\ UNCHANGED vars

SpliceSkip ==
  /\ pc = "splice"
  /\ n < Len(Elems)
  /\ Elems[n + 1].kind \notin {"str", "int"}
  /\ n' = n + 1
  /\ UNCHANGED <<sub, exprList, errno, pc, req, old, at, last>>

EndSplice ==
  /\ pc = "splice"
  /\ n = Len(Elems)
  /\ Return(errno)

-----------------------------------------------------------------------------
(***************************************************************************)
(* The whole list: sunlark_mutate_vector.                                  *)
(***************************************************************************)
\* A step that is no list has s7_list_length 0, and sunlark_vector_dispatcher
\* gives the list itself as for no step at all.
AssignCall == pc = "dispatch" /\ StepKind \in {"nil", "other"} /\ exprList

\* s7_car of a value that is no list reads an object of another type: the
\* read crashes or yields something that is no item, which is refused.
AssignNonList ==
  /\ AssignCall
  /\ Val.kind # "list"
  /\ Halt("crashed") \/ Return("EUNEXPECTED_STATE")

\* (set! (vec) '()) leaves "[" and "]" and nothing between them
AssignEmpty ==
  /\ AssignCall
  /\ Val.kind = "list"
  /\ Elems = << >>
  /\ ReturnWith(<< >>, errno)
  /\ exprList' = FALSE

IsRemoval == Elems[1].kind = "remove!"

\* slip: other elements are skipped too when the type is inferred
TypeInferredSomewhere == \E i \in 1 .. Len(Elems) : Elems[i].kind \in {"str", "int"}

\* sunlark_infer_vector_type_from_list: symbols are skipped, the first
\* other element must be a string or an integer
TypeInferred ==
  \E i \in 1 .. Len(Elems) :
    /\ Elems[i].kind \in {"str", "int"}
    /\ \A j \in 1 .. i - 1 : Elems[j].kind \in {"sym", "remove!"}

AssignList == AssignCall /\ Val.kind = "list" /\ Elems # << >>

RefuseAssign ==
  /\ AssignList
  /\ ~IsRemoval
  /\ ~TypeInferred
  /\ Return("EUNEXPECTED_STATE")

BeginReplace ==
  /\ AssignList
  /\ ~IsRemoval
  /\ TypeInferred
  /\ pc' = "replace"
  /\ UNCHANGED <<sub, exprList, errno, req, old, n, at, last>>

\* new_item_type and new_str outlive the turn that set them: an element
\* that is neither string, integer nor symbol repeats its predecessor.
Replacement(e) ==
  CASE e.kind = "other" -> last
    [] e.kind = "int"   -> [tid |-> "INT", s |-> CInt(e.s)]
    [] OTHER            -> ItemOf(e)

\* the place of the item this turn is about: i steps over a comma
ReplacedAt == IF EltAt(sub, at) = Comma THEN at + 1 ELSE at

ReplaceTurn == pc = "replace" /\ n < Len(Elems)

\* slip: i is not advanced behind the item
ReplaceNextInPlace ==
  /\ ReplaceTurn
  /\ n < Len(old)
  /\ HasElt(sub, ReplacedAt)
  /\ sub' = [sub EXCEPT ![ReplacedAt + 1] = Replacement(Elems[n + 1])]
  /\ at' = ReplacedAt
  /\ last' = Replacement(Elems[n + 1])
  /\ n' = n + 1
  /\ UNCHANGED <<exprList, errno, pc, req, old>>

\* one turn on an item the list already has
ReplaceNext ==
  /\ ReplaceTurn
  /\ n < Len(old)
  /\ HasElt(sub, ReplacedAt)
  /\ sub' = [sub EXCEPT ![ReplacedAt + 1] = Replacement(Elems[n + 1])]
  /\ at' = ReplacedAt + 1
  /\ last' = Replacement(Elems[n + 1])
  /\ n' = n + 1
  /\ UNCHANGED <<exprList, errno, pc, req, old>>

\* a last comma was counted as an item, and there is none behind it
ReplaceMissing ==
  /\ ReplaceTurn
  /\ n < Len(old)
  /\ ~HasElt(sub, ReplacedAt)
  /\ Halt("crashed")

\* A turn past the last item pushes a comma, and copies the text into a new
\* node that has no buffer for it.
ReplacePastEnd ==
  /\ ReplaceTurn
  /\ n >= Len(old)
  /\ Replacement(Elems[n + 1]).s # EmptyText
  /\ sub' = Append(sub, Comma)
  /\ pc' = "crashed"
  /\ UNCHANGED <<exprList, errno, req, old, n, at, last>>

\* Of an empty text there is nothing to copy: the node is pushed without one.
Extend ==
  /\ ReplaceTurn
  /\ n >= Len(old)
  /\ Replacement(Elems[n + 1]).s = EmptyText
  /\ sub' = sub \o <<Comma, [Replacement(Elems[n + 1]) EXCEPT !.s = NoText]>>
  /\ at' = at + 1
  /\ last' = Replacement(Elems[n + 1])
  /\ n' = n + 1
  /\ UNCHANGED <<exprList, errno, pc, req, old>>

EndReplace ==
  /\ pc = "replace"
  /\ n = Len(Elems)
  /\ ReturnWith(IF Len(Elems) < Len(old) THEN Shrink(sub, 2 * Len(Elems) - 1) ELSE sub, errno)
  /\ UNCHANGED exprList

-----------------------------------------------------------------------------
(***************************************************************************)
(* (set! (vec) '(:remove! i j ...)): sunlark_remove_attr_list_items.  The  *)
(* positions all refer to the list as it was when the call came in.        *)
(***************************************************************************)

\* (subnode_ct - 1) / 2 + 1, where C rounds the quotient towards zero
AttrCount == IF Len(old) = 0 THEN 1 ELSE Len(old)

Locations == Tail(Elems)

Misplaced(e) == CAbs(CInt(e.s)) >= AttrCount

\* The first pass over the positions.  An element that is no integer gets
\* through as position 0, which s7_integer gives for it.
RefuseRemoval ==
  /\ AssignList
  /\ IsRemoval
  /\ \E j \in 1 .. Len(Locations) :
        Locations[j].kind = "int" /\ Misplaced(Locations[j])
  /\ Return("ESUNLARK_INVALID_ARG")

\* slip: no first pass over the positions
BeginRemovalUnchecked ==
  /\ AssignList
  /\ IsRemoval
  /\ pc' = "remove"
  /\ UNCHANGED <<sub, exprList, errno, req, old, n, at, last>>

BeginRemoval ==
  /\ AssignList
  /\ IsRemoval
  /\ \A j \in 1 .. Len(Locations) :
        Locations[j].kind = "int" => ~Misplaced(Locations[j])
  /\ pc' = "remove"
  /\ UNCHANGED <<sub, exprList, errno, req, old, n, at, last>>

\* the array index of the pair of nodes to erase; the second test of the
\* sum is always true for a position the first pass let through, except
\* for INT_MIN, which then erases relative to the previous idx
RemovalIndex(loc) ==
  LET base == IF loc < 0
                THEN IF AttrCount + loc > 0 THEN 2 * (AttrCount + loc) - 1 ELSE at
                ELSE IF loc = AttrCount - 1 THEN 2 * loc - 1 ELSE 2 * loc
  IN  base - 2 * n

\* slip: the item is erased, its comma stays
RemoveNextLone ==
  /\ pc = "remove"
  /\ n < Len(Locations)
  /\ Locations[n + 1].kind = "int"
  /\ ~Misplaced(Locations[n + 1])
  /\ at' = RemovalIndex(CInt(Locations[n + 1].s))
  /\ HasElt(sub, at')
  /\ sub' = Erase(sub, at', 1)
  /\ n' = n + 1
  /\ UNCHANGED <<exprList, errno, pc, req, old, last>>

RemoveNext ==
  /\ pc = "remove"
  /\ n < Len(Locations)
  /\ Locations[n + 1].kind = "int"
  /\ ~Misplaced(Locations[n + 1])
  /\ LET idx == RemovalIndex(CInt(Locations[n + 1].s))
     IN  /\ at' = idx
         /\ IF HasElt(sub, idx) /\ HasElt(sub, idx + 1)
              THEN sub' = Erase(sub, idx, 2) /\ n' = n + 1 /\ UNCHANGED pc
              ELSE pc' = "crashed" /\ UNCHANGED <<sub, n>>
  /\ UNCHANGED <<exprList, errno, req, old, last>>

\* what was removed before the bad position stays removed
RefuseLocation ==
  /\ pc = "remove"
  /\ n < Len(Locations)
  /\ Locations[n + 1].kind = "int" => Misplaced(Locations[n + 1])
  /\ Return(IF Locations[n + 1].kind = "int" THEN "ESUNLARK_INVALID_ARG"
                                                     ELSE "ESUNLARK_LOCN_ARG_ERR")

EndRemoval ==
  /\ pc = "remove"
  /\ n = Len(Locations)
  /\ Return(errno)

-----------------------------------------------------------------------------
Dispatch ==
  \/ ClearAll \/ RefuseStep \/ StringNotFound \/ NoExprList
  \/ RefuseProcedure \/ ItemMissing \/ RefuseValue \/ ReplaceItem
  \/ ExitOnStringNode \/ DeleteItem \/ IgnoreValue \/ BeginSplice
  \/ AssignNonList \/ AssignEmpty \/ RefuseAssign \/ BeginReplace
  \/ RefuseRemoval \/ BeginRemoval
  \/ LookupAstray \/ CarCrash \/ CarIgnored \/ CarSetInt

LoopTurn ==
  \/ SpliceInsert \/ SpliceSkip \/ EndSplice
  \/ ReplaceNext \/ ReplaceMissing \/ ReplacePastEnd \/ Extend \/ EndReplace
  \/ RemoveNext \/ RefuseLocation \/ EndRemoval

Next == (\E r \in Requests : Receive(r)) \/ Dispatch \/ LoopTurn

\* The interpreter is single threaded: once in a C function it runs on.
\* Nothing makes a script issue another call.
Spec == Init /\ [][Next]_vars /\ WF_vars(Dispatch \/ LoopTurn)

-----------------------------------------------------------------------------
(***************************************************************************)
(* Properties                                                              *)
(***************************************************************************)

Errnos == {"OK", "EKW_NOT_NBR", "ENOT_A_KW", "ENOT_IMPLEMENTED",
           "EUNEXPECTED_STATE", "EINDEX_OUT_OF_BOUNDS", "EINVALID_ARG",
           "ESUNLARK_INVALID_ARG", "ESUNLARK_LOCN_ARG_ERR"}

\* The types of the variables.
TypeOK ==
  /\ sub \in Seq(Node \cup {Comma})
  /\ exprList \in BOOLEAN
  /\ errno \in Errnos
  /\ pc \in {"idle", "dispatch"} \cup Loops \cup Ended
  /\ req \in Requests
  /\ old \in Seq(Node \cup {Comma})
  /\ n \in Nat
  /\ at \in Int
  /\ last \in Node \cup {Comma}

\* Whatever is set!, with whatever arguments, in any order, and at every
\* turn of every loop: items and commas alternate in the array, never two of
\* a kind side by side, and if an item comes first there is no dangling
\* comma either, as long as the program lives.  The loops do their own index
\* arithmetic on the flat array (2*i, 2*i - 1, erase 2, resize to 2*ct - 1)
\* and the serializer prints what they leave.
CommaDiscipline == pc \notin Ended => Alternating(sub) \/ CommaInFront(sub)

\* A comma gets in front of a list in one way only: a list without items is
\* assigned to, and the replacing loop, which puts a comma before each item
\* it adds, adds the first one.
CommaInFrontFromNothing ==
  [][CommaInFront(sub') => CommaInFront(sub) \/ (pc = "replace" /\ old = << >>)]_vars

\* The locals of a running call say where it is in the array.  The replacing
\* loop has one counter that steps over a comma when it meets one, and goes
\* on by one, not two, when items are added behind the last: after n elements
\* it stands behind item n, unless that one was added.  The array has the
\* slots it had, or n if that is more.  The removing loop has taken one slot
\* for each position it processed, and every position it has yet to process
\* is one the list had at the start.
LoopPosition ==
  /\ pc \in {"idle", "dispatch"} => n = 0 /\ at = 0 /\ old = Slots(sub)
  /\ pc = "replace" =>
       /\ n <= Len(Elems)
       /\ IF n <= Len(old)
            THEN /\ ItemCount(sub) = Len(old)
                 /\ at = IF n = 0 \/ CommaInFront(sub) THEN 2 * n ELSE 2 * n - 1
                 /\ n > 0 => last = EltAt(sub, at - 1)
            ELSE /\ ItemCount(sub) = n
                 /\ at = IF CommaInFront(sub) THEN n + Len(old) ELSE n + Len(old) - 1
                 /\ last.s = EmptyText /\ sub[Len(sub)] = [last EXCEPT !.s = NoText]
  /\ pc = "remove" =>
       /\ ItemCount(sub) + n = Len(old)
       /\ \A j \in 1 .. Len(Locations) :
            Locations[j].kind = "int" => ~Misplaced(Locations[j])

\* A call that ends with one of the errors below has changed nothing: in
\* particular a removal with one position out of range removes none of the
\* others, because the positions are checked in a pass of their own.
RefusalChangesNothing ==
  [][pc' = "idle" /\ errno' \in {"ENOT_IMPLEMENTED", "EUNEXPECTED_STATE",
                                 "EINVALID_ARG", "ESUNLARK_INVALID_ARG"}
       => Slots(sub') = old]_vars

\* Every call comes back to the script, unless it kills the program.
CallReturns == pc = "dispatch" ~> pc \in {"idle"} \cup Ended

\* The assertion of sunlark_vector_mutate_item, vector->tid == TK_Expr_List:
\* the list whose item is edited has an expression list.
ItemEditHasExprList == pc = "dispatch" /\ IsIndex(req.step) => exprList

\* README, on splicing: a list's values go before the splice point.  When a
\* list is spliced at an item, that item ends up behind all inserted ones.
ListGoesBeforeSplicePoint ==
  (pc = "splice" /\ n = Len(Elems) /\ Val.kind = "list")
    => LET grown == Len(Items(sub)) - Len(old)
       IN  Items(sub)[at + grown + 1] = old[at + 1]

\* The comment of the removal loop: it accounts for elements already removed,
\* so that, when no position is given twice, what remains are the items whose
\* position was not given.
RemovalTakesGivenPositions ==
  (pc = "remove" /\ n = Len(Locations))
    => LET Given(j) == LET loc == CInt(Locations[j].s)
                       IN  IF loc < 0 THEN Len(old) + loc ELSE loc
           given == {Given(j) : j \in 1 .. Len(Locations)}
       IN  (\A i, j \in 1 .. Len(Locations) : i # j => Given(i) # Given(j))
             => {Slots(sub)[i] : i \in 1 .. Len(Slots(sub))}
                  = {old[k] : k \in {k \in 1 .. Len(old) : k - 1 \notin given}}
=============================================================================
