--------------------------- MODULE VectorRefinement ---------------------------
(***************************************************************************)
(* VectorMutators implements ItemList for well-formed calls: while a call  *)
(* runs the abstract list is still the one the call found, and at the      *)
(* return it becomes what the README says the call does.                   *)
(***************************************************************************)
EXTENDS VectorMutators, ListEdits

\* the number of the item a step names; Len(s) or more if there is none
ItemNamed(step, s) ==
  LET found == {k \in 1 .. Len(s) : s[k] = [tid |-> "STRING", s |-> step.s]}
  IN  IF step.kind # "str" THEN IndexNamed(step, Len(s))
      ELSE IF found = {} THEN Len(s)
      ELSE (CHOOSE k \in found : \A j \in found : k <= j) - 1

\* the type of a list is that of its first item that is no variable
TypeOf(s) ==
  LET constants == {k \in 1 .. Len(s) : s[k].tid # "ID"}
  IN  IF constants = {} THEN "none"
      ELSE s[CHOOSE k \in constants : \A j \in constants : k <= j].tid

EditOfItem(r, s) ==
  LET k    == ItemNamed(r.step, s)
      kind == r.val.kind
      new  == [i \in DOMAIN r.val.elems |-> ItemOf(r.val.elems[i])]
      E(op, items) == [op |-> op, at |-> {k}, new |-> items]
      Set(tid) == E("replace", <<[tid |-> tid, s |-> r.val.s]>>)
  IN  IF k \notin 0 .. Len(s) - 1 THEN E("refused", << >>)
      ELSE CASE kind = "null"                             -> E("drop", << >>)
             [] kind = "sym"                              -> Set("ID")
             [] kind = "str" /\ TypeOf(s) = "STRING"      -> Set("STRING")
             [] kind = "int" /\ TypeOf(s) = "INT"         -> Set("INT")
             [] kind = "list"                             -> E("before", new)
             [] kind = "vector"                           -> E("after", new)
             [] OTHER                                     -> E("refused", << >>)

\* the position a removal gives, from 0; a negative one counts from the end
Given(e, s) == IF e.s < 0 THEN Len(s) + e.s ELSE e.s

EditOfList(r, s) ==
  LET elems == r.val.elems
      removed == {Given(elems[i], s) : i \in 2 .. Len(elems)}
  IN  IF elems[1].kind # "remove!"
        THEN [op |-> "assign", at |-> {}, new |-> [i \in DOMAIN elems |-> ItemOf(elems[i])]]
      ELSE IF removed \subseteq 0 .. Len(s) - 1
        THEN [op |-> "drop", at |-> removed, new |-> << >>]
        ELSE [op |-> "refused", at |-> {}, new |-> << >>]

EditOf(r, s) ==
  CASE r.step.kind = "nil"  -> EditOfList(r, s)
    [] r.step.kind = "star" -> [op |-> "assign", at |-> {}, new |-> << >>]
    [] OTHER                -> EditOfItem(r, s)

-----------------------------------------------------------------------------
(***************************************************************************)
(* The calls the promise is about.  Each condition excludes something the  *)
(* code gets wrong; VectorSpliceOrder and VectorRemovalOrder show what     *)
(* happens without the conditions on splices and removals.                 *)
(***************************************************************************)

\* Removals go from left to right; the array index of a last or negative
\* position is that of the comma before it, which must still be there.
RemovalInOrder(r, s) ==
  LET elems == r.val.elems
      Pos(i) == Given(elems[i], s)
  IN  /\ \A i \in 2 .. Len(elems) :
           elems[i].kind = "int" /\ elems[i].s \in IntMin + 1 .. -IntMin - 1
      /\ \A i, j \in 2 .. Len(elems) : i < j => Pos(i) < Pos(j)
      /\ \A i \in 2 .. Len(elems) :
           elems[i].s < 0 \/ Pos(i) = Len(s) - 1 => Pos(i) # i - 2

WellFormedList(r, s) ==
  LET elems == r.val.elems
  IN  /\ r.val.kind = "list"
      /\ elems # << >>
      /\ IF elems[1].kind = "remove!" THEN s # << >> /\ RemovalInOrder(r, s)
         ELSE /\ Len(elems) <= Len(s)
              /\ \A i \in DOMAIN elems :
                   /\ elems[i].kind \in {"str", "int", "sym"}
                   /\ elems[i].kind = "int" => elems[i].s \in IntMin .. -IntMin - 1
              /\ \E i \in DOMAIN elems : elems[i].kind # "sym"

\* Of a list as step only the first element is looked at, and what is done
\* with the new value depends on the item there; a step that is neither
\* assigns.  A string is looked up among items that have texts.
WellFormedItem(r, s) ==
  /\ r.step.kind \notin ListKinds \cup {"other"}
  /\ r.step.kind = "str" => \A k \in 1 .. Len(s) : s[k].s # NoText
  /\ FitsInt(r.step)
  /\ r.val.kind \in {"list", "vector"}
       => \A i \in DOMAIN r.val.elems : r.val.elems[i].kind \in {"str", "int"}
  /\ r.val.kind # "strnode"

WellFormed(r, s) ==
  IF r.step.kind = "nil" THEN WellFormedList(r, s) ELSE WellFormedItem(r, s)

WFNext ==
  \/ \E r \in Requests : WellFormed(r, Items(sub)) /\ Receive(r)
  \/ Dispatch
  \/ LoopTurn

WellFormedSpec == Init /\ [][WFNext]_vars /\ WF_vars(Dispatch \/ LoopTurn)

-----------------------------------------------------------------------------
IsRunning == pc # "idle"

Abstract == INSTANCE ItemList WITH
  Item  <- Node,
  items <- IF IsRunning THEN old ELSE Items(sub),
  edit  <- IF IsRunning THEN EditOf(req, old)
                        ELSE [op |-> "none", at |-> {}, new |-> << >>]

\* Each well-formed call does to the list exactly what the README says of it,
\* in one indivisible step as far as the script can tell, and returns.
ImplementsItemList == Abstract!ItemListSpec
=============================================================================
