-------------------------- MODULE ArglistRefinement --------------------------
(***************************************************************************)
(* ArglistMutators implements ItemList, the list of the README.  Of a call *)
(* that is not well-formed nothing is promised but that it leaves a list.  *)
(***************************************************************************)
EXTENDS ArglistMutators, ListEdits

\* the number of the binding a step names; Len(s) or more if there is none
BindingNamed(step, s) ==
  LET found == {k \in 1 .. Len(s) : s[k].key = step.s}
  IN  IF step.kind # "sym" THEN IndexNamed(step, Len(s))
      ELSE IF found = {} THEN Len(s)
      ELSE (CHOOSE k \in found : \A j \in found : k <= j) - 1

\* the edit of the abstract list a call asks for
EditOf(r, s) ==
  LET k    == BindingNamed(r.step, s)
      kind == r.val.kind
      new  == [i \in DOMAIN r.val.elems |-> r.val.elems[i].b]
      E(op, items) == [op |-> op, at |-> {k}, new |-> items]
  IN  CASE \/ r.on = "target" /\ r.step.kind = "@@"
           \/ r.on = "args" /\ r.step.kind = "star"    -> E("assign", << >>)
        [] r.on = "target" /\ r.step.kind # "@@"       -> E("refused", << >>)
        [] r.on = "args" /\ r.step.kind # "star" ->
             IF k \notin 0 .. Len(s) - 1 THEN E("refused", << >>)
             ELSE CASE kind = "null"                          -> E("drop", << >>)
                    [] kind = "binding"                       -> E("replace", <<r.val.b>>)
                    [] kind = "list" /\ r.step.kind # "sym"   -> E("before", new)
                    [] kind = "vector" /\ r.step.kind # "sym" -> E("after", new)
                    [] OTHER                                  -> E("refused", << >>)

\* Not well-formed: a number that is cut off; a splice with an element that
\* is no binding or at a position the target does not have, which may insert a
\* part of it; and a replacement by name of any binding but the first.
WellFormed(r, s) ==
  LET k == BindingNamed(r.step, s)
  IN  /\ FitsInt(r.step)
      /\ r.val.kind \in {"list", "vector"} =>
           /\ \A i \in DOMAIN r.val.elems : r.val.elems[i].kind = "binding"
           /\ k < Len(s) \/ r.val.elems = << >>
      /\ r.val.kind = "binding" /\ r.step.kind = "sym" => k \in {0, Len(s)}
      /\ r.on = "args" => r.step.kind \notin {"kw", "@@", "rule"}
      /\ ~(r.step.kind = "sym" /\ r.val.kind = "node")

-----------------------------------------------------------------------------
Unspecified == [op |-> "unspecified", at |-> {}, new |-> << >>]

\* A call that ends the process has returned as far as the list is concerned.
IsRunning == pc \in {"dispatch", "splice"}

Abstract == INSTANCE ItemList WITH
  Item  <- Binding,
  items <- IF IsRunning THEN old ELSE Items(args),
  edit  <- IF ~IsRunning THEN [op |-> "none", at |-> {}, new |-> << >>]
           ELSE IF WellFormed(req, old) THEN EditOf(req, old) ELSE Unspecified

\* Each well-formed call does to the attributes exactly what the README says
\* of it, in one indivisible step as far as the script can tell, and returns:
\* also after calls that were not well-formed.
ImplementsItemList == Abstract!ItemListSpec
=============================================================================
