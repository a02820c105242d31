---------------------------- MODULE MCBindingHeap ----------------------------
(***************************************************************************)
(* Instances of BindingHeap for TLC: a target with a list and a string.    *)
(***************************************************************************)
EXTENDS BindingHeap

A(tid, s) == [tid |-> tid, s |-> s]

MCNames == {"x", "y"}
MCTexts == {"p", "q", ""}
MCEmptyText == ""

MCParsed ==
  {<<[key |-> "p", val |-> [tid |-> "list", items |-> <<A("STRING", "p"), A("INT", "q")>>]],
     [key |-> "q", val |-> [tid |-> "atom", items |-> <<A("STRING", "p")>>]]>>}

MCMadeFrom == {[key |-> "q", val |-> [tid |-> "atom", items |-> <<A("STRING", "q")>>]]}

V(kind, items) == [kind |-> kind, items |-> items]

MCNewValues ==
  {V("null", << >>), V("cobj", << >>), V("other", << >>), V("atom", <<A("ID", "q")>>),
   V("list", <<A("STRING", "q")>>), V("list", <<A("ID", "q")>>), V("list", << >>),
   V("list", <<A("STRING", ""), A("ID", "p"), A("STRING", "")>>),
   V("vector", <<A("STRING", "q"), A("ID", "p")>>)}

MCNewPairs ==
  {[valid |-> FALSE, key |-> "p", val |-> V("atom", <<A("STRING", "q")>>)],
   [valid |-> TRUE, key |-> "q", val |-> V("atom", <<A("STRING", "q")>>)],
   [valid |-> TRUE, key |-> "q", val |-> V("list", <<A("STRING", "q")>>)],
   [valid |-> TRUE, key |-> "p", val |-> V("list", <<A("STRING", ""), A("STRING", "")>>)]}
=============================================================================
