------------------------------- MODULE ItemList -------------------------------
(***************************************************************************)
(* What editing a list promises (README, "mutation"): the list is a        *)
(* sequence of items, and an edit takes effect at once and as a whole.     *)
(* There are no commas here, no array positions and no loops.              *)
(***************************************************************************)
EXTENDS ListEdits

CONSTANT Item

VARIABLES
  items,      \* the list
  edit        \* the edit a script has asked for and not seen return

ivars == <<items, edit>>

(***************************************************************************)
(* An edit: op, the positions it names (from 0), the items it brings.      *)
(* Of an unspecified edit nothing is promised but that it leaves a list.   *)
(***************************************************************************)
Ops == {"none", "refused", "replace", "before", "after", "drop", "assign", "unspecified"}

NoEdit == [op |-> "none", at |-> {}, new |-> << >>]

Edit == [op : Ops, at : SUBSET Nat, new : Seq(Item)]

-----------------------------------------------------------------------------
ItemListInit == items \in Seq(Item) /\ edit = NoEdit

Begin ==
  /\ edit = NoEdit
  /\ edit' \in Edit \ {NoEdit}
  /\ UNCHANGED items

Finish ==
  /\ edit # NoEdit
  /\ IF edit.op = "unspecified" THEN items' \in Seq(Item)
                                 ELSE items' = Applied(edit, items)
  /\ edit' = NoEdit

\* Every edit that was asked for takes effect.
ItemListSpec == ItemListInit /\ [][Begin \/ Finish]_ivars /\ []<>(edit = NoEdit)
=============================================================================
