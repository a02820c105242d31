------------------------------ MODULE CommaList ------------------------------
(***************************************************************************)
(* The subnode arrays of the Starlark syntax tree.                         *)
(*                                                                         *)
(* A list value, the arguments of a rule and the arguments of a load       *)
(* statement are all kept as one flat array of nodes in which the items    *)
(* and the comma nodes between them alternate, e.g. "a" , "b" , "c" is an  *)
(* array of five nodes.  The array is a uthash UT_array; item number k     *)
(* (from 0, as the editing commands count) is array element 2*k (from 0).  *)
(*                                                                         *)
(* Sequences count from 1, so array element j of the C code is a[j+1].     *)
(***************************************************************************)
EXTENDS Integers, Sequences

CONSTANT Comma        \* the comma node

-----------------------------------------------------------------------------
(***************************************************************************)
(* The UT_array operations the editing code calls.                         *)
(***************************************************************************)

\* utarray_eltptr(a,j) is NULL unless j is the index of an element: the
\* comparison is unsigned, so a negative j is out of range too.
HasElt(a, j) == j \in 0 .. Len(a) - 1

EltAt(a, j) == a[j + 1]

\* utarray_erase(a,pos,n) for pos + n <= length
Erase(a, pos, n) ==
  [i \in 1 .. Len(a) - n |-> IF i <= pos THEN a[i] ELSE a[i + n]]

\* utarray_resize(a,n) when it shortens the array
Shrink(a, n) == [i \in 1 .. n |-> a[i]]

-----------------------------------------------------------------------------
(***************************************************************************)
(* Items: the array with its commas dropped.                               *)
(***************************************************************************)

\* (subnode_ct + 1) / 2
ItemCount(a) == (Len(a) + 1) \div 2

\* The items in order, counted from 1 here.
Items(a) == [k \in 1 .. ItemCount(a) |-> a[2 * k - 1]]

\* What every consumer of the array relies on: an item first, an item
\* last, commas exactly between them.
Alternating(a) ==
  /\ a = << >> \/ Len(a) % 2 = 1
  /\ \A i \in 1 .. Len(a) : a[i] = Comma <=> i % 2 = 0

-----------------------------------------------------------------------------
(***************************************************************************)
(* The Sealark library's item-level edits, which keep the commas right:    *)
(* the editing code calls them with an item index and counts on the        *)
(* result having one item more, or one item less.                          *)
(***************************************************************************)

\* The array after item x was inserted so that it becomes item k (from 0).
InsertItem(a, k, x) ==
  [i \in 1 .. (IF a = << >> THEN 1 ELSE Len(a) + 2) |->
     IF i % 2 = 0 THEN Comma
     ELSE IF i = 2 * k + 1 THEN x
     ELSE IF i < 2 * k + 1 THEN a[i] ELSE a[i - 2]]

\* The array after item k and one comma next to it were removed.
RemoveItem(a, k) ==
  IF Len(a) = 1 THEN << >>
  ELSE Erase(a, IF k = ItemCount(a) - 1 THEN 2 * k - 1 ELSE 2 * k, 2)

\* The array with item k replaced by x.
SetItem(a, k, x) == [a EXCEPT ![2 * k + 1] = x]
=============================================================================
