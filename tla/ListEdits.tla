------------------------------ MODULE ListEdits ------------------------------
(***************************************************************************)
(* What an edit does to a sequence of items: an edit is a record [op, at,  *)
(* new], see ItemList.                                                     *)
(***************************************************************************)
EXTENDS Naturals, Sequences, Subsequences

\* s with the sequence new put between its first k items and the others
SpliceIn(s, k, new) == SubSeq(s, 1, k) \o new \o SubSeq(s, k + 1, Len(s))

\* the items of s, in order, whose position is not in D
Without(s, D) == Selected(s, {k \in 1 .. Len(s) : k - 1 \notin D})

\* the list after edit e
Applied(e, s) ==
  LET k == CHOOSE k \in e.at : TRUE
  IN  CASE e.op = "replace" -> [s EXCEPT ![k + 1] = e.new[1]]
        [] e.op = "before"  -> SpliceIn(s, k, e.new)
        [] e.op = "after"   -> SpliceIn(s, k + 1, e.new)
        [] e.op = "drop"    -> Without(s, e.at)
        [] e.op = "assign"  -> e.new
        [] OTHER            -> s
=============================================================================
