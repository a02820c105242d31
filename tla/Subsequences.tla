---------------------------- MODULE Subsequences ----------------------------
(***************************************************************************)
(* The entries of a sequence that stand in certain places, in their order. *)
(* It is what SelectSeq gives for the places of the entries that pass its  *)
(* test; stated by counting, it can be reasoned about without induction.   *)
(***************************************************************************)
EXTENDS Naturals, Sequences, FiniteSets

\* how many of the places S come no later than p
CountTo(S, p) == Cardinality({q \in S : q <= p})

\* the place in S that is number k, from 1
NthPlace(S, k) == CHOOSE p \in S : CountTo(S, p) = k

\* the entries of s in the places S
Selected(s, S) == [k \in 1 .. Cardinality(S) |-> s[NthPlace(S, k)]]
=============================================================================
