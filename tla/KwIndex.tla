------------------------------- MODULE KwIndex -------------------------------
(***************************************************************************)
(* How a path step selects an item by position.                            *)
(*                                                                         *)
(* A step is an s7 integer or a "keywordized" integer such as :2 or :-1;   *)
(* sunlark_kwindex_to_int turns it into a C int and reports in errno why a *)
(* step of another kind is no index.  sealark_normalize_index then maps a  *)
(* negative index to a position counted from the end.                      *)
(***************************************************************************)
EXTENDS Integers

CONSTANT IntMin       \* INT_MIN: the C int holds IntMin .. -IntMin - 1

ASSUME IntMinAssumption == IntMin \in Int /\ IntMin < -1

\* The conversion of a 64 bit s7_int to a C int keeps the low bits.
CInt(n) == ((n - IntMin) % (-2 * IntMin)) + IntMin

\* abs(3) on an int: INT_MIN has no positive counterpart and stays.
CAbs(n) == IF n < 0 /\ n # IntMin THEN -n ELSE n

-----------------------------------------------------------------------------
(***************************************************************************)
(* A path step is a record [kind, n, s]:                                   *)
(*   "int"    an s7 integer n                                              *)
(*   "kwnum"  a keyword whose name is digits, with value n >= 0            *)
(*   "-kwnum" a keyword whose name is '-' and digits; atoi gives -n, and   *)
(*            0 both for :-0 and for :- which has no digits at all         *)
(*   "star"   the keyword :*                                               *)
(*   "kw"     any other keyword                                            *)
(*   "sym"    a symbol s                                                   *)
(*   "str"    a string s                                                   *)
(*   "nil"    no step: the path ended at the list itself                   *)
(*   "other"  any other Scheme value                                       *)
(***************************************************************************)
StepKinds ==
  {"int", "kwnum", "-kwnum", "star", "kw", "sym", "str", "nil", "other"}

IsIndex(step) == step.kind \in {"int", "kwnum", "-kwnum"}

\* errno after sunlark_kwindex_to_int
KwIndexErrno(step) ==
  CASE IsIndex(step)                   -> "OK"
    [] step.kind \in {"star", "kw"}    -> "EKW_NOT_NBR"
    [] OTHER                           -> "ENOT_A_KW"

\* the int sunlark_kwindex_to_int returns
KwIndex(step) ==
  CASE step.kind = "int"    -> CInt(step.n)
    [] step.kind = "kwnum"  -> step.n
    [] step.kind = "-kwnum" -> -step.n
    [] OTHER                -> -1

\* sealark_normalize_index on a node with ct items: the value returned ...
Normalize(ct, index) ==
  IF index < 0 /\ CAbs(index) <= ct THEN ct + index ELSE index

\* ... and whether it set errno to EINDEX_OUT_OF_BOUNDS.  It returns in
\* either case; the caller finds out from the item lookup that follows.
NormalizeFails(ct, index) ==
  \/ index < 0 /\ CAbs(index) > ct
  \/ Normalize(ct, index) > ct - 1

-----------------------------------------------------------------------------
(***************************************************************************)
(* What the README means by an index, which the editors are compared with. *)
(***************************************************************************)

\* the number of the item an index names in a list of ct items, counting
\* from the end if negative; ct or more if there is no such item
IndexNamed(step, ct) ==
  CASE step.kind = "-kwnum" /\ step.n \in 1 .. ct         -> ct - step.n
    [] step.kind = "-kwnum" /\ step.n = 0                 -> 0
    [] step.kind = "int" /\ step.n < 0 /\ -step.n <= ct   -> ct + step.n
    [] step.kind \in {"int", "kwnum"} /\ step.n >= 0      -> step.n
    [] OTHER                                              -> ct

\* A C int holds the number; one with a colon before it has digits only.
FitsInt(step) ==
  /\ step.kind = "int" => step.n \in IntMin .. -IntMin - 1
  /\ step.kind = "kwnum" => step.n \in 0 .. -IntMin - 1
  /\ step.kind = "-kwnum" => step.n \in 0 .. -IntMin
=============================================================================
