------------------------------- MODULE MCVector -------------------------------
(***************************************************************************)
(* Instances of VectorMutators for TLC.                                    *)
(***************************************************************************)
EXTENDS VectorRefinement

CONSTANTS a, b, c, empty     \* texts

Str(t) == [tid |-> "STRING", s |-> t]
Num(i) == [tid |-> "INT", s |-> i]
Id(t)  == [tid |-> "ID", s |-> t]

\* The array of a list with the given items.
ArrayOf(items) ==
  [i \in 1 .. 2 * Len(items) - 1 |-> IF i % 2 = 0 THEN Comma ELSE items[(i + 1) \div 2]]

E(kind, s) == [kind |-> kind, s |-> s]

At(kind, i) == [kind |-> kind, n |-> i, s |-> a]
Named(kind, t) == [kind |-> kind, n |-> 0, s |-> t]

Scalar(kind, s) == [kind |-> kind, s |-> s, elems |-> << >>]
Many(kind, elems) == [kind |-> kind, s |-> a, elems |-> elems]

MCIntMin == -8

UpTo(S, k) == UNION {[1 .. m -> S] : m \in 0 .. k}

-----------------------------------------------------------------------------
(***************************************************************************)
(* Every kind of call on lists of at most four items.  The shape of the    *)
(* array is what counts: all strings are empty, which lets a list grow by  *)
(* assignment, all numbers are 0, all variables have one name.             *)
(***************************************************************************)
ShapeTexts == {a, empty}

ShapeLists == {ArrayOf(<<Str(empty), Str(empty), Str(empty)>>), ArrayOf(<<Id(a), Str(empty)>>),
               ArrayOf(<<Num(0), Num(0), Num(0)>>), ArrayOf(<<Id(a)>>)}

Positions == {At("int", i) : i \in {-8, -3, -1, 0, 2}}
             \cup {At("kwnum", 1), At("-kwnum", 0), Named("str", empty)}

OtherSteps == {Named(k, a) : k \in {"star", "kw", "sym", "other", "(list-expr?)", "(other)"}}
              \cup {At("(int)", i) : i \in {-1, 0, 3}} \cup {At("(kwnum)", 1), At("(-kwnum)", 1)}

Scalars == {Scalar("str", empty), Scalar("strnode", empty), Scalar("int", 0)}
           \cup {Scalar(k, a) : k \in {"sym", "null", "kw", "node", "proc", "bool"}}

Elements == {E("str", empty), E("int", 0), E("sym", a), E("other", a)}

ItemRequests ==
  {[step |-> st, val |-> v] : st \in Positions,
     v \in Scalars \cup {Many(k, es) : k \in {"list", "vector"}, es \in UpTo(Elements, 2)}}
  \cup {[step |-> st, val |-> v] : st \in OtherSteps,
          v \in {Scalar("str", empty), Scalar("int", 0), Many("list", <<E("str", empty)>>)}}

AssignRequests ==
  {[step |-> Named("nil", a), val |-> v] :
     v \in {Many("list", es) : es \in UpTo(Elements, 3)} \cup {Scalar("str", empty)}}

RemovalRequests ==
  {[step |-> Named("nil", a), val |-> Many("list", <<E("remove!", a)>> \o es)] :
     es \in UpTo({E("int", i) : i \in {-8, -2, 0, 1, 3}} \cup {E("str", empty)}, 2)}

AnyRequests == ItemRequests \cup AssignRequests \cup RemovalRequests

-----------------------------------------------------------------------------
(***************************************************************************)
(* Calls on lists of distinguishable items, for the comparison with        *)
(* ItemList: which item ends up where is what counts.                      *)
(***************************************************************************)
ThreeTexts == {a, b, c, empty}

DistinctLists == {ArrayOf(<<Str(a), Id(b), Str(b)>>), ArrayOf(<<Num(1), Num(2)>>)}

DistinctSteps == {At("int", i) : i \in {-4, -1, 0, 2}}
                 \cup {At("kwnum", 1), At("-kwnum", 0), At("-kwnum", 2)}
                 \cup {Named(k, a) : k \in {"star", "kw", "sym", "str"}}

NewValues == {Scalar("str", c), Scalar("int", 7), Scalar("sym", c), Scalar("null", a),
              Scalar("bool", a)}
             \cup {Many(k, es) : k \in {"list", "vector"},
                      es \in {<<E("str", c)>>, <<E("str", c), E("int", 7)>>}}

Assigned == {<<E("str", a)>>, <<E("int", 1), E("sym", b)>>,
             <<E("sym", b), E("str", c), E("str", empty)>>}

Removed == {<<E("remove!", a)>> \o [i \in 1 .. Len(ps) |-> E("int", ps[i])] :
              ps \in UpTo({-2, -1, 0, 1, 2}, 2)}

DistinctRequests ==
  {[step |-> st, val |-> v] : st \in DistinctSteps, v \in NewValues}
  \cup {[step |-> Named("nil", a), val |-> Many("list", es)] : es \in Assigned \cup Removed}
=============================================================================
