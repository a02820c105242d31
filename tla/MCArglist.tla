------------------------------ MODULE MCArglist ------------------------------
(***************************************************************************)
(* Instances of ArglistMutators for TLC.                                   *)
(***************************************************************************)
EXTENDS ArglistRefinement

CONSTANTS a, b, c     \* names
CONSTANT v            \* the value of every binding

B(key, val) == [key |-> key, v |-> val]

\* The array of an arg_list with the given bindings.
ArrayOf(items) ==
  [i \in 1 .. 2 * Len(items) - 1 |-> IF i % 2 = 0 THEN Comma ELSE items[(i + 1) \div 2]]

\* Enough names to tell which binding ended up where.  The second target
\* has an attribute twice, which no one forbids.
ThreeKeys == {a, b, c}
DistinctTargets == {ArrayOf(<<B(a, v), B(b, v), B(c, v)>>), ArrayOf(<<B(c, v), B(c, v)>>)}

MCValues == {v}

\* More than twice the items a list can have, as for a real int.
MCIntMin == -16

E(kind) == [kind |-> kind]
New(key) == [kind |-> "binding", b |-> B(key, v)]

Scalar(kind) == [kind |-> kind, b |-> B(a, v), elems |-> << >>]
Many(kind, elems) == [kind |-> kind, b |-> B(a, v), elems |-> elems]

Splices == {<< >>, <<New(c)>>, <<New(c), New(a)>>,
            <<New(a), E("node")>>, <<E("other"), New(a)>>}

Vals ==
  {Scalar(k) : k \in {"null", "binding", "node", "cobj", "sym", "atom"}}
  \cup {Many(k, es) : k \in {"list", "vector"}, es \in Splices}

At(kind, i) == [kind |-> kind, n |-> i, s |-> a]
Key(kind, s) == [kind |-> kind, n |-> 0, s |-> s]

Indices == {At("int", i) : i \in {-16, -3, -1, 0, 2}} \cup {At("kwnum", 1), At("-kwnum", 2)}

OtherSteps == {Key("sym", c)} \cup {Key(k, a) : k \in {"star", "kw", "str", "nil"}}

MCRequests ==
  [on : {"args"}, step : Indices \cup OtherSteps, val : Vals]
  \cup [on : {"target"}, step : {Key(k, a) : k \in {"@@", "rule", "kw"}},
        val : {Scalar(k) : k \in {"sym", "null"}}]
=============================================================================
