------------------------------- MODULE MCLoad -------------------------------
(***************************************************************************)
(* Instances of LoadStmts for TLC.                                         *)
(***************************************************************************)
EXTENDS LoadRefinement

CONSTANTS a, b, c     \* texts

B(key, val) == [key |-> key, v |-> val]
L(key, args, attrs) == [key |-> key, args |-> args, attrs |-> attrs]

New == L(c, <<c>>, <<B(c, c)>>)

\* Two statements, and two that have the same key.
MCTexts == {a, b, c}
TwoPackages ==
  {<<L(a, <<a, b>>, <<B(a, a), B(b, a)>>), L(b, << >>, <<B(b, b)>>)>>,
   <<L(a, <<b>>, << >>), L(a, <<a>>, <<B(a, a)>>)>>}

MCIntMin == -16

E(kind) == [kind |-> kind, s |-> c, b |-> B(c, c), st |-> New]

\* A second value that tells the order of two spliced entries.
F(kind) == [kind |-> kind, s |-> a, b |-> B(a, c), st |-> L(c, << >>, << >>)]

Scalar(kind) == [kind |-> kind, s |-> c, b |-> B(c, c), st |-> New, elems |-> << >>]
Many(kind, elems) == [kind |-> kind, s |-> c, b |-> B(c, c), st |-> New, elems |-> elems]

Splices == {<< >>, <<E("str"), F("str")>>, <<E("binding"), F("binding")>>,
            <<E("load"), F("load")>>, <<E("load"), E("other")>>,
            <<E("str"), E("node")>>, <<E("binding"), E("str")>>}

Vals ==
  {Scalar(k) : k \in {"null", "str", "binding", "load", "node", "other"}}
  \cup {Many(k, es) : k \in {"list", "vector"}, es \in Splices}

At(kind, i) == [kind |-> kind, n |-> i, s |-> a]
Name(kind, s) == [kind |-> kind, n |-> 0, s |-> s]
Kw(s) == Name("kw", s)

Selectors ==
  {At("int", 0), At("int", -1), At("int", 2), At("int", -16), At("int", 32),
   At("-kwnum", 2),
   Name("str", b), Name("sym", b), Name("star", "other"), Name("other", a)}
  \cup {Kw(w) : w \in {"key", "value", "args", "loadstmts"}}

StmtSteps == {At("int", 0), At("-kwnum", 1), At("int", 3), Name("str", a), Name("other", a)}

Paths ==
  {<< >>} \cup {<<p>> : p \in StmtSteps}
  \cup {<<p, Kw(w)>> : p \in StmtSteps, w \in {"arg", "args", "@", "binding", "other"}}
  \cup {<<At("int", 0), Kw("attr")>>}
  \cup {<<At("int", 0), Kw("@"), x>> : x \in {At("-kwnum", 1), Name("sym", b), Name("str", a)}}

MCRequests == [path : Paths, sel : Selectors, val : Vals]
=============================================================================
