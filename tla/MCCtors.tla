------------------------------- MODULE MCCtors -------------------------------
(***************************************************************************)
(* Instances of Ctors for TLC.                                             *)
(***************************************************************************)
EXTENDS Ctors

CONSTANTS a, b, long, prefix, junk, name     \* texts

MCTexts == {a, b, long, prefix, junk, name}
MCCut == [t \in MCTexts |-> IF t = long THEN prefix ELSE t]

\* A C int of four bits.
MCIntMin == -8

At(kind, t) == [kind |-> kind, v |-> t]
I(k) == At("int", k)

Atoms == {I(-8), I(9), At("str", a), At("sym", long), At("bool", b), At("binding", a),
          At("node", b), At("other", a)}

Many(kind, elems) == [kind |-> kind, atom |-> At("other", a), elems |-> elems]
One(atom) == [kind |-> "atom", atom |-> atom, elems |-> << >>]

UpTo(S, k) == UNION {[1 .. m -> S] : m \in 0 .. k}

\* Lists of every length up to three: fewer than two, two and more than two
\* is what the counting tells apart.
Strings == UpTo({At("str", a), At("str", b)}, 3) \cup {<<At("str", a), At("other", a)>>}
Bindings == UpTo({At("binding", a), At("binding", b)}, 3)
            \cup {<<At("binding", a), At("node", b)>>, <<At("other", a), At("binding", a)>>}

LoadCalls ==
  [ctor : {"load"}, key : {At("str", a)},
   a : {Many("list", es) : es \in Strings}, b : {Many("list", es) : es \in Bindings}]
  \cup [ctor : {"load"}, key : {At("sym", a), At("str", a)}, a : {Many("list", << >>), One(At("str", a))},
        b : {One(At("bool", b))}]

TargetCalls ==
  [ctor : {"target"}, key : {At("sym", a), At("str", a)}, a : {One(At("str", a)), One(I(9))},
   b : {Many("list", es) : es \in UpTo({At("binding", a), At("binding", b), At("node", a), I(9)}, 3)}
       \cup {Many("vector", <<At("binding", a)>>)} \cup {One(x) : x \in Atoms}]

ValueCalls ==
  [ctor : {"binding"}, key : {At("sym", a), At("str", a)},
   a : {One(x) : x \in Atoms} \cup [kind : {"list", "vector"}, atom : {I(9)}, elems : UpTo(Atoms, 3)],
   b : {One(I(9))}]
  \cup [ctor : {"convert"}, key : {At("sym", a)},
        a : [kind : {"list", "vector"}, atom : {I(9)}, elems : UpTo(Atoms, 2)], b : {One(I(9))}]

StringCalls ==
  [ctor : {"string"}, key : {At("str", a), At("sym", a)},
   t : {"plain", "r", "b", "br", "rb", "other"}, q : {"dquote", "squote", "other"}, qqq : {"#t", "#f", "other"}]

MCRequests == LoadCalls \cup TargetCalls \cup ValueCalls \cup StringCalls
=============================================================================
