----------------------------- MODULE CtorProofs -----------------------------
(***************************************************************************)
(* Theorems about Ctors, for every set of texts, every set of calls and    *)
(* every width of int.                                                     *)
(***************************************************************************)
EXTENDS Ctors, SequenceLemmas

Cell == Item \cup {Comma}

\* A loop runs only for the constructors it belongs to, and over a list.
LoopOwner ==
  /\ pc \in {"args", "attrs"} => req.ctor = "load"
  /\ pc = "target" => req.ctor = "target"
  /\ pc = "list" => \/ req.ctor = "convert"
                    \/ req.ctor = "binding" /\ req.a.kind # "atom"

\* When the arguments of a load statement are all pushed, no comma is left
\* open behind them: the comma before the attributes rests on this.
ArgsClosed ==
  pc = "args" => /\ i <= Len(A)
                 /\ i = Len(A) /\ i > 0 => out # << >> /\ out[Len(out)] # Comma

\* The inductive invariant.
IInv == TypeOK /\ CommaBehindItem /\ LoopOwner /\ ArgsClosed

-----------------------------------------------------------------------------
LEMMA AnyRequestType == AnyRequest \in Requests
  BY RequestsAssumption DEF AnyRequest

\* A number cut to an int is an int.
LEMMA CIntRange == ASSUME NEW k \in Int PROVE CInt(k) \in IntMin .. -IntMin - 1
<1> DEFINE w == -2 * IntMin
<1>1. IntMin \in Int /\ w \in Int /\ w > 0
  BY IntMinAssumption
<1>2. (k - IntMin) \in Int
  BY <1>1
<1>3. (k - IntMin) % w \in 0 .. w - 1
  BY <1>1, <1>2
<1> QED
  BY <1>1, <1>3 DEF CInt

LEMMA NodeType ==
  ASSUME NEW tid \in {"INT", "STRING", "ID", "Binding", "node", "0"},
         NEW v \in Texts \cup (IntMin .. -IntMin - 1)
  PROVE  Node(tid, v) \in Item
  BY DEF Node, Item, QTypes

\* The parts of a call that builds a node out of other parts.
LEMMA BuildType ==
  ASSUME TypeOK, req.ctor # "string"
  PROVE  /\ req \in Build
         /\ req.key \in Atom /\ req.a \in Arg /\ req.b \in Arg
         /\ A \in Seq(Atom) /\ B \in Seq(Atom)
         /\ Len(A) \in Nat /\ Len(B) \in Nat
         /\ \A k \in 1 .. Len(A) : A[k] \in Atom
         /\ \A k \in 1 .. Len(B) : B[k] \in Atom
<1>1. req \in Build
  BY RequestsAssumption DEF TypeOK, StringCall
<1>2. req.key \in Atom /\ req.a \in Arg /\ req.b \in Arg
  BY <1>1 DEF Build
<1>3. A \in Seq(Atom) /\ B \in Seq(Atom)
  BY <1>2 DEF Arg, A, B
<1> QED
  BY <1>1, <1>2, <1>3

\* An atom that is no number carries a text.
LEMMA AtomText == ASSUME NEW e \in Atom, e.kind # "int" PROVE e.v \in Texts
  BY DEF Atom

LEMMA AtomInt == ASSUME NEW e \in Atom, e.kind = "int" PROVE e.v \in Int
  BY DEF Atom

\* A value is at most one item.
LEMMA ValueOfType ==
  ASSUME NEW e \in Atom
  PROVE  \/ ValueOf(e) = << >>
         \/ \E x \in Item : ValueOf(e) = <<x>>
<1>1. CASE e.kind = "int"
  <2>1. CInt(e.v) \in IntMin .. -IntMin - 1
    BY <1>1, AtomInt, CIntRange
  <2>2. Node("INT", CInt(e.v)) \in Item
    BY <2>1, NodeType
  <2> QED
    BY <1>1, <2>2 DEF ValueOf
<1>2. CASE e.kind # "int"
  <2>1. e.v \in Texts
    BY <1>2, AtomText
  <2>2. \A tid \in {"STRING", "ID", "Binding", "node"} : Node(tid, e.v) \in Item
    BY <2>1, NodeType
  <2>3. e.kind \in {"str", "sym", "bool", "binding", "node", "other"}
    BY <1>2 DEF Atom
  <2> QED
    BY <1>2, <2>2, <2>3 DEF ValueOf
<1> QED
  BY <1>1, <1>2

LEMMA ItemOfType ==
  ASSUME NEW e \in Atom, e.kind \in {"int", "str", "sym", "bool"}
  PROVE  ItemOf(e) \in Item
<1>1. CASE e.kind = "sym"
  <2>1. Cut[e.v] \in Texts
    BY <1>1, AtomText, TextsAssumption
  <2>2. Node("ID", Cut[e.v]) \in Item
    BY <2>1, NodeType
  <2> QED
    BY <1>1, <2>2 DEF ItemOf
<1>2. CASE e.kind # "sym"
  <2>1. ValueOf(e) # << >>
    BY <1>2 DEF ValueOf
  <2>2. PICK x \in Item : ValueOf(e) = <<x>>
    BY <2>1, ValueOfType
  <2> QED
    BY <1>2, <2>2 DEF ItemOf
<1> QED
  BY <1>1, <1>2

-----------------------------------------------------------------------------
(***************************************************************************)
(* Arrays: no comma first, none after another.                             *)
(***************************************************************************)
Behind(s) == \A k \in 1 .. Len(s) : s[k] = Comma => k > 1 /\ s[k - 1] # Comma

\* A comma may follow an item.
LEMMA CommaBehind ==
  ASSUME NEW s \in Seq(Cell), Behind(s), s # << >>, s[Len(s)] # Comma
  PROVE  s \o <<Comma>> \in Seq(Cell) /\ Behind(s \o <<Comma>>)
<1> DEFINE r == s \o <<Comma>>
<1>1. Comma \in Cell
  BY DEF Cell
<1>2. r \in Seq(Cell) /\ Len(r) = Len(s) + 1 /\ r[Len(r)] = Comma
      /\ \A k \in 1 .. Len(s) : r[k] = s[k]
  BY <1>1
<1>3. Behind(r)
  BY <1>2 DEF Behind
<1> QED
  BY <1>2, <1>3

\* An item, and a comma or not, may follow whatever is there.
LEMMA AppendBehind ==
  ASSUME NEW s \in Seq(Cell), Behind(s), NEW x \in Item, NEW c \in BOOLEAN
  PROVE  LET r == Append(s, x) \o (IF c THEN <<Comma>> ELSE << >>)
         IN  /\ r \in Seq(Cell) /\ Behind(r)
             /\ ~c => r # << >> /\ r[Len(r)] # Comma
<1>1. x \in Cell /\ Comma \in Cell /\ x # Comma
  BY CommaAssumption DEF Cell
<1> DEFINE t == Append(s, x)
<1>2. t \in Seq(Cell) /\ Len(t) = Len(s) + 1 /\ t[Len(t)] = x
      /\ \A k \in 1 .. Len(s) : t[k] = s[k]
  BY <1>1
<1>3. Behind(t)
  BY <1>1, <1>2 DEF Behind
<1> HIDE DEF t
<1>4. CASE c
  <2>1. t \o <<Comma>> \in Seq(Cell) /\ Behind(t \o <<Comma>>)
    BY <1>1, <1>2, <1>3, CommaBehind
  <2> QED
    BY <1>4, <2>1 DEF t
<1>5. CASE ~c
  <2>1. t \o << >> = t
    BY <1>2
  <2> QED
    BY <1>1, <1>2, <1>3, <1>5, <2>1 DEF t
<1> QED
  BY <1>4, <1>5

LEMMA OneBehind ==
  ASSUME NEW x \in Item
  PROVE  /\ <<x>> \in Seq(Cell) /\ Behind(<<x>>)
         /\ <<x, Comma>> \in Seq(Cell) /\ Behind(<<x, Comma>>)
<1>1. x \in Cell /\ Comma \in Cell /\ x # Comma
  BY CommaAssumption DEF Cell
<1> QED
  BY <1>1 DEF Behind

-----------------------------------------------------------------------------
(***************************************************************************)
(* The ways a step can leave the call.                                     *)
(***************************************************************************)
LEMMA StopKeeps ==
  ASSUME IInv, NEW how \in {"made", "refused", "crashed"}, Stop(how)
  PROVE  IInv'
  BY DEF Stop, IInv, TypeOK, CommaBehindItem, LoopOwner, ArgsClosed

LEMMA RefuseKeeps == ASSUME IInv, Refuse PROVE IInv'
  BY StopKeeps DEF Refuse

\* A loop, or the end, is entered with an array that is in order.
LEMMA GoToKeeps ==
  ASSUME IInv, NEW place \in {"args", "attrs", "target", "list", "made"},
         NEW s \in Seq(Cell), Behind(s), GoTo(place, s),
         place \in {"args", "attrs"} => req.ctor = "load",
         place = "args" => Len(A) \in Nat,
         place = "target" => req.ctor = "target",
         place = "list" => \/ req.ctor = "convert"
                           \/ req.ctor = "binding" /\ req.a.kind # "atom"
  PROVE  IInv'
<1>1. pc' = place /\ out' = s /\ i' = 0 /\ req' = req
  BY DEF GoTo
<1>2. TypeOK'
  BY <1>1 DEF IInv, TypeOK, Cell
<1>3. CommaBehindItem'
  BY <1>1 DEF Behind, CommaBehindItem
<1>4. LoopOwner'
  BY <1>1 DEF LoopOwner
<1>5. ArgsClosed'
  BY <1>1 DEF ArgsClosed, A
<1> QED
  BY <1>2, <1>3, <1>4, <1>5 DEF IInv

\* A turn of a loop; in that over the arguments of a load statement, the
\* last item is pushed without a comma.
LEMMA PushKeeps ==
  ASSUME IInv, NEW x \in Item, NEW c \in BOOLEAN, Push(x, c),
         pc = "args" => i < Len(A) /\ Len(A) \in Nat /\ (c <=> i < Len(A) - 1)
  PROVE  IInv'
<1>1. out \in Seq(Cell) /\ Behind(out) /\ i \in Nat
  BY DEF IInv, TypeOK, CommaBehindItem, Behind, Cell
<1>2. out' \in Seq(Cell) /\ Behind(out') /\ (~c => out' # << >> /\ out'[Len(out')] # Comma)
  BY <1>1, AppendBehind DEF Push
<1>3. i' = i + 1 /\ pc' = pc /\ req' = req
  BY DEF Push
<1>4. TypeOK'
  BY <1>1, <1>2, <1>3 DEF IInv, TypeOK, Cell
<1>5. CommaBehindItem'
  BY <1>2 DEF CommaBehindItem, Behind
<1>6. LoopOwner'
  BY <1>3 DEF IInv, LoopOwner
<1>7. ArgsClosed'
  <2> SUFFICES ASSUME pc' = "args"
               PROVE  i' <= Len(A') /\ (i' = Len(A') => out' # << >> /\ out'[Len(out')] # Comma)
    BY DEF ArgsClosed
  <2>1. pc = "args" /\ A' = A
    BY <1>3 DEF A
  <2> QED
    BY <1>1, <1>2, <1>3, <2>1
<1> QED
  BY <1>4, <1>5, <1>6, <1>7 DEF IInv

\* A turn that passes an element over, in a loop other than that over the
\* arguments of a load statement.
LEMMA SkipKeeps ==
  ASSUME IInv, pc # "args", i' = i + 1, UNCHANGED <<pc, req, out>>
  PROVE  IInv'
  BY DEF IInv, TypeOK, CommaBehindItem, LoopOwner, ArgsClosed

-----------------------------------------------------------------------------
LEMMA LoadKeeps ==
  ASSUME IInv,
         RefuseLoad \/ BeginLoad \/ PushArg \/ PushNoString \/ BeginLoadAttrs
           \/ PushAttr \/ RefuseAttr \/ EndLoad
  PROVE  IInv'
<1>1. Start("load") \/ pc \in {"args", "attrs"}
  BY DEF RefuseLoad, BeginLoad, PushArg, PushNoString, BeginLoadAttrs, PushAttr,
         RefuseAttr, EndLoad
<1>2. req.ctor = "load"
  BY <1>1 DEF Start, IInv, LoopOwner
<1>3. /\ req.key \in Atom /\ Len(A) \in Nat /\ Len(B) \in Nat
      /\ \A k \in 1 .. Len(A) : A[k] \in Atom
      /\ \A k \in 1 .. Len(B) : B[k] \in Atom
  BY <1>2, BuildType DEF IInv
<1>4. i \in Nat
  BY DEF IInv, TypeOK
<1>5. CASE RefuseLoad
  BY <1>5, RefuseKeeps DEF RefuseLoad
<1>6. CASE BeginLoad
  <2>1. Node("STRING", req.key.v) \in Item
    BY <1>3, <1>6, AtomText, NodeType DEF BeginLoad, LoadArgsOK
  <2> QED
    BY <1>2, <1>3, <1>6, <2>1, OneBehind, GoToKeeps DEF BeginLoad
<1>7. CASE PushArg
  <2>1. Node("STRING", A[i + 1].v) \in Item
    BY <1>3, <1>4, <1>7, AtomText, NodeType DEF PushArg
  <2>2. (i < Len(A) - 1) \in BOOLEAN
    OBVIOUS
  <2> QED
    BY <1>3, <1>7, <2>1, <2>2, PushKeeps DEF PushArg
<1>8. CASE PushNoString
  <2>1. Node("STRING", Junk) \in Item
    BY TextsAssumption, NodeType
  <2>2. (i < Len(A) - 1) \in BOOLEAN
    OBVIOUS
  <2> QED
    BY <1>3, <1>8, <2>1, <2>2, PushKeeps, StopKeeps DEF PushNoString
<1>9. CASE BeginLoadAttrs
  <2> DEFINE c == Len(A) - 1 > 0 /\ Len(B) - 1 > 0
  <2>1. out \in Seq(Cell) /\ Behind(out)
    BY DEF IInv, TypeOK, CommaBehindItem, Behind, Cell
  <2>2. CASE c
    <3>1. out # << >> /\ out[Len(out)] # Comma
      BY <1>3, <1>9, <2>2 DEF BeginLoadAttrs, IInv, ArgsClosed
    <3>2. out \o <<Comma>> \in Seq(Cell) /\ Behind(out \o <<Comma>>)
      BY <2>1, <3>1, CommaBehind
    <3>3. GoTo("attrs", out \o <<Comma>>)
      BY <1>9, <2>2 DEF BeginLoadAttrs
    <3> QED
      BY <1>2, <3>2, <3>3, GoToKeeps
  <2>3. CASE ~c
    <3>1. out \o << >> = out
      BY <2>1
    <3>2. GoTo("attrs", out)
      BY <1>9, <2>3, <3>1 DEF BeginLoadAttrs
    <3> QED
      BY <1>2, <2>1, <3>2, GoToKeeps
  <2> QED
    BY <2>2, <2>3
<1>10. CASE PushAttr
  <2>1. pc = "attrs" /\ B[i + 1] \in Atom
    BY <1>3, <1>4, <1>10 DEF PushAttr
  <2>2. CASE B[i + 1].kind \in {"binding", "node"}
    <3>1. \A tid \in {"Binding", "node"} : Node(tid, B[i + 1].v) \in Item
      BY <2>1, <2>2, AtomText, NodeType
    <3>2. (i < Len(A) - 1) \in BOOLEAN
      OBVIOUS
    <3> QED
      BY <1>10, <2>1, <3>1, <3>2, PushKeeps, StopKeeps DEF PushAttr
  <2> QED
    BY <1>10, <2>2 DEF PushAttr
<1>11. CASE RefuseAttr
  BY <1>11, RefuseKeeps, StopKeeps DEF RefuseAttr
<1>12. CASE EndLoad
  BY <1>12, StopKeeps DEF EndLoad
<1> QED
  BY <1>5, <1>6, <1>7, <1>8, <1>9, <1>10, <1>11, <1>12

LEMMA TargetKeeps ==
  ASSUME IInv,
         RefuseTarget \/ BeginTarget \/ SingleAttr \/ PushBinding \/ SkipElement \/ EndTarget
  PROVE  IInv'
<1>1. Start("target") \/ pc = "target"
  BY DEF RefuseTarget, BeginTarget, SingleAttr, PushBinding, SkipElement, EndTarget,
         TargetLoop
<1>2. req.ctor = "target"
  BY <1>1 DEF Start, IInv, LoopOwner
<1>3. /\ req.b \in Arg /\ Len(B) \in Nat
      /\ \A k \in 1 .. Len(B) : B[k] \in Atom
  BY <1>2, BuildType DEF IInv
<1>4. i \in Nat /\ out \in Seq(Cell) /\ Behind(out)
  BY DEF IInv, TypeOK, CommaBehindItem, Behind, Cell
<1>5. CASE RefuseTarget
  BY <1>5, RefuseKeeps DEF RefuseTarget
<1>6. CASE BeginTarget
  <2>1. NameBinding \in Item
    BY TextsAssumption, NodeType DEF NameBinding
  <2>2. <<NameBinding>> \in Seq(Cell) /\ Behind(<<NameBinding>>)
        /\ <<NameBinding>>[Len(<<NameBinding>>)] # Comma
    BY <2>1, OneBehind, CommaAssumption
  <2>3. CASE RestLen > 0
    <3>1. GoTo("target", <<NameBinding>> \o <<Comma>>)
      BY <1>6, <2>3 DEF BeginTarget
    <3> QED
      BY <1>2, <2>2, <3>1, CommaBehind, GoToKeeps
  <2>4. CASE ~(RestLen > 0)
    <3>1. <<NameBinding>> \o << >> = <<NameBinding>>
      BY <2>2
    <3>2. GoTo("target", <<NameBinding>>)
      BY <1>6, <2>4, <3>1 DEF BeginTarget
    <3> QED
      BY <1>2, <2>2, <3>2, GoToKeeps
  <2> QED
    BY <2>3, <2>4
<1>7. CASE SingleAttr
  <2>1. CASE req.b.kind = "atom" /\ req.b.atom.kind = "binding"
    <3>1. req.b.atom \in Atom
      BY <1>3 DEF Arg
    <3>2. Node("Binding", req.b.atom.v) \in Item
      BY <2>1, <3>1, AtomText, NodeType
    <3> DEFINE s == Append(out, Node("Binding", req.b.atom.v))
    <3>3. s \o << >> = s
      BY <1>4, <3>2 DEF Cell
    <3>4. s \in Seq(Cell) /\ Behind(s)
      BY <1>4, <3>2, <3>3, AppendBehind
    <3> HIDE DEF s
    <3>5. GoTo("made", s)
      BY <1>7, <2>1 DEF SingleAttr, s
    <3> QED
      BY <3>4, <3>5, GoToKeeps
  <2>2. CASE ~(req.b.kind = "atom" /\ req.b.atom.kind = "binding")
    BY <1>7, <2>2, StopKeeps DEF SingleAttr
  <2> QED
    BY <2>1, <2>2
<1>8. CASE PushBinding
  <2>1. B[i + 1] \in Atom
    BY <1>3, <1>4, <1>8 DEF PushBinding
  <2>2. Node("Binding", B[i + 1].v) \in Item
    BY <1>8, <2>1, AtomText, NodeType DEF PushBinding
  <2>3. (RestLen > i) \in BOOLEAN
    OBVIOUS
  <2> QED
    BY <1>8, <2>2, <2>3, PushKeeps DEF PushBinding, TargetLoop
<1>9. CASE SkipElement
  BY <1>9, SkipKeeps DEF SkipElement, TargetLoop
<1>10. CASE EndTarget
  BY <1>10, StopKeeps DEF EndTarget
<1> QED
  BY <1>5, <1>6, <1>7, <1>8, <1>9, <1>10

\* The loop shared by make-binding and the conversion.
LEMMA ListKeeps ==
  ASSUME IInv,
         RefuseBinding \/ MakeBinding \/ Convert \/ PushItem \/ SkipItem
           \/ PushBlank \/ EndList
  PROVE  IInv'
<1>1. Start("binding") \/ Start("convert") \/ pc = "list"
  BY DEF RefuseBinding, MakeBinding, Convert, PushItem, SkipItem, PushBlank, EndList,
         ListLoop
<1>2. req.ctor \in {"binding", "convert"}
  BY <1>1 DEF Start, IInv, LoopOwner
<1>3. /\ req \in Build /\ req.a \in Arg /\ Len(A) \in Nat
      /\ \A k \in 1 .. Len(A) : A[k] \in Atom
  BY <1>2, BuildType DEF IInv
<1>4. i \in Nat /\ << >> \in Seq(Cell) /\ Behind(<< >>)
  BY DEF IInv, TypeOK, Behind
<1>5. CASE RefuseBinding
  BY <1>5, RefuseKeeps DEF RefuseBinding
<1>6. CASE MakeBinding
  <2>1. CASE req.a.kind = "atom"
    <3>1. req.a.atom \in Atom
      BY <1>3 DEF Arg
    <3>2. ValueOf(req.a.atom) \in Seq(Cell) /\ Behind(ValueOf(req.a.atom))
      BY <1>4, <3>1, ValueOfType, OneBehind
    <3> QED
      BY <1>6, <2>1, <3>2, GoToKeeps DEF MakeBinding
  <2>2. CASE req.a.kind # "atom"
    <3>1. req.ctor = "binding"
      BY <1>6 DEF MakeBinding, Start
    <3> QED
      BY <1>4, <1>6, <2>2, <3>1, GoToKeeps DEF MakeBinding
  <2> QED
    BY <2>1, <2>2
<1>7. CASE Convert
  BY <1>4, <1>7, GoToKeeps DEF Convert, Start
<1>8. CASE PushItem
  <2>1. pc = "list" /\ A[i + 1] \in Atom
    BY <1>3, <1>4, <1>8 DEF PushItem, ListLoop
  <2>2. req.ctor = "convert" \/ (req.ctor = "binding" /\ req.a.kind \in {"list", "vector"})
    BY <1>3, <2>1 DEF IInv, LoopOwner, Arg
  <2>3. A[i + 1].kind \in {"int", "str", "sym", "bool"}
    BY <1>8, <2>2 DEF PushItem, Accepted
  <2>4. ItemOf(A[i + 1]) \in Item
    BY <2>1, <2>3, ItemOfType
  <2>5. (Len(A) - i > 1) \in BOOLEAN
    OBVIOUS
  <2> QED
    BY <1>8, <2>1, <2>4, <2>5, PushKeeps DEF PushItem
<1>9. CASE SkipItem
  BY <1>9, SkipKeeps DEF SkipItem, ListLoop
<1>10. CASE PushBlank
  <2>1. Node("0", Junk) \in Item
    BY TextsAssumption, NodeType
  <2>2. (Len(A) - i > 1) \in BOOLEAN
    OBVIOUS
  <2> QED
    BY <1>10, <2>1, <2>2, PushKeeps DEF PushBlank, ListLoop
<1>11. CASE EndList
  BY <1>11, StopKeeps DEF EndList
<1> QED
  BY <1>5, <1>6, <1>7, <1>8, <1>9, <1>10, <1>11

LEMMA StringKeeps ==
  ASSUME IInv, RefuseString \/ MakeString
  PROVE  IInv'
<1>1. CASE RefuseString
  BY <1>1, RefuseKeeps DEF RefuseString
<1>2. CASE MakeString
  <2>1. req.ctor = "string" /\ req.key.kind = "str"
    BY <1>2 DEF MakeString, Start, StringArgsOK
  <2>2. req \in StringCall
    BY <2>1, RequestsAssumption DEF IInv, TypeOK, Build
  <2>3. req.key.v \in Texts /\ Junk \in Texts
    BY <2>1, <2>2, AtomText, TextsAssumption DEF StringCall
  <2>4. PICK text \in {req.key.v, Junk} :
          GoTo("made", <<[tid |-> "STRING", v |-> text, q |-> QType]>>)
    BY <1>2 DEF MakeString
  <2>5. QType \in QTypes
    BY DEF QType, QTypes
  <2>6. [tid |-> "STRING", v |-> text, q |-> QType] \in Item
    BY <2>3, <2>4, <2>5 DEF Item
  <2> QED
    BY <2>4, <2>6, OneBehind, GoToKeeps
<1> QED
  BY <1>1, <1>2

-----------------------------------------------------------------------------
\* Before the first call there is nothing to keep in order.
THEOREM InitIInv == Init => IInv
  BY AnyRequestType DEF Init, IInv, TypeOK, CommaBehindItem, LoopOwner, ArgsClosed

\* Every turn of every constructor keeps the invariant.
THEOREM NextIInv == IInv /\ [Next]_vars => IInv'
<1> SUFFICES ASSUME IInv, [Next]_vars PROVE IInv'
  OBVIOUS
<1>1. CASE \E r \in Requests : Receive(r)
  BY <1>1 DEF Receive, IInv, TypeOK, CommaBehindItem, LoopOwner, ArgsClosed
<1>2. CASE RefuseLoad \/ BeginLoad \/ PushArg \/ PushNoString \/ BeginLoadAttrs
             \/ PushAttr \/ RefuseAttr \/ EndLoad
  BY <1>2, LoadKeeps
<1>3. CASE RefuseTarget \/ BeginTarget \/ SingleAttr \/ PushBinding \/ SkipElement
             \/ EndTarget
  BY <1>3, TargetKeeps
<1>4. CASE RefuseBinding \/ MakeBinding \/ Convert \/ PushItem \/ SkipItem
             \/ PushBlank \/ EndList
  BY <1>4, ListKeeps
<1>5. CASE RefuseString \/ MakeString
  BY <1>5, StringKeeps
<1>6. CASE Return
  BY <1>6, AnyRequestType DEF Return, IInv, TypeOK, CommaBehindItem, LoopOwner, ArgsClosed
<1>7. CASE UNCHANGED vars
  BY <1>7 DEF vars, IInv, TypeOK, CommaBehindItem, LoopOwner, ArgsClosed, A
<1> QED
  BY <1>1, <1>2, <1>3, <1>4, <1>5, <1>6, <1>7 DEF Next, Turn

\* The invariant holds of everything the constructors build.
THEOREM Invariant == Spec => []IInv
<1> QED
  BY InitIInv, NextIInv, PTL DEF Spec

\* The variables of every constructor keep their types: what is pushed is a
\* node or a comma, whatever the elements it is made from.
THEOREM TypeCorrect == Spec => []TypeOK
<1>1. IInv => TypeOK
  BY DEF IInv
<1> QED
  BY <1>1, Invariant, PTL

\* However the constructors count, no array they build starts with a comma
\* or has two in a row.
THEOREM CommasFollowItems == Spec => []CommaBehindItem
<1>1. IInv => CommaBehindItem
  BY DEF IInv
<1> QED
  BY <1>1, Invariant, PTL

-----------------------------------------------------------------------------
(***************************************************************************)
(* Nothing lost, doubled or out of order.                                  *)
(***************************************************************************)

\* What the items due are made of, whatever the elements they stand for.
Made == Item \cup {TextItem(e) : e \in Atom} \cup {AttrItem(e) : e \in Atom}
             \cup {ValueItem(e) : e \in Atom}
             \cup {Node("STRING", req.key.v), NameBinding}

\* An item pushed is an item more; a comma is none.
LEMMA WithoutCommasGrows ==
  ASSUME NEW s \in Seq(Cell)
  PROVE  /\ WithoutCommas(s) \in Seq(Cell)
         /\ \A x \in Item : WithoutCommas(Append(s, x)) = Append(WithoutCommas(s), x)
         /\ WithoutCommas(Append(s, Comma)) = WithoutCommas(s)
<1> DEFINE S == {k \in 1 .. Len(s) : s[k] # Comma}
<1>1. S \in SUBSET (1 .. Len(s)) /\ WithoutCommas(s) = Selected(s, S)
  BY DEF WithoutCommas
<1>2. Comma \in Cell /\ \A x \in Item : x \in Cell /\ x # Comma
  BY CommaAssumption DEF Cell
<1>3. ASSUME NEW x \in Cell
      PROVE  /\ x # Comma => WithoutCommas(Append(s, x)) = Selected(Append(s, x), S \cup {Len(s) + 1})
             /\ x = Comma => WithoutCommas(Append(s, x)) = Selected(Append(s, x), S)
  <2> DEFINE t == Append(s, x)
             T == {k \in 1 .. Len(t) : t[k] # Comma}
  <2>1. Len(t) = Len(s) + 1 /\ t[Len(s) + 1] = x /\ \A k \in 1 .. Len(s) : t[k] = s[k]
    OBVIOUS
  <2> HIDE DEF t
  <2>2. 1 .. Len(s) + 1 = (1 .. Len(s)) \cup {Len(s) + 1} /\ Len(s) + 1 \notin 1 .. Len(s)
    OBVIOUS
  <2>3. (x # Comma => T = S \cup {Len(s) + 1}) /\ (x = Comma => T = S)
    BY <2>1, <2>2
  <2> QED
    BY <2>3 DEF WithoutCommas, t
<1> HIDE DEF S
<1>4. Selected(s, S) \in Seq(Cell)
  BY <1>1, SelectedType
<1>5. \A x \in Cell : /\ Selected(Append(s, x), S) = Selected(s, S)
                      /\ Selected(Append(s, x), S \cup {Len(s) + 1}) = Append(Selected(s, S), x)
  BY <1>1, SelectedAppend
<1> QED
  BY <1>1, <1>2, <1>3, <1>4, <1>5

LEMMA WithoutCommasOfFew ==
  /\ WithoutCommas(<< >>) = << >>
  /\ \A x \in Item : WithoutCommas(<<x>>) = <<x>> /\ WithoutCommas(<<x, Comma>>) = <<x>>
<1>1. WithoutCommas(<< >>) = << >>
  <2>1. {k \in 1 .. Len(<< >>) : << >>[k] # Comma} = {}
    OBVIOUS
  <2> QED
    BY <2>1, SelectedNone DEF WithoutCommas
<1>2. ASSUME NEW x \in Item PROVE WithoutCommas(<<x>>) = <<x>> /\ WithoutCommas(<<x, Comma>>) = <<x>>
  <2>1. x \in Cell /\ << >> \in Seq(Cell) /\ <<x>> \in Seq(Cell)
        /\ Append(<< >>, x) = <<x>> /\ Append(<<x>>, Comma) = <<x, Comma>>
    <3>1. x \in Cell /\ Comma \in Cell
      BY DEF Cell
    <3> QED
      BY <3>1, OneAndTwo
  <2>2. WithoutCommas(<<x>>) = <<x>>
    BY <1>1, <2>1, WithoutCommasGrows
  <2>3. WithoutCommas(<<x, Comma>>) = WithoutCommas(<<x>>)
    BY <2>1, WithoutCommasGrows
  <2> QED
    BY <2>2, <2>3
<1> QED
  BY <1>1, <1>2, Zenon

\* An element more, of a kind that is kept or not.
LEMMA KeptGrows ==
  ASSUME NEW s \in Seq(Atom), NEW e \in Atom, NEW K
  PROVE  /\ Kept(s, K) \in Seq(Atom)
         /\ e.kind \in K => Kept(Append(s, e), K) = Append(Kept(s, K), e)
         /\ e.kind \notin K => Kept(Append(s, e), K) = Kept(s, K)
<1> DEFINE S == {k \in 1 .. Len(s) : s[k].kind \in K}
           t == Append(s, e)
           T == {k \in 1 .. Len(t) : t[k].kind \in K}
<1>1. S \in SUBSET (1 .. Len(s)) /\ Kept(s, K) = Selected(s, S) /\ Kept(t, K) = Selected(t, T)
  BY DEF Kept
<1>2. Len(t) = Len(s) + 1 /\ t[Len(s) + 1] = e /\ \A k \in 1 .. Len(s) : t[k] = s[k]
  OBVIOUS
<1> HIDE DEF t
<1>3. 1 .. Len(s) + 1 = (1 .. Len(s)) \cup {Len(s) + 1} /\ Len(s) + 1 \notin 1 .. Len(s)
  OBVIOUS
<1>4. (e.kind \in K => T = S \cup {Len(s) + 1}) /\ (e.kind \notin K => T = S)
  BY <1>2, <1>3
<1> HIDE DEF S, T
<1>5. Selected(s, S) \in Seq(Atom)
  BY <1>1, SelectedType
<1>6. Selected(t, S) = Selected(s, S) /\ Selected(t, S \cup {Len(s) + 1}) = Append(Selected(s, S), e)
  BY <1>1, SelectedAppend DEF t
<1> QED
  BY <1>1, <1>4, <1>5, <1>6 DEF t

LEMMA KeptOfNone == ASSUME NEW K PROVE Kept(<< >>, K) = << >>
<1>1. {k \in 1 .. Len(<< >>) : << >>[k].kind \in K} = {}
  OBVIOUS
<1> QED
  BY <1>1, SelectedNone DEF Kept

\* The items that stand for a list with an element more.
LEMMA ItemsGrow ==
  ASSUME NEW s \in Seq(Atom), NEW e \in Atom
  PROVE  /\ TextItems(s) \in Seq(Made) /\ TextItem(e) \in Made
         /\ TextItems(Append(s, e)) = Append(TextItems(s), TextItem(e))
         /\ AttrItems(s) \in Seq(Made) /\ AttrItem(e) \in Made
         /\ AttrItems(Append(s, e)) = Append(AttrItems(s), AttrItem(e))
         /\ ValueItems(s) \in Seq(Made) /\ ValueItem(e) \in Made
         /\ ValueItems(Append(s, e)) = Append(ValueItems(s), ValueItem(e))
<1> DEFINE t == Append(s, e)
<1>1. /\ t \in Seq(Atom) /\ Len(t) = Len(s) + 1 /\ t[Len(s) + 1] = e
      /\ \A k \in 1 .. Len(s) : t[k] = s[k] /\ s[k] \in Atom /\ k \in 1 .. Len(s) + 1
      /\ Len(s) + 1 \in 1 .. Len(t)
  OBVIOUS
<1> HIDE DEF t
<1>2. TextItem(e) \in Made /\ AttrItem(e) \in Made /\ ValueItem(e) \in Made
  BY DEF Made
<1>3. TextItems(s) \in Seq(Made) /\ TextItems(t) = Append(TextItems(s), TextItem(e))
  <2>1. \A u \in Seq(Atom) : /\ TextItems(u) \in Seq(Made) /\ Len(TextItems(u)) = Len(u)
                             /\ \A k \in 1 .. Len(u) : TextItems(u)[k] = TextItem(u[k])
    BY DEF TextItems, Made
  <2>2. /\ TextItems(s) \in Seq(Made) /\ Len(TextItems(s)) = Len(s)
        /\ TextItems(t) \in Seq(Made) /\ Len(TextItems(t)) = Len(s) + 1
        /\ TextItems(t)[Len(s) + 1] = TextItem(e)
        /\ \A k \in 1 .. Len(s) : TextItems(t)[k] = TextItems(s)[k]
    BY <1>1, <2>1
  <2> QED
    BY <2>2, GrownByOne
<1>4. AttrItems(s) \in Seq(Made) /\ AttrItems(t) = Append(AttrItems(s), AttrItem(e))
  <2>1. \A u \in Seq(Atom) : /\ AttrItems(u) \in Seq(Made) /\ Len(AttrItems(u)) = Len(u)
                             /\ \A k \in 1 .. Len(u) : AttrItems(u)[k] = AttrItem(u[k])
    BY DEF AttrItems, Made
  <2>2. /\ AttrItems(s) \in Seq(Made) /\ Len(AttrItems(s)) = Len(s)
        /\ AttrItems(t) \in Seq(Made) /\ Len(AttrItems(t)) = Len(s) + 1
        /\ AttrItems(t)[Len(s) + 1] = AttrItem(e)
        /\ \A k \in 1 .. Len(s) : AttrItems(t)[k] = AttrItems(s)[k]
    BY <1>1, <2>1
  <2> QED
    BY <2>2, GrownByOne
<1>5. ValueItems(s) \in Seq(Made) /\ ValueItems(t) = Append(ValueItems(s), ValueItem(e))
  <2>1. \A u \in Seq(Atom) : /\ ValueItems(u) \in Seq(Made) /\ Len(ValueItems(u)) = Len(u)
                             /\ \A k \in 1 .. Len(u) : ValueItems(u)[k] = ValueItem(u[k])
    BY DEF ValueItems, Made
  <2>2. /\ ValueItems(s) \in Seq(Made) /\ Len(ValueItems(s)) = Len(s)
        /\ ValueItems(t) \in Seq(Made) /\ Len(ValueItems(t)) = Len(s) + 1
        /\ ValueItems(t)[Len(s) + 1] = ValueItem(e)
        /\ \A k \in 1 .. Len(s) : ValueItems(t)[k] = ValueItems(s)[k]
    BY <1>1, <2>1
  <2> QED
    BY <2>2, GrownByOne
<1> QED
  BY <1>2, <1>3, <1>4, <1>5 DEF t

LEMMA ItemsOfNone ==
  TextItems(<< >>) = << >> /\ AttrItems(<< >>) = << >> /\ ValueItems(<< >>) = << >>
  BY DEF TextItems, AttrItems, ValueItems

LEMMA ConcatAppend ==
  ASSUME NEW X, NEW s \in Seq(X), NEW t \in Seq(X), NEW x \in X
  PROVE  s \o Append(t, x) = Append(s \o t, x)
<1> DEFINE a == s \o Append(t, x)
           b == Append(s \o t, x)
<1>1. a \in Seq(X) /\ b \in Seq(X) /\ Len(a) = Len(b) /\ \A k \in 1 .. Len(a) : a[k] = b[k]
  OBVIOUS
<1> HIDE DEF a, b
<1>2. a = b
  BY <1>1, SeqEqual
<1> QED
  BY <1>2 DEF a, b

\* What is due in each loop.
LEMMA DueInLoop ==
  ASSUME LoopOwner
  PROVE  /\ pc = "args" => Due = <<Node("STRING", req.key.v)>> \o TextItems(SubSeq(A, 1, i))
         /\ pc = "attrs" => Due = <<Node("STRING", req.key.v)>> \o TextItems(A)
                                    \o AttrItems(SubSeq(B, 1, i))
         /\ pc = "target" /\ req.b.kind = "list" =>
              Due = <<NameBinding>> \o AttrItems(Kept(SubSeq(B, 1, i), {"binding"}))
         /\ pc = "target" /\ req.b.kind # "list" => Due = <<NameBinding>> \o << >>
         /\ pc = "list" /\ req.ctor = "binding" => Due = ValueItems(Kept(SubSeq(A, 1, i), Accepted))
         /\ pc = "list" /\ req.ctor = "convert" => Due = ValueItems(SubSeq(A, 1, i))
  BY DEF LoopOwner, Due

\* A turn of each loop: one item more is due, or none.
LEMMA DueGrows ==
  ASSUME IInv, i' = i + 1, UNCHANGED <<pc, req>>
  PROVE  /\ pc = "args" /\ i < Len(A) => Due' = Append(Due, TextItem(A[i + 1]))
         /\ pc = "attrs" /\ i < Len(B) => Due' = Append(Due, AttrItem(B[i + 1]))
         /\ TargetLoop /\ i < Len(B) =>
              Due' = IF B[i + 1].kind = "binding" THEN Append(Due, AttrItem(B[i + 1])) ELSE Due
         /\ ListLoop /\ req.ctor = "binding" =>
              Due' = IF A[i + 1].kind \in Accepted THEN Append(Due, ValueItem(A[i + 1])) ELSE Due
         /\ ListLoop /\ req.ctor = "convert" => Due' = Append(Due, ValueItem(A[i + 1]))
<1>1. LoopOwner /\ LoopOwner' /\ i \in Nat
  BY DEF IInv, TypeOK, LoopOwner
<1>2. req.ctor # "string" => A \in Seq(Atom) /\ B \in Seq(Atom)
  BY BuildType DEF IInv
<1>3. A' = A /\ B' = B /\ Accepted' = Accepted
  BY DEF A, B, Accepted
<1>4. \A s \in Seq(Atom) : \A n \in Nat : n < Len(s) =>
        /\ SubSeq(s, 1, n) \in Seq(Atom) /\ s[n + 1] \in Atom
        /\ SubSeq(s, 1, n + 1) = Append(SubSeq(s, 1, n), s[n + 1])
  BY PrefixGrows
<1> DEFINE k == <<Node("STRING", req.key.v)>>
<1>5. k \in Seq(Made) /\ <<NameBinding>> \in Seq(Made)
  BY DEF Made
<1>6. ASSUME pc = "args", i < Len(A) PROVE Due' = Append(Due, TextItem(A[i + 1]))
  <2> DEFINE p == SubSeq(A, 1, i)
  <2>1. A \in Seq(Atom)
    BY <1>1, <1>2, <1>6 DEF LoopOwner
  <2>2. p \in Seq(Atom) /\ A[i + 1] \in Atom /\ SubSeq(A, 1, i + 1) = Append(p, A[i + 1])
    BY <1>1, <1>4, <1>6, <2>1
  <2>3. Due = k \o TextItems(p)
    BY <1>1, <1>6, DueInLoop
  <2>4. Due' = k \o TextItems(SubSeq(A, 1, i + 1))
    BY <1>1, <1>3, <1>6 DEF LoopOwner, Due, TextItems, TextItem, A
  <2>5. TextItems(p) \in Seq(Made) /\ TextItem(A[i + 1]) \in Made
        /\ TextItems(Append(p, A[i + 1])) = Append(TextItems(p), TextItem(A[i + 1]))
    BY <2>2, ItemsGrow
  <2>6. k \o Append(TextItems(p), TextItem(A[i + 1])) = Append(k \o TextItems(p), TextItem(A[i + 1]))
    <3> HIDE DEF k
    <3> QED
      BY <1>5, <2>5, ConcatAppend
  <2> QED
    BY <2>2, <2>3, <2>4, <2>5, <2>6, Zenon
<1>7. ASSUME pc = "attrs", i < Len(B) PROVE Due' = Append(Due, AttrItem(B[i + 1]))
  <2> DEFINE p == SubSeq(B, 1, i)
             h == k \o TextItems(A)
  <2>1. A \in Seq(Atom) /\ B \in Seq(Atom)
    BY <1>1, <1>2, <1>7 DEF LoopOwner
  <2>2. p \in Seq(Atom) /\ B[i + 1] \in Atom /\ SubSeq(B, 1, i + 1) = Append(p, B[i + 1])
    BY <1>1, <1>4, <1>7, <2>1
  <2>3. Due = h \o AttrItems(p)
    BY <1>1, <1>7, DueInLoop
  <2>4. Due' = h \o AttrItems(SubSeq(B, 1, i + 1))
    BY <1>1, <1>3, <1>7 DEF LoopOwner, Due, AttrItems, AttrItem, TextItems, TextItem, A, B
  <2>5. AttrItems(p) \in Seq(Made) /\ AttrItem(B[i + 1]) \in Made
        /\ AttrItems(Append(p, B[i + 1])) = Append(AttrItems(p), AttrItem(B[i + 1]))
    BY <2>2, ItemsGrow
  <2>6. TextItems(A) \in Seq(Made)
    BY <2>1, <2>2, ItemsGrow
  <2>7. h \in Seq(Made)
    BY <1>5, <2>6
  <2>8. h \o Append(AttrItems(p), AttrItem(B[i + 1])) = Append(h \o AttrItems(p), AttrItem(B[i + 1]))
    <3> HIDE DEF h
    <3> QED
      BY <2>5, <2>7, ConcatAppend
  <2> QED
    BY <2>2, <2>3, <2>4, <2>5, <2>8, Zenon
<1>8. ASSUME TargetLoop, i < Len(B)
      PROVE  Due' = IF B[i + 1].kind = "binding" THEN Append(Due, AttrItem(B[i + 1])) ELSE Due
  <2> DEFINE p == SubSeq(B, 1, i)
             K == {"binding"}
  <2>1. pc = "target" /\ req.b.kind = "list" /\ B \in Seq(Atom)
    BY <1>1, <1>2, <1>8 DEF LoopOwner, TargetLoop
  <2>2. p \in Seq(Atom) /\ B[i + 1] \in Atom /\ SubSeq(B, 1, i + 1) = Append(p, B[i + 1])
    BY <1>1, <1>4, <1>8, <2>1
  <2>3. Due = <<NameBinding>> \o AttrItems(Kept(p, K))
    BY <1>1, <2>1, DueInLoop
  <2>4. Due' = <<NameBinding>> \o AttrItems(Kept(Append(p, B[i + 1]), K))
    BY <1>1, <1>3, <2>1, <2>2 DEF LoopOwner, Due, AttrItems, AttrItem, B
  <2>5. /\ Kept(p, K) \in Seq(Atom)
        /\ Kept(Append(p, B[i + 1]), K) =
             IF B[i + 1].kind = "binding" THEN Append(Kept(p, K), B[i + 1]) ELSE Kept(p, K)
    BY <2>2, KeptGrows
  <2>6. /\ AttrItems(Kept(p, K)) \in Seq(Made) /\ AttrItem(B[i + 1]) \in Made
        /\ AttrItems(Append(Kept(p, K), B[i + 1])) = Append(AttrItems(Kept(p, K)), AttrItem(B[i + 1]))
    BY <2>2, <2>5, ItemsGrow
  <2> DEFINE n == <<NameBinding>>
  <2>7. n \o Append(AttrItems(Kept(p, K)), AttrItem(B[i + 1])) =
          Append(n \o AttrItems(Kept(p, K)), AttrItem(B[i + 1]))
    <3>1. n \in Seq(Made)
      BY <1>5
    <3> HIDE DEF n
    <3> QED
      BY <2>6, <3>1, ConcatAppend
  <2>8. CASE B[i + 1].kind = "binding"
    BY <2>3, <2>4, <2>5, <2>6, <2>7, <2>8, Zenon
  <2>9. CASE B[i + 1].kind # "binding"
    BY <2>3, <2>4, <2>5, <2>9, Zenon
  <2> QED
    BY <2>8, <2>9
<1>9. ASSUME ListLoop, req.ctor = "binding"
      PROVE  Due' = IF A[i + 1].kind \in Accepted THEN Append(Due, ValueItem(A[i + 1])) ELSE Due
  <2> DEFINE p == SubSeq(A, 1, i)
  <2>1. pc = "list" /\ i < Len(A) /\ req.a.kind # "atom" /\ A \in Seq(Atom)
    BY <1>1, <1>2, <1>9 DEF LoopOwner, ListLoop
  <2>2. p \in Seq(Atom) /\ A[i + 1] \in Atom /\ SubSeq(A, 1, i + 1) = Append(p, A[i + 1])
    BY <1>1, <1>4, <2>1
  <2>3. Due = ValueItems(Kept(p, Accepted))
    BY <1>1, <1>9, <2>1, DueInLoop
  <2>4. Due' = ValueItems(Kept(Append(p, A[i + 1]), Accepted))
    BY <1>1, <1>3, <1>9, <2>1, <2>2 DEF LoopOwner, Due, ValueItems, ValueItem
  <2>5. /\ Kept(p, Accepted) \in Seq(Atom)
        /\ Kept(Append(p, A[i + 1]), Accepted) =
             IF A[i + 1].kind \in Accepted THEN Append(Kept(p, Accepted), A[i + 1])
             ELSE Kept(p, Accepted)
    BY <2>2, KeptGrows
  <2>6. ValueItems(Append(Kept(p, Accepted), A[i + 1])) =
          Append(ValueItems(Kept(p, Accepted)), ValueItem(A[i + 1]))
    BY <2>2, <2>5, ItemsGrow
  <2> QED
    BY <2>3, <2>4, <2>5, <2>6
<1>10. ASSUME ListLoop, req.ctor = "convert" PROVE Due' = Append(Due, ValueItem(A[i + 1]))
  <2> DEFINE p == SubSeq(A, 1, i)
  <2>1. pc = "list" /\ i < Len(A) /\ A \in Seq(Atom)
    BY <1>1, <1>2, <1>10 DEF LoopOwner, ListLoop
  <2>2. p \in Seq(Atom) /\ A[i + 1] \in Atom /\ SubSeq(A, 1, i + 1) = Append(p, A[i + 1])
    BY <1>1, <1>4, <2>1
  <2>3. Due = ValueItems(p)
    BY <1>1, <1>10, <2>1, DueInLoop
  <2>4. Due' = ValueItems(Append(p, A[i + 1]))
    BY <1>1, <1>3, <1>10, <2>1, <2>2 DEF LoopOwner, Due, ValueItems, ValueItem
  <2> QED
    BY <2>2, <2>3, <2>4, ItemsGrow
<1> QED
  BY <1>6, <1>7, <1>8, <1>9, <1>10

\* An item more is due, and an item is pushed.
LEMMA PushedInOrder ==
  ASSUME IInv, ItemsInOrder, pc \in {"args", "attrs", "target", "list"},
         NEW x \in Item, NEW c \in BOOLEAN, Push(x, c), Due' = Append(Due, x)
  PROVE  ItemsInOrder'
<1>1. out \in Seq(Cell) /\ x \in Cell
  BY DEF IInv, TypeOK, Cell
<1>2. WithoutCommas(out) = Due
  BY DEF ItemsInOrder
<1> DEFINE s == Append(out, x)
<1>3. s \in Seq(Cell) /\ s \o << >> = s /\ s \o <<Comma>> = Append(s, Comma)
  <2>1. s \in Seq(Cell)
    BY <1>1
  <2> HIDE DEF s
  <2> QED
    BY <2>1, AppendIsConcat DEF Cell
<1>4. WithoutCommas(s) = Append(Due, x)
  BY <1>1, <1>2, WithoutCommasGrows
<1>5. WithoutCommas(Append(s, Comma)) = WithoutCommas(s)
  BY <1>3, WithoutCommasGrows
<1> HIDE DEF s
<1>6. out' = s \/ out' = Append(s, Comma)
  BY <1>3 DEF Push, s
<1>7. WithoutCommas(out') = Due'
  BY <1>4, <1>5, <1>6
<1>8. WithoutCommas(out)' = WithoutCommas(out')
  BY DEF WithoutCommas
<1> QED
  BY <1>7, <1>8 DEF ItemsInOrder

\* Where an element is passed over, neither side changes; nor does either
\* when the loop is left.
LEMMA NothingPushed ==
  ASSUME ItemsInOrder, pc \in {"attrs", "target", "list"}, out' = out, Due' = Due
  PROVE  ItemsInOrder'
<1>1. WithoutCommas(out)' = WithoutCommas(out)
  BY DEF WithoutCommas
<1> QED
  BY <1>1 DEF ItemsInOrder

LEMMA StopInOrder ==
  ASSUME NEW how \in {"refused", "crashed"}, Stop(how) PROVE ItemsInOrder'
  BY DEF Stop, ItemsInOrder

LEMMA LoadInOrder ==
  ASSUME IInv, ItemsInOrder,
         RefuseLoad \/ BeginLoad \/ PushArg \/ PushNoString \/ BeginLoadAttrs
           \/ PushAttr \/ RefuseAttr \/ EndLoad
  PROVE  ItemsInOrder'
<1>1. Start("load") \/ pc \in {"args", "attrs"}
  BY DEF RefuseLoad, BeginLoad, PushArg, PushNoString, BeginLoadAttrs, PushAttr,
         RefuseAttr, EndLoad
<1>2. req.ctor = "load" /\ LoopOwner
  BY <1>1 DEF Start, IInv, LoopOwner
<1>3. /\ req.key \in Atom /\ A \in Seq(Atom) /\ Len(A) \in Nat /\ Len(B) \in Nat
      /\ \A k \in 1 .. Len(A) : A[k] \in Atom
      /\ \A k \in 1 .. Len(B) : B[k] \in Atom
      /\ B \in Seq(Atom)
  BY <1>2, BuildType DEF IInv
<1>4. i \in Nat /\ out \in Seq(Cell)
  BY DEF IInv, TypeOK, Cell
<1> DEFINE head == Node("STRING", req.key.v)
<1>5. CASE RefuseLoad
  BY <1>5, StopInOrder DEF RefuseLoad, Refuse
<1>6. CASE BeginLoad
  <2>1. head \in Item
    BY <1>3, <1>6, AtomText, NodeType DEF BeginLoad, LoadArgsOK
  <2>2. pc' = "args" /\ out' = <<head, Comma>> /\ i' = 0 /\ req' = req /\ A' = A
    BY <1>6 DEF BeginLoad, GoTo, A
  <2>3. Due' = <<head>> \o TextItems(SubSeq(A, 1, 0))
    <3>0. pc' = "args" /\ req'.ctor = "load"
      BY <1>2, <2>2
    <3>1. Due' = (<<head>> \o TextItems(SubSeq(A, 1, i)))'
      BY <3>0 DEF Due
    <3>2. TextItems(SubSeq(A, 1, i))' = TextItems(SubSeq(A, 1, 0)) /\ head' = head
      BY <2>2 DEF TextItems, TextItem
    <3> QED
      BY <3>1, <3>2
  <2>4. TextItems(SubSeq(A, 1, 0)) = << >> /\ <<head>> \o << >> = <<head>>
    <3>1. SubSeq(A, 1, 0) = << >>
      BY <1>3, PrefixGrows
    <3>2. <<head>> \in Seq(Item)
      BY <2>1
    <3>3. <<head>> \o << >> = <<head>>
      BY <3>2
    <3> QED
      BY <3>1, <3>3, ItemsOfNone
  <2>5. WithoutCommas(<<head, Comma>>) = <<head>>
    BY <2>1, WithoutCommasOfFew
  <2> HIDE DEF head
  <2>6. WithoutCommas(out)' = Due'
    BY <2>2, <2>3, <2>4, <2>5 DEF WithoutCommas
  <2> QED
    BY <2>6 DEF ItemsInOrder
<1>7. CASE PushArg
  <2>1. A[i + 1] \in Atom /\ A[i + 1].kind = "str"
    BY <1>3, <1>4, <1>7 DEF PushArg
  <2>2. TextItem(A[i + 1]) \in Item /\ TextItem(A[i + 1]) = Node("STRING", A[i + 1].v)
    BY <2>1, AtomText, NodeType DEF TextItem
  <2>3. Push(TextItem(A[i + 1]), i < Len(A) - 1) /\ pc = "args" /\ i < Len(A)
    BY <1>7, <2>2 DEF PushArg
  <2>4. Due' = Append(Due, TextItem(A[i + 1]))
    BY <2>3, DueGrows DEF Push
  <2>5. (i < Len(A) - 1) \in BOOLEAN
    OBVIOUS
  <2> QED
    BY <2>2, <2>3, <2>4, <2>5, PushedInOrder
<1>8. CASE PushNoString
  <2>1. CASE Push(Node("STRING", Junk), i < Len(A) - 1)
    <3>1. TextItem(A[i + 1]) \in Item /\ TextItem(A[i + 1]) = Node("STRING", Junk)
      BY <1>8, TextsAssumption, NodeType DEF PushNoString, TextItem
    <3>2. Push(TextItem(A[i + 1]), i < Len(A) - 1) /\ pc = "args" /\ i < Len(A)
      BY <1>8, <2>1, <3>1 DEF PushNoString
    <3>3. Due' = Append(Due, TextItem(A[i + 1]))
      BY <3>2, DueGrows DEF Push
    <3>4. (i < Len(A) - 1) \in BOOLEAN
      OBVIOUS
    <3> QED
      BY <3>1, <3>2, <3>3, <3>4, PushedInOrder
  <2>2. CASE Stop("crashed")
    BY <2>2, StopInOrder
  <2> QED
    BY <1>8, <2>1, <2>2 DEF PushNoString
<1>9. CASE BeginLoadAttrs
  <2>1. pc = "args" /\ i = Len(A) /\ pc' = "attrs" /\ i' = 0 /\ req' = req /\ A' = A /\ B' = B
        /\ (out' = out \o <<Comma>> \/ out' = out \o << >>)
    BY <1>9 DEF BeginLoadAttrs, GoTo, A, B
  <2>2. out \o << >> = out /\ out \o <<Comma>> = Append(out, Comma)
    BY <1>4, AppendIsConcat DEF Cell
  <2>3. WithoutCommas(out') = WithoutCommas(out)
    BY <1>4, <2>1, <2>2, WithoutCommasGrows
  <2>4. WithoutCommas(out) = Due /\ WithoutCommas(out)' = WithoutCommas(out')
    BY <2>1 DEF ItemsInOrder, WithoutCommas
  <2>5. Due = <<head>> \o TextItems(SubSeq(A, 1, Len(A)))
    BY <1>2, <2>1, DueInLoop
  <2>6. Due' = <<head>> \o TextItems(A) \o AttrItems(SubSeq(B, 1, 0))
    BY <1>2, <2>1 DEF Due, TextItems, TextItem, AttrItems, AttrItem
  <2>7. SubSeq(A, 1, Len(A)) = A /\ AttrItems(SubSeq(B, 1, 0)) = << >>
    BY <1>3, PrefixGrows, ItemsOfNone
  <2>8. TextItems(A) \in Seq(Made)
    <3>1. \A e \in Atom : TextItem(e) \in Made
      BY DEF Made
    <3> QED
      BY <1>3, <3>1 DEF TextItems
  <2>9. <<head>> \o TextItems(A) \in Seq(Made)
    BY <2>8 DEF Made
  <2>10. (<<head>> \o TextItems(A)) \o << >> = <<head>> \o TextItems(A)
    BY <2>9
  <2>11. Due' = Due
    BY <2>5, <2>6, <2>7, <2>10
  <2> QED
    BY <2>3, <2>4, <2>11 DEF ItemsInOrder
<1>10. CASE PushAttr
  <2>1. pc = "attrs" /\ i < Len(B) /\ B[i + 1] \in Atom
    BY <1>3, <1>4, <1>10 DEF PushAttr
  <2>2. CASE Stop("crashed")
    BY <2>2, StopInOrder
  <2>3. CASE ~Stop("crashed")
    <3>1. /\ B[i + 1].kind \in {"binding", "node"}
          /\ AttrItem(B[i + 1]) = Node(B[i + 1].kind, B[i + 1].v)
               \/ AttrItem(B[i + 1]) = Node("Binding", B[i + 1].v)
          /\ Push(AttrItem(B[i + 1]), i < Len(A) - 1)
      BY <1>10, <2>3 DEF PushAttr, AttrItem
    <3>2. \A tid \in {"Binding", "node"} : Node(tid, B[i + 1].v) \in Item
      BY <2>1, <3>1, AtomText, NodeType
    <3>3. AttrItem(B[i + 1]) \in Item
      BY <3>1, <3>2 DEF AttrItem
    <3>4. Due' = Append(Due, AttrItem(B[i + 1]))
      BY <2>1, <3>1, DueGrows DEF Push
    <3>5. (i < Len(A) - 1) \in BOOLEAN
      OBVIOUS
    <3> QED
      BY <2>1, <3>1, <3>3, <3>4, <3>5, PushedInOrder
  <2> QED
    BY <2>2, <2>3
<1>11. CASE RefuseAttr
  BY <1>11, StopInOrder DEF RefuseAttr, Refuse
<1>12. CASE EndLoad
  <2>1. pc = "attrs" /\ pc' = "made" /\ UNCHANGED <<req, out, i>>
    BY <1>12 DEF EndLoad, Stop
  <2>2. Due' = Due
    BY <1>2, <2>1 DEF Due, TextItems, TextItem, AttrItems, AttrItem, A, B
  <2> QED
    BY <2>1, <2>2, NothingPushed
<1> QED
  BY <1>5, <1>6, <1>7, <1>8, <1>9, <1>10, <1>11, <1>12

LEMMA TargetInOrder ==
  ASSUME IInv, ItemsInOrder,
         RefuseTarget \/ BeginTarget \/ SingleAttr \/ PushBinding \/ SkipElement \/ EndTarget
  PROVE  ItemsInOrder'
<1>1. Start("target") \/ pc = "target"
  BY DEF RefuseTarget, BeginTarget, SingleAttr, PushBinding, SkipElement, EndTarget,
         TargetLoop
<1>2. req.ctor = "target" /\ LoopOwner
  BY <1>1 DEF Start, IInv, LoopOwner
<1>3. /\ req.b \in Arg /\ B \in Seq(Atom) /\ Len(B) \in Nat
      /\ \A k \in 1 .. Len(B) : B[k] \in Atom
  BY <1>2, BuildType DEF IInv
<1>4. i \in Nat /\ out \in Seq(Cell)
  BY DEF IInv, TypeOK, Cell
<1>5. NameBinding \in Item
  BY TextsAssumption, NodeType DEF NameBinding
<1>6. CASE RefuseTarget
  BY <1>6, StopInOrder DEF RefuseTarget, Refuse
<1>7. CASE BeginTarget
  <2>1. pc' = "target" /\ i' = 0 /\ req' = req /\ B' = B
        /\ (out' = <<NameBinding>> \o <<Comma>> \/ out' = <<NameBinding>> \o << >>)
    BY <1>7 DEF BeginTarget, GoTo, B
  <2>2. <<NameBinding>> \o << >> = <<NameBinding>> /\ <<NameBinding>> \o <<Comma>> = <<NameBinding, Comma>>
    <3>1. NameBinding \in Cell /\ Comma \in Cell
      BY <1>5 DEF Cell
    <3> HIDE DEF NameBinding
    <3>2. <<NameBinding>> \in Seq(Cell) /\ <<NameBinding, Comma>> = Append(<<NameBinding>>, Comma)
      BY <3>1, OneAndTwo
    <3>3. Append(<<NameBinding>>, Comma) = <<NameBinding>> \o <<Comma>>
      BY <3>1, <3>2, AppendIsConcat
    <3>4. \A s \in Seq(Cell) : s \o << >> = s
      OBVIOUS
    <3> QED
      BY <3>2, <3>3, <3>4, Zenon
  <2>3. WithoutCommas(out') = <<NameBinding>>
    BY <1>5, <2>1, <2>2, WithoutCommasOfFew
  <2>4. Due' = <<NameBinding>> \o << >>
    <3>1. CASE req.b.kind = "list"
      <4>1. Due' = <<NameBinding>> \o AttrItems(Kept(SubSeq(B, 1, i), {"binding"}))'
        BY <1>2, <2>1, <3>1 DEF Due
      <4>2. AttrItems(Kept(SubSeq(B, 1, i), {"binding"}))' = AttrItems(Kept(SubSeq(B, 1, 0), {"binding"}))
        BY <2>1 DEF AttrItems, AttrItem
      <4>3. SubSeq(B, 1, 0) = << >>
        BY <1>3, PrefixGrows
      <4> QED
        BY <4>1, <4>2, <4>3, KeptOfNone, ItemsOfNone
    <3>2. CASE req.b.kind # "list"
      BY <1>2, <2>1, <3>2 DEF Due
    <3> QED
      BY <3>1, <3>2
  <2>5. WithoutCommas(out)' = WithoutCommas(out')
    BY DEF WithoutCommas
  <2> QED
    BY <2>2, <2>3, <2>4, <2>5 DEF ItemsInOrder
<1>8. CASE SingleAttr
  <2>1. pc = "target" /\ req.b.kind # "list" /\ pc' = "made" /\ req' = req
    BY <1>8 DEF SingleAttr, GoTo, Stop
  <2>2. Due = <<NameBinding>> \o << >> /\ WithoutCommas(out) = Due
    BY <1>2, <2>1, DueInLoop DEF ItemsInOrder
  <2>3. Due' = <<NameBinding>> \o (IF SingleBinding THEN <<AttrItem(req.b.atom)>> ELSE << >>)
    BY <1>2, <2>1 DEF Due, SingleBinding, AttrItem
  <2>4. WithoutCommas(out)' = WithoutCommas(out')
    BY DEF WithoutCommas
  <2>5. CASE SingleBinding
    <3> DEFINE x == AttrItem(req.b.atom)
    <3>1. req.b.atom \in Atom /\ req.b.atom.kind = "binding"
      BY <1>3, <2>5 DEF SingleBinding, Arg
    <3>2. x \in Item /\ x = Node("Binding", req.b.atom.v)
      BY <3>1, AtomText, NodeType DEF AttrItem
    <3>3. out' = Append(out, x)
      BY <1>8, <2>5, <3>2 DEF SingleAttr, SingleBinding, GoTo
    <3> HIDE DEF x
    <3>4. WithoutCommas(out') = Append(WithoutCommas(out), x)
      BY <1>4, <3>2, <3>3, WithoutCommasGrows
    <3>5. <<NameBinding>> \in Seq(Item)
      BY <1>5
    <3> HIDE DEF NameBinding
    <3>6. <<NameBinding>> \o << >> = <<NameBinding>> /\ Append(<<NameBinding>>, x) = <<NameBinding>> \o <<x>>
      BY <3>2, <3>5, AppendIsConcat
    <3>7. Due' = <<NameBinding>> \o <<x>>
      BY <2>3, <2>5 DEF x
    <3> QED
      BY <2>2, <2>4, <3>4, <3>6, <3>7 DEF ItemsInOrder
  <2>6. CASE ~SingleBinding
    <3>1. out' = out
      BY <1>8, <2>6 DEF SingleAttr, SingleBinding, Stop
    <3>2. Due' = Due
      BY <2>2, <2>3, <2>6
    <3> QED
      BY <2>1, <3>1, <3>2, NothingPushed
  <2> QED
    BY <2>5, <2>6
<1>9. CASE PushBinding
  <2>1. TargetLoop /\ i < Len(B) /\ B[i + 1] \in Atom /\ B[i + 1].kind = "binding" /\ pc = "target"
    BY <1>3, <1>4, <1>9 DEF PushBinding, TargetLoop
  <2>2. AttrItem(B[i + 1]) \in Item /\ Push(AttrItem(B[i + 1]), RestLen > i)
    BY <1>9, <2>1, AtomText, NodeType DEF PushBinding, AttrItem
  <2>3. Due' = Append(Due, AttrItem(B[i + 1]))
    BY <2>1, <2>2, DueGrows DEF Push
  <2>4. (RestLen > i) \in BOOLEAN
    OBVIOUS
  <2> QED
    BY <2>1, <2>2, <2>3, <2>4, PushedInOrder
<1>10. CASE SkipElement
  <2>1. TargetLoop /\ i < Len(B) /\ B[i + 1].kind # "binding" /\ pc = "target" /\ out' = out
        /\ i' = i + 1 /\ UNCHANGED <<pc, req>>
    BY <1>10 DEF SkipElement, TargetLoop
  <2>2. Due' = Due
    BY <2>1, DueGrows
  <2> QED
    BY <2>1, <2>2, NothingPushed
<1>11. CASE EndTarget
  <2>1. pc = "target" /\ req.b.kind = "list" /\ pc' = "made" /\ UNCHANGED <<req, out, i>>
    BY <1>11 DEF EndTarget, TargetLoop, Stop
  <2>2. Due' = Due
    BY <1>2, <2>1 DEF Due, AttrItems, AttrItem, B
  <2> QED
    BY <2>1, <2>2, NothingPushed
<1> QED
  BY <1>6, <1>7, <1>8, <1>9, <1>10, <1>11

LEMMA ListInOrder ==
  ASSUME IInv, ItemsInOrder,
         RefuseBinding \/ MakeBinding \/ Convert \/ PushItem \/ SkipItem
           \/ PushBlank \/ EndList
  PROVE  ItemsInOrder'
<1>1. Start("binding") \/ Start("convert") \/ pc = "list"
  BY DEF RefuseBinding, MakeBinding, Convert, PushItem, SkipItem, PushBlank, EndList,
         ListLoop
<1>2. req.ctor \in {"binding", "convert"} /\ LoopOwner
  BY <1>1 DEF Start, IInv, LoopOwner
<1>3. /\ req \in Build /\ req.a \in Arg /\ A \in Seq(Atom) /\ Len(A) \in Nat
      /\ \A k \in 1 .. Len(A) : A[k] \in Atom
  BY <1>2, BuildType DEF IInv
<1>4. i \in Nat
  BY DEF IInv, TypeOK
<1>5. WithoutCommas(out)' = WithoutCommas(out')
  BY DEF WithoutCommas
<1>6. CASE RefuseBinding
  BY <1>6, StopInOrder DEF RefuseBinding, Refuse
<1>7. CASE MakeBinding /\ req.a.kind = "atom"
  <2>1. pc' = "made" /\ req' = req /\ req.ctor = "binding"
    BY <1>7 DEF MakeBinding, GoTo, Start
  <2>2. Due' = WithoutCommas(out)'
    BY <1>7, <2>1 DEF Due
  <2> QED
    BY <2>2 DEF ItemsInOrder
<1>8. CASE (MakeBinding /\ req.a.kind # "atom") \/ Convert
  <2>1. pc' = "list" /\ out' = << >> /\ i' = 0 /\ req' = req /\ A' = A
        /\ ((req.ctor = "binding" /\ req.a.kind # "atom") \/ req.ctor = "convert")
    BY <1>8 DEF MakeBinding, Convert, Start, GoTo, A
  <2>2. SubSeq(A, 1, 0) = << >>
    BY <1>3, PrefixGrows
  <2>3. CASE req.ctor = "binding"
    <3>1. Due' = ValueItems(Kept(SubSeq(A, 1, i), Accepted))'
      BY <2>1, <2>3 DEF Due
    <3>2. Kept(SubSeq(A, 1, i), Accepted)' = Kept(SubSeq(A, 1, 0), Accepted')
      BY <2>1 DEF Kept
    <3>3. Kept(SubSeq(A, 1, i), Accepted)' = << >>
      BY <2>2, <3>2, KeptOfNone
    <3> QED
      BY <1>5, <2>1, <3>1, <3>3, WithoutCommasOfFew DEF ItemsInOrder, ValueItems
  <2>4. CASE req.ctor = "convert"
    <3>1. Due' = ValueItems(SubSeq(A, 1, i))'
      BY <2>1, <2>4 DEF Due
    <3>2. SubSeq(A, 1, i)' = << >>
      BY <2>1, <2>2
    <3>3. ValueItems(SubSeq(A, 1, i))' = [k \in 1 .. Len(<< >>) |-> ValueItem(<< >>[k])']
      BY <3>2, Zenon DEF ValueItems
    <3>4. ValueItems(SubSeq(A, 1, i))' = << >>
      BY <3>3
    <3> QED
      BY <1>5, <2>1, <3>1, <3>4, WithoutCommasOfFew DEF ItemsInOrder
  <2> QED
    BY <2>1, <2>3, <2>4
<1>9. CASE PushItem
  <2> DEFINE x == ItemOf(A[i + 1])
  <2>1. pc = "list" /\ ListLoop /\ A[i + 1] \in Atom /\ A[i + 1].kind \in Accepted
    BY <1>3, <1>4, <1>9 DEF PushItem, ListLoop
  <2>2. req.ctor = "convert" \/ (req.ctor = "binding" /\ req.a.kind \in {"list", "vector"})
    BY <1>3, <2>1 DEF IInv, LoopOwner, Arg
  <2>3. A[i + 1].kind \in {"int", "str", "sym", "bool"}
    BY <2>1, <2>2 DEF Accepted
  <2>4. x \in Item /\ ValueItem(A[i + 1]) = x
    BY <2>1, <2>3, ItemOfType DEF ValueItem
  <2>5. Push(x, Len(A) - i > 1)
    BY <1>9 DEF PushItem
  <2>6. Due' = Append(Due, x)
    BY <1>2, <2>1, <2>4, <2>5, DueGrows DEF Push
  <2> HIDE DEF x
  <2>7. (Len(A) - i > 1) \in BOOLEAN
    OBVIOUS
  <2> QED
    BY <2>1, <2>4, <2>5, <2>6, <2>7, PushedInOrder
<1>10. CASE SkipItem
  <2>1. pc = "list" /\ ListLoop /\ A[i + 1].kind \notin Accepted /\ req.ctor = "binding"
        /\ out' = out /\ i' = i + 1 /\ UNCHANGED <<pc, req>>
    BY <1>10 DEF SkipItem, ListLoop
  <2>2. Due' = Due
    BY <2>1, DueGrows
  <2> QED
    BY <2>1, <2>2, NothingPushed
<1>11. CASE PushBlank
  <2> DEFINE x == Node("0", Junk)
  <2>1. x \in Item
    BY TextsAssumption, NodeType
  <2>2. pc = "list" /\ ListLoop /\ req.ctor = "convert" /\ ValueItem(A[i + 1]) = x
        /\ Push(x, Len(A) - i > 1)
    BY <1>11 DEF PushBlank, ListLoop, ValueItem
  <2>3. Due' = Append(Due, x)
    BY <2>2, DueGrows DEF Push
  <2> HIDE DEF x
  <2>4. (Len(A) - i > 1) \in BOOLEAN
    OBVIOUS
  <2> QED
    BY <2>1, <2>2, <2>3, <2>4, PushedInOrder
<1>12. CASE EndList
  <2>1. pc = "list" /\ pc' = "made" /\ UNCHANGED <<req, out, i>>
        /\ (req.ctor = "binding" => req.a.kind # "atom")
    BY <1>2, <1>12 DEF EndList, Stop, LoopOwner
  <2>2. Due' = Due
    BY <1>2, <2>1 DEF Due, ValueItems, ValueItem, Accepted, A
  <2> QED
    BY <2>1, <2>2, NothingPushed
<1> QED
  BY <1>6, <1>7, <1>8, <1>9, <1>10, <1>11, <1>12

LEMMA StringInOrder ==
  ASSUME RefuseString \/ MakeString
  PROVE  ItemsInOrder'
<1>1. CASE RefuseString
  BY <1>1, StopInOrder DEF RefuseString, Refuse
<1>2. CASE MakeString
  <2>1. pc' = "made" /\ req'.ctor = "string"
    BY <1>2 DEF MakeString, Start, GoTo
  <2>2. Due' = WithoutCommas(out)'
    BY <2>1 DEF Due
  <2> QED
    BY <2>2 DEF ItemsInOrder
<1> QED
  BY <1>1, <1>2

\* At every turn of every loop of every constructor, the array holds what
\* was given to it so far, in that order and nothing twice, whatever is
\* passed over and wherever the commas fall.
THEOREM NothingLost == Spec => []ItemsInOrder
<1>1. Init => ItemsInOrder
  BY DEF Init, ItemsInOrder
<1>2. IInv /\ ItemsInOrder /\ [Next]_vars => ItemsInOrder'
  <2> SUFFICES ASSUME IInv, ItemsInOrder, [Next]_vars PROVE ItemsInOrder'
    OBVIOUS
  <2>1. CASE (\E r \in Requests : Receive(r)) \/ Return
    BY <2>1 DEF Receive, Return, ItemsInOrder
  <2>2. CASE RefuseLoad \/ BeginLoad \/ PushArg \/ PushNoString \/ BeginLoadAttrs
               \/ PushAttr \/ RefuseAttr \/ EndLoad
    BY <2>2, LoadInOrder
  <2>3. CASE RefuseTarget \/ BeginTarget \/ SingleAttr \/ PushBinding \/ SkipElement
               \/ EndTarget
    BY <2>3, TargetInOrder
  <2>4. CASE RefuseBinding \/ MakeBinding \/ Convert \/ PushItem \/ SkipItem
               \/ PushBlank \/ EndList
    BY <2>4, ListInOrder
  <2>5. CASE RefuseString \/ MakeString
    BY <2>5, StringInOrder
  <2>6. CASE UNCHANGED vars
    <3>1. Due' = Due
      BY <2>6 DEF vars, Due, TextItems, TextItem, AttrItems, AttrItem, ValueItems, ValueItem,
                  SingleBinding, Accepted, WithoutCommas, Kept, A, B
    <3>2. WithoutCommas(out)' = WithoutCommas(out) /\ pc' = pc
      BY <2>6 DEF vars, WithoutCommas
    <3> QED
      BY <3>1, <3>2 DEF ItemsInOrder
  <2> QED
    BY <2>1, <2>2, <2>3, <2>4, <2>5, <2>6 DEF Next, Turn
<1> QED
  BY <1>1, <1>2, Invariant, PTL DEF Spec

-----------------------------------------------------------------------------
(***************************************************************************)
(* The calls for which items and commas alternate.  At any time an array   *)
(* is open, an item is missing at its end; closed; or broken, two items    *)
(* stand side by side, and nothing that is pushed will mend it.            *)
(***************************************************************************)
Patterned(s) == \A k \in 1 .. Len(s) : s[k] = Comma <=> k % 2 = 0

Open(s)   == Patterned(s) /\ Len(s) % 2 = 0
Closed(s) == Patterned(s) /\ Len(s) % 2 = 1
Broken(s) == ~Patterned(s)

ArgsShape ==
  /\ i <= Len(A) /\ out # << >>
  /\ IF i = Len(A) /\ i > 0 THEN Closed(out) ELSE Open(out)

\* The commas between attributes are counted against the arguments.
AttrsShape ==
  LET n == Len(A)
      m == Len(B)
  IN  /\ i <= m /\ out # << >>
      /\ n = 0 => /\ i = 0 => Open(out)
                  /\ i = 1 => Closed(out)
                  /\ i > 1 => Broken(out)
      /\ n > 0 /\ ~(n > 1 /\ m > 1) => IF i = 0 THEN Closed(out) ELSE Broken(out)
      /\ n > 1 /\ m > 1 => /\ i < n => Open(out)
                           /\ i = n => Closed(out)
                           /\ i > n => Broken(out)

\* The last comma is left open by a last element that is passed over.
TargetShape ==
  LET m == Len(B)
  IN  IF req.b.kind # "list" THEN Closed(out)
      ELSE /\ i <= m /\ out # << >>
           /\ m = 0 => Closed(out)
           /\ m = 1 => IF i = 1 /\ B[1].kind = "binding" THEN Broken(out) ELSE Closed(out)
           /\ m > 1 => IF i = m /\ B[m].kind = "binding" THEN Closed(out) ELSE Open(out)

\* A turn of the loop over a list pushes something.
Pushes(k) == req.ctor = "convert" \/ A[k].kind \in Accepted

ListShape ==
  LET n == Len(A)
  IN  /\ i <= n
      /\ out = << >> <=> \A k \in 1 .. i : ~Pushes(k)
      /\ IF i = n /\ n > 0 /\ Pushes(n) THEN Closed(out) ELSE Open(out)

\* What the inductive invariant adds to the other one.
Shape ==
  /\ pc = "args" => ArgsShape
  /\ pc = "attrs" => AttrsShape
  /\ pc = "target" => TargetShape
  /\ pc = "list" => ListShape
  /\ WellMade

LEMMA Parity ==
  ASSUME NEW n \in Nat
  PROVE  /\ n % 2 = 0 => (n + 1) % 2 = 1 /\ (n + 2) % 2 = 0
         /\ n % 2 # 0 => n % 2 = 1 /\ (n + 1) % 2 = 0
  OBVIOUS

LEMMA ShapeOfFew ==
  ASSUME NEW x \in Item
  PROVE  /\ Open(<< >>) /\ Alternating(<< >>)
         /\ Closed(<<x>>) /\ Alternating(<<x>>)
         /\ Open(<<x, Comma>>) /\ <<x, Comma>> # << >>
<1>1. x # Comma
  BY CommaAssumption
<1> QED
  BY <1>1 DEF Open, Closed, Patterned, Alternating

\* To alternate is to be closed or empty.
LEMMA ShapeOfAlternating ==
  ASSUME NEW s \in Seq(Cell)
  PROVE  /\ Closed(s) => Alternating(s)
         /\ Open(s) /\ s # << >> => ~Alternating(s)
         /\ Broken(s) => ~Alternating(s)
  BY DEF Open, Closed, Broken, Patterned, Alternating

\* Pushing an item, and a comma or not.
LEMMA PushShape ==
  ASSUME NEW s \in Seq(Cell), NEW x \in Item, NEW c \in BOOLEAN
  PROVE  LET r == Append(s, x) \o (IF c THEN <<Comma>> ELSE << >>)
         IN  /\ r # << >>
             /\ Open(s) /\ c => Open(r)
             /\ Open(s) /\ ~c => Closed(r)
             /\ ~Open(s) => Broken(r)
<1>1. x \in Cell /\ Comma \in Cell /\ x # Comma
  BY CommaAssumption DEF Cell
<1> DEFINE t == Append(s, x)
           r == t \o (IF c THEN <<Comma>> ELSE << >>)
           n == Len(s)
<1>2. n \in Nat /\ t \in Seq(Cell) /\ Len(t) = n + 1 /\ t[n + 1] = x
      /\ \A k \in 1 .. n : t[k] = s[k]
  BY <1>1
<1> HIDE DEF t
<1>3. c => Len(r) = n + 2 /\ r[n + 2] = Comma /\ \A k \in 1 .. n + 1 : r[k] = t[k]
  BY <1>1, <1>2
<1>4. ~c => r = t
  BY <1>2
<1>5. /\ Len(r) = n + (IF c THEN 2 ELSE 1) /\ (c => r[n + 2] = Comma)
      /\ r[n + 1] = x /\ \A k \in 1 .. n : r[k] = s[k]
  BY <1>2, <1>3, <1>4
<1> HIDE DEF r
<1>6. r # << >>
  BY <1>2, <1>5
<1>7. Open(s) => Patterned(r)
  BY <1>1, <1>2, <1>5 DEF Open, Patterned
<1>8. ~Open(s) => ~Patterned(r)
  <2>1. CASE ~Patterned(s)
    BY <1>2, <1>5, <2>1 DEF Patterned
  <2>2. CASE Patterned(s) /\ n % 2 # 0
    <3>1. n + 1 \in 1 .. Len(r) /\ (n + 1) % 2 = 0
      BY <1>2, <1>5, <2>2, Parity
    <3> QED
      BY <1>1, <1>5, <3>1 DEF Patterned
  <2> QED
    BY <2>1, <2>2 DEF Open
<1>9. Open(s) => (c => Len(r) % 2 = 0) /\ (~c => Len(r) % 2 = 1)
  <2>1. Open(s) => (n + 1) % 2 = 1 /\ (n + 2) % 2 = 0
    BY <1>2, Parity DEF Open
  <2> QED
    BY <1>5, <2>1
<1> QED
  BY <1>6, <1>7, <1>8, <1>9 DEF Open, Closed, Broken, r, t

\* A comma behind an array that is closed.
LEMMA CommaShape ==
  ASSUME NEW s \in Seq(Cell), Closed(s)
  PROVE  Open(s \o <<Comma>>) /\ s \o <<Comma>> # << >>
<1> DEFINE r == s \o <<Comma>>
           n == Len(s)
<1>1. /\ n \in Nat /\ Len(r) = n + 1 /\ r[n + 1] = Comma
      /\ \A k \in 1 .. n : r[k] = s[k]
  BY DEF Cell
<1> HIDE DEF r
<1>2. Patterned(r) /\ Len(r) % 2 = 0 /\ r # << >>
  BY <1>1 DEF Closed, Patterned
<1> QED
  BY <1>2 DEF Open, r

\* The shapes exclude each other, and there is no other.
LEMMA ShapesDiffer ==
  ASSUME NEW s \in Seq(Cell)
  PROVE  /\ Closed(s) => ~Open(s)
         /\ Broken(s) => ~Open(s)
  BY DEF Open, Closed, Broken

\* A turn of a loop, in terms of shapes.
LEMMA TurnShape ==
  ASSUME IInv, NEW x \in Item, NEW c \in BOOLEAN, Push(x, c)
  PROVE  /\ out' # << >>
         /\ Open(out) /\ c => Open(out')
         /\ Open(out) /\ ~c => Closed(out')
         /\ Closed(out) => Broken(out')
         /\ Broken(out) => Broken(out')
<1>1. out \in Seq(Cell)
  BY DEF IInv, TypeOK, Cell
<1>2. out' = Append(out, x) \o (IF c THEN <<Comma>> ELSE << >>)
  BY DEF Push
<1>3. Closed(out) => ~Open(out)
  BY <1>1, ShapesDiffer
<1>4. Broken(out) => ~Open(out)
  BY <1>1, ShapesDiffer
<1> QED
  BY <1>1, <1>2, <1>3, <1>4, PushShape

LEMMA ShapesLater ==
  /\ Open(out)' <=> Open(out')
  /\ Closed(out)' <=> Closed(out')
  /\ Broken(out)' <=> Broken(out')
  /\ Alternating(out)' <=> Alternating(out')
  BY DEF Open, Closed, Broken, Patterned, Alternating

LEMMA StopShape == ASSUME NEW how \in {"refused", "crashed"}, Stop(how) PROVE Shape'
  BY DEF Stop, Shape, WellMade

LEMMA ArgTurn ==
  ASSUME IInv, Shape, pc = "args", i < Len(A), NEW x \in Item, Push(x, i < Len(A) - 1)
  PROVE  Shape'
<1>1. i \in Nat /\ Len(A) \in Nat /\ ArgsShape
  BY BuildType DEF IInv, TypeOK, LoopOwner, Shape
<1>2. pc' = "args" /\ i' = i + 1 /\ A' = A
  BY DEF Push, A
<1>3. (i < Len(A) - 1) \in BOOLEAN
  OBVIOUS
<1>4. out' # << >> /\ (Open(out) /\ i < Len(A) - 1 => Open(out'))
      /\ (Open(out) /\ ~(i < Len(A) - 1) => Closed(out'))
  BY <1>3, TurnShape
<1>5. Open(out)
  BY <1>1 DEF ArgsShape
<1>6. ArgsShape'
  BY <1>1, <1>2, <1>4, <1>5, ShapesLater DEF ArgsShape
<1> QED
  BY <1>2, <1>6 DEF Shape, WellMade

LEMMA AttrTurn ==
  ASSUME IInv, Shape, pc = "attrs", i < Len(B), NEW x \in Item, Push(x, i < Len(A) - 1)
  PROVE  Shape'
<1>1. i \in Nat /\ Len(A) \in Nat /\ Len(B) \in Nat /\ AttrsShape
  BY BuildType DEF IInv, TypeOK, LoopOwner, Shape
<1>2. pc' = "attrs" /\ i' = i + 1 /\ A' = A /\ B' = B
  BY DEF Push, A, B
<1>3. (i < Len(A) - 1) \in BOOLEAN
  OBVIOUS
<1>4. out' # << >> /\ (Open(out) /\ i < Len(A) - 1 => Open(out'))
      /\ (Open(out) /\ ~(i < Len(A) - 1) => Closed(out'))
      /\ (Closed(out) => Broken(out')) /\ (Broken(out) => Broken(out'))
  BY <1>3, TurnShape
<1> DEFINE n == Len(A)
           m == Len(B)
<1>5. n = 0 => /\ i' = 1 => Closed(out')
               /\ i' > 1 => Broken(out')
  <2>1. n = 0 => ~(i < n - 1) /\ (i = 0 => Open(out)) /\ (i = 1 => Closed(out)) /\ (i > 1 => Broken(out))
    BY <1>1 DEF AttrsShape
  <2> QED
    BY <1>1, <1>2, <1>4, <2>1
<1>6. n > 0 /\ ~(n > 1 /\ m > 1) => Broken(out')
  BY <1>1, <1>4 DEF AttrsShape
<1>7. n > 1 /\ m > 1 => /\ i' < n => Open(out')
                        /\ i' = n => Closed(out')
                        /\ i' > n => Broken(out')
  <2>1. n > 1 /\ m > 1 => (i < n => Open(out)) /\ (i = n => Closed(out)) /\ (i > n => Broken(out))
    BY <1>1 DEF AttrsShape
  <2>2. i' < n => i < n - 1
    BY <1>1, <1>2
  <2>3. i' = n => i < n /\ ~(i < n - 1)
    BY <1>1, <1>2
  <2>4. i' > n => i = n \/ i > n
    BY <1>1, <1>2
  <2> QED
    BY <1>1, <1>4, <2>1, <2>2, <2>3, <2>4
<1>8. i' <= m /\ i' # 0
  BY <1>1, <1>2
<1>9. AttrsShape'
  BY <1>1, <1>2, <1>4, <1>5, <1>6, <1>7, <1>8, ShapesLater DEF AttrsShape
<1> QED
  BY <1>2, <1>9 DEF Shape, WellMade

LEMMA LoadKeepsShape ==
  ASSUME IInv, Shape,
         RefuseLoad \/ BeginLoad \/ PushArg \/ PushNoString \/ BeginLoadAttrs
           \/ PushAttr \/ RefuseAttr \/ EndLoad
  PROVE  Shape'
<1>1. Start("load") \/ pc \in {"args", "attrs"}
  BY DEF RefuseLoad, BeginLoad, PushArg, PushNoString, BeginLoadAttrs, PushAttr,
         RefuseAttr, EndLoad
<1>2. req.ctor = "load"
  BY <1>1 DEF Start, IInv, LoopOwner
<1>3. /\ req.key \in Atom /\ Len(A) \in Nat /\ Len(B) \in Nat
      /\ \A k \in 1 .. Len(A) : A[k] \in Atom
      /\ \A k \in 1 .. Len(B) : B[k] \in Atom
  BY <1>2, BuildType DEF IInv
<1>4. i \in Nat /\ out \in Seq(Cell)
  BY DEF IInv, TypeOK, Cell
<1>5. CASE RefuseLoad
  BY <1>5, StopShape DEF RefuseLoad, Refuse
<1>6. CASE BeginLoad
  <2> DEFINE x == Node("STRING", req.key.v)
  <2>1. x \in Item
    BY <1>3, <1>6, AtomText, NodeType DEF BeginLoad, LoadArgsOK
  <2>2. pc' = "args" /\ out' = <<x, Comma>> /\ i' = 0 /\ A' = A
    BY <1>6 DEF BeginLoad, GoTo, A
  <2> HIDE DEF x
  <2>3. Open(out') /\ out' # << >>
    BY <2>1, <2>2, ShapeOfFew
  <2>4. ArgsShape'
    BY <1>3, <2>2, <2>3, ShapesLater DEF ArgsShape
  <2> QED
    BY <2>2, <2>4 DEF Shape, WellMade
<1>7. CASE PushArg
  <2>1. Node("STRING", A[i + 1].v) \in Item
    BY <1>3, <1>4, <1>7, AtomText, NodeType DEF PushArg
  <2> QED
    BY <1>7, <2>1, ArgTurn DEF PushArg
<1>8. CASE PushNoString
  <2>1. Node("STRING", Junk) \in Item
    BY TextsAssumption, NodeType
  <2> QED
    BY <1>8, <2>1, ArgTurn, StopShape DEF PushNoString
<1>9. CASE BeginLoadAttrs
  <2> DEFINE n == Len(A)
             m == Len(B)
  <2>1. /\ ArgsShape /\ i = n /\ pc' = "attrs" /\ i' = 0 /\ A' = A /\ B' = B
        /\ out' = out \o (IF n - 1 > 0 /\ m - 1 > 0 THEN <<Comma>> ELSE << >>)
    BY <1>9 DEF BeginLoadAttrs, GoTo, Shape, A, B
  <2>2. out # << >> /\ (n = 0 => Open(out)) /\ (n > 0 => Closed(out))
    BY <1>3, <2>1 DEF ArgsShape
  <2>3. n > 1 /\ m > 1 => Open(out') /\ out' # << >>
    <3>1. n > 1 /\ m > 1 => Closed(out) /\ out' = out \o <<Comma>>
      BY <1>3, <2>1, <2>2
    <3> QED
      BY <1>4, <3>1, CommaShape
  <2>4. ~(n > 1 /\ m > 1) => out' = out
    <3>1. out \o << >> = out
      BY <1>4
    <3>2. ~(n > 1 /\ m > 1) => ~(n - 1 > 0 /\ m - 1 > 0)
      BY <1>3
    <3> QED
      BY <2>1, <3>1, <3>2
  <2>5. out' # << >> /\ (n = 0 => Open(out')) /\ (n > 0 /\ ~(n > 1 /\ m > 1) => Closed(out'))
    BY <2>2, <2>3, <2>4
  <2>6. AttrsShape'
    BY <1>3, <2>1, <2>3, <2>5, ShapesLater DEF AttrsShape
  <2> QED
    BY <2>1, <2>6 DEF Shape, WellMade
<1>10. CASE PushAttr
  <2>1. pc = "attrs" /\ i < Len(B) /\ B[i + 1] \in Atom
    BY <1>3, <1>4, <1>10 DEF PushAttr
  <2>2. CASE B[i + 1].kind \in {"binding", "node"}
    <3>1. \A tid \in {"Binding", "node"} : Node(tid, B[i + 1].v) \in Item
      BY <2>1, <2>2, AtomText, NodeType
    <3> QED
      BY <1>10, <2>1, <3>1, AttrTurn, StopShape DEF PushAttr
  <2> QED
    BY <1>10, <2>2 DEF PushAttr
<1>11. CASE RefuseAttr
  BY <1>11, StopShape DEF RefuseAttr, Refuse
<1>12. CASE EndLoad
  <2> DEFINE n == Len(A)
             m == Len(B)
  <2>1. AttrsShape /\ i = m /\ pc' = "made" /\ out' = out /\ req' = req
    BY <1>12 DEF EndLoad, Stop, Shape
  <2>2. CommasCountOut <=> (n = 0 /\ m = 1) \/ (n >= 1 /\ m = 0) \/ (n >= 2 /\ m = n)
    BY <1>2 DEF CommasCountOut
  <2>3. (Closed(out) => Alternating(out)) /\ (Open(out) => ~Alternating(out))
        /\ (Broken(out) => ~Alternating(out))
    BY <1>4, <2>1, ShapeOfAlternating DEF AttrsShape
  <2>4. Alternating(out) <=> CommasCountOut
    <3>1. CASE n = 0
      BY <1>3, <2>1, <2>2, <2>3, <3>1 DEF AttrsShape
    <3>2. CASE n > 0 /\ ~(n > 1 /\ m > 1)
      BY <1>3, <2>1, <2>2, <2>3, <3>2 DEF AttrsShape
    <3>3. CASE n > 1 /\ m > 1
      BY <1>3, <2>1, <2>2, <2>3, <3>3 DEF AttrsShape
    <3> QED
      BY <1>3, <3>1, <3>2, <3>3
  <2>5. CommasCountOut' <=> CommasCountOut
    BY <2>1 DEF CommasCountOut, SingleBinding, Accepted, A, B
  <2> QED
    BY <2>1, <2>4, <2>5, ShapesLater DEF Shape, WellMade
<1> QED
  BY <1>5, <1>6, <1>7, <1>8, <1>9, <1>10, <1>11, <1>12

LEMMA TargetKeepsShape ==
  ASSUME IInv, Shape,
         RefuseTarget \/ BeginTarget \/ SingleAttr \/ PushBinding \/ SkipElement \/ EndTarget
  PROVE  Shape'
<1>1. Start("target") \/ pc = "target"
  BY DEF RefuseTarget, BeginTarget, SingleAttr, PushBinding, SkipElement, EndTarget,
         TargetLoop
<1>2. req.ctor = "target"
  BY <1>1 DEF Start, IInv, LoopOwner
<1>3. /\ req.b \in Arg /\ Len(B) \in Nat
      /\ \A k \in 1 .. Len(B) : B[k] \in Atom
  BY <1>2, BuildType DEF IInv
<1>4. i \in Nat /\ out \in Seq(Cell)
  BY DEF IInv, TypeOK, Cell
<1>5. pc = "target" => TargetShape
  BY DEF Shape
<1> DEFINE m == Len(B)
<1>6. CASE RefuseTarget
  BY <1>6, StopShape DEF RefuseTarget, Refuse
<1>7. CASE BeginTarget
  <2>1. pc' = "target" /\ i' = 0 /\ req' = req /\ B' = B
        /\ out' = <<NameBinding>> \o (IF RestLen > 0 THEN <<Comma>> ELSE << >>)
    BY <1>7 DEF BeginTarget, GoTo, B
  <2>2. NameBinding \in Item
    BY TextsAssumption, NodeType DEF NameBinding
  <2>3. <<NameBinding>> \in Seq(Cell) /\ Closed(<<NameBinding>>) /\ <<NameBinding>> # << >>
    <3>1. NameBinding \in Cell /\ \A x \in Item : Closed(<<x>>)
      BY <2>2, ShapeOfFew DEF Cell
    <3> HIDE DEF NameBinding
    <3>2. <<NameBinding>> \in Seq(Cell) /\ <<NameBinding>> # << >>
      BY <3>1
    <3> QED
      BY <2>2, <3>1, <3>2
  <2>4. CASE req.b.kind = "list" /\ m > 1
    <3>1. RestLen > 0
      BY <1>3, <2>4 DEF RestLen
    <3>2. out' = <<NameBinding>> \o <<Comma>>
      BY <2>1, <3>1
    <3>3. Open(out') /\ out' # << >>
      BY <2>3, <3>2, CommaShape
    <3>4. TargetShape'
      BY <1>3, <2>1, <2>4, <3>3, ShapesLater DEF TargetShape
    <3> QED
      BY <2>1, <3>4 DEF Shape, WellMade
  <2>5. CASE ~(req.b.kind = "list" /\ m > 1)
    <3>1. ~(RestLen > 0)
      BY <1>3, <2>5 DEF RestLen
    <3>2. \A s \in Seq(Cell) : s \o << >> = s
      OBVIOUS
    <3>3. out' = <<NameBinding>>
      BY <2>1, <2>3, <3>1, <3>2
    <3>4. Closed(out') /\ out' # << >>
      BY <2>3, <3>3
    <3>5. TargetShape'
      BY <1>3, <2>1, <2>5, <3>4, ShapesLater DEF TargetShape
    <3> QED
      BY <2>1, <3>5 DEF Shape, WellMade
  <2> QED
    BY <2>4, <2>5
<1>8. CASE SingleAttr
  <2>1. pc = "target" /\ req.b.kind # "list" /\ pc' = "made" /\ req' = req /\ Closed(out)
    BY <1>5, <1>8 DEF SingleAttr, GoTo, Stop, TargetShape
  <2>2. CommasCountOut' <=> ~SingleBinding
    BY <1>2, <2>1 DEF CommasCountOut, SingleBinding
  <2>3. CASE SingleBinding
    <3> DEFINE x == Node("Binding", req.b.atom.v)
    <3>1. req.b.atom \in Atom /\ req.b.atom.kind = "binding"
      BY <1>3, <2>3 DEF SingleBinding, Arg
    <3>2. x \in Item
      BY <3>1, AtomText, NodeType
    <3>3. out' = Append(out, x)
      BY <1>8, <2>3 DEF SingleAttr, SingleBinding, GoTo
    <3> HIDE DEF x
    <3>4. Append(out, x) \in Seq(Cell) /\ Append(out, x) \o << >> = Append(out, x)
      BY <1>4, <3>2 DEF Cell
    <3>5. ~Open(out)
      BY <1>4, <2>1, ShapesDiffer
    <3>6. Broken(out')
      BY <1>4, <3>2, <3>3, <3>4, <3>5, PushShape
    <3>7. ~Alternating(out')
      BY <3>3, <3>4, <3>6, ShapeOfAlternating
    <3> QED
      BY <2>1, <2>2, <2>3, <3>7, ShapesLater DEF Shape, WellMade
  <2>4. CASE ~SingleBinding
    <3>1. out' = out
      BY <1>8, <2>4 DEF SingleAttr, SingleBinding, Stop
    <3>2. Alternating(out)
      BY <1>4, <2>1, ShapeOfAlternating
    <3> QED
      BY <2>1, <2>2, <2>4, <3>1, <3>2, ShapesLater DEF Shape, WellMade
  <2> QED
    BY <2>3, <2>4
<1>9. CASE PushBinding
  <2> DEFINE x == Node("Binding", B[i + 1].v)
  <2>1. pc = "target" /\ req.b.kind = "list" /\ i < m /\ B[i + 1] \in Atom /\ B[i + 1].kind = "binding"
    BY <1>3, <1>4, <1>9 DEF PushBinding, TargetLoop
  <2>2. x \in Item /\ Push(x, RestLen > i) /\ (RestLen > i) \in BOOLEAN
    BY <1>9, <2>1, AtomText, NodeType DEF PushBinding
  <2> HIDE DEF x
  <2>3. pc' = "target" /\ i' = i + 1 /\ req' = req /\ B' = B /\ m' = m
    BY <2>1, <2>2 DEF Push, B
  <2>4. /\ out' # << >>
        /\ Open(out) /\ RestLen > i => Open(out')
        /\ Open(out) /\ ~(RestLen > i) => Closed(out')
        /\ Closed(out) => Broken(out')
    BY <2>2, TurnShape
  <2>5. RestLen > i <=> i + 1 < m
    BY <1>3, <1>4, <2>1 DEF RestLen
  <2>6. CASE m = 1
    <3>1. i = 0 /\ i' = 1 /\ Closed(out)
      BY <1>3, <1>4, <1>5, <2>1, <2>3, <2>6 DEF TargetShape
    <3>2. Broken(out') /\ B[1].kind = "binding"
      BY <2>1, <2>4, <3>1
    <3> QED
      BY <1>3, <2>1, <2>3, <2>4, <2>6, <3>1, <3>2, ShapesLater DEF TargetShape, Shape, WellMade
  <2>7. CASE m > 1
    <3>1. Open(out)
      BY <1>3, <1>4, <1>5, <2>1, <2>7 DEF TargetShape
    <3>2. IF i' = m /\ B[m].kind = "binding" THEN Closed(out') ELSE Open(out')
      BY <1>3, <1>4, <2>1, <2>3, <2>4, <2>5, <3>1
    <3>3. i' <= m
      BY <1>3, <1>4, <2>1, <2>3
    <3>4. TargetShape'
      BY <1>3, <2>1, <2>3, <2>4, <2>7, <3>2, <3>3, ShapesLater DEF TargetShape
    <3> QED
      BY <2>3, <3>4 DEF Shape, WellMade
  <2>8. m = 1 \/ m > 1
    <3>1. m \in Nat /\ m # 0
      BY <1>3, <1>4, <2>1
    <3> HIDE DEF m
    <3> QED
      BY <3>1
  <2> QED
    BY <2>6, <2>7, <2>8, Zenon
<1>10. CASE SkipElement
  <2>1. pc = "target" /\ req.b.kind = "list" /\ i < m /\ B[i + 1].kind # "binding"
        /\ pc' = pc /\ i' = i + 1 /\ req' = req /\ out' = out /\ B' = B /\ m' = m
    BY <1>10 DEF SkipElement, TargetLoop, B
  <2>2. out # << >> /\ i' <= m /\ i' # 0 /\ m # 0
    BY <1>3, <1>4, <1>5, <2>1 DEF TargetShape
  <2>3. CASE m = 1
    <3>1. i = 0 /\ i' = 1 /\ Closed(out) /\ B[1].kind # "binding"
      BY <1>3, <1>4, <1>5, <2>1, <2>3 DEF TargetShape
    <3>2. TargetShape'
      BY <1>3, <2>1, <2>2, <2>3, <3>1, ShapesLater DEF TargetShape
    <3> QED
      BY <2>1, <3>2 DEF Shape, WellMade
  <2>4. CASE m > 1
    <3>1. Open(out)
      BY <1>3, <1>4, <1>5, <2>1, <2>4 DEF TargetShape
    <3>2. i' = m => B[m].kind # "binding"
      BY <1>3, <1>4, <2>1
    <3>3. TargetShape'
      BY <1>3, <2>1, <2>2, <2>4, <3>1, <3>2, ShapesLater DEF TargetShape
    <3> QED
      BY <2>1, <3>3 DEF Shape, WellMade
  <2>5. m = 1 \/ m > 1
    <3>1. m \in Nat /\ m # 0
      BY <1>3, <2>2
    <3> HIDE DEF m
    <3> QED
      BY <3>1
  <2> QED
    BY <2>3, <2>4, <2>5, Zenon
<1>11. CASE EndTarget
  <2>1. /\ TargetShape /\ req.b.kind = "list" /\ i = m
        /\ pc' = "made" /\ out' = out /\ req' = req
    BY <1>5, <1>11 DEF EndTarget, TargetLoop, Stop
  <2>2. CommasCountOut <=> \/ m = 0
                           \/ m = 1 /\ B[1].kind # "binding"
                           \/ m >= 2 /\ B[m].kind = "binding"
    BY <1>2, <2>1 DEF CommasCountOut
  <2>3. (Closed(out) => Alternating(out)) /\ (Open(out) => ~Alternating(out))
        /\ (Broken(out) => ~Alternating(out))
    BY <1>4, <2>1, ShapeOfAlternating DEF TargetShape
  <2>4. Alternating(out) <=> CommasCountOut
    BY <1>3, <2>1, <2>2, <2>3 DEF TargetShape
  <2>5. CommasCountOut' <=> CommasCountOut
    BY <2>1 DEF CommasCountOut, SingleBinding, Accepted, A, B
  <2> QED
    BY <2>1, <2>4, <2>5, ShapesLater DEF Shape, WellMade
<1> QED
  BY <1>6, <1>7, <1>8, <1>9, <1>10, <1>11

LEMMA ListKeepsShape ==
  ASSUME IInv, Shape,
         RefuseBinding \/ MakeBinding \/ Convert \/ PushItem \/ SkipItem
           \/ PushBlank \/ EndList
  PROVE  Shape'
<1>1. Start("binding") \/ Start("convert") \/ pc = "list"
  BY DEF RefuseBinding, MakeBinding, Convert, PushItem, SkipItem, PushBlank, EndList,
         ListLoop
<1>2. req.ctor \in {"binding", "convert"} /\ (pc = "list" /\ req.ctor = "binding" => req.a.kind # "atom")
  BY <1>1 DEF Start, IInv, LoopOwner
<1>3. /\ req \in Build /\ req.a \in Arg /\ Len(A) \in Nat
      /\ \A k \in 1 .. Len(A) : A[k] \in Atom
  BY <1>2, BuildType DEF IInv
<1>4. i \in Nat /\ out \in Seq(Cell)
  BY DEF IInv, TypeOK, Cell
<1>5. pc = "list" => ListShape
  BY DEF Shape
<1> DEFINE n == Len(A)
<1>6. CASE RefuseBinding
  BY <1>6, StopShape DEF RefuseBinding, Refuse
<1>7. CASE MakeBinding /\ req.a.kind = "atom"
  <2>1. pc' = "made" /\ req' = req /\ req.ctor = "binding" /\ out' = ValueOf(req.a.atom)
    BY <1>7 DEF MakeBinding, GoTo, Start
  <2>2. req.a.atom \in Atom
    BY <1>3, <1>7 DEF Arg
  <2>3. Alternating(out')
    <3>1. out' = << >> \/ \E x \in Item : out' = <<x>>
      BY <2>1, <2>2, ValueOfType
    <3>2. Alternating(<< >>)
      BY DEF Alternating
    <3>3. \A x \in Item : Alternating(<<x>>)
      BY ShapeOfFew, Zenon
    <3> QED
      BY <3>1, <3>2, <3>3
  <2>4. CommasCountOut'
    BY <1>7, <2>1 DEF CommasCountOut
  <2> QED
    BY <2>1, <2>3, <2>4, ShapesLater DEF Shape, WellMade
<1>8. CASE (MakeBinding /\ req.a.kind # "atom") \/ Convert
  <2>1. pc' = "list" /\ out' = << >> /\ i' = 0 /\ req' = req /\ A' = A
    BY <1>8 DEF MakeBinding, Convert, Start, GoTo, A
  <2>2. Open(<< >>)
    BY DEF Open, Patterned
  <2>3. ListShape'
    BY <1>3, <2>1, <2>2, ShapesLater DEF ListShape
  <2> QED
    BY <2>1, <2>3 DEF Shape, WellMade
<1>9. ASSUME NEW x \in Item, ListLoop, Push(x, n - i > 1), Pushes(i + 1) PROVE Shape'
  <2>1. pc = "list" /\ i < n
    BY <1>9 DEF ListLoop
  <2>2. pc' = "list" /\ i' = i + 1 /\ A' = A /\ n' = n /\ \A k \in 1 .. n : Pushes(k)' <=> Pushes(k)
    BY <1>9, <2>1 DEF Push, Pushes, Accepted, A
  <2>3. (n - i > 1) \in BOOLEAN
    OBVIOUS
  <2>4. /\ out' # << >>
        /\ Open(out) /\ n - i > 1 => Open(out')
        /\ Open(out) /\ ~(n - i > 1) => Closed(out')
    BY <1>9, <2>3, TurnShape
  <2>5. Open(out)
    BY <1>3, <1>4, <1>5, <2>1 DEF ListShape
  <2>6. n - i > 1 <=> i' # n
    BY <1>3, <1>4, <2>1, <2>2
  <2>7. i' \in 1 .. n /\ (i' = n => Pushes(n)) /\ i + 1 \in 1 .. n /\ i + 1 \in 1 .. i'
    BY <1>3, <1>4, <1>9, <2>1, <2>2
  <2>8. \E k \in 1 .. i' : Pushes(k)'
    BY <1>9, <2>2, <2>7
  <2>9. IF i' = n /\ n > 0 /\ Pushes(n) THEN Closed(out') ELSE Open(out')
    BY <1>3, <2>4, <2>5, <2>6, <2>7
  <2>10. ListShape'
    BY <1>3, <2>2, <2>4, <2>7, <2>8, <2>9, ShapesLater DEF ListShape
  <2> QED
    BY <2>2, <2>10 DEF Shape, WellMade
<1>10. CASE PushItem
  <2>1. pc = "list" /\ ListLoop /\ A[i + 1] \in Atom /\ A[i + 1].kind \in Accepted
    BY <1>3, <1>4, <1>10 DEF PushItem, ListLoop
  <2>2. req.ctor = "convert" \/ (req.ctor = "binding" /\ req.a.kind \in {"list", "vector"})
    BY <1>3, <2>1 DEF IInv, LoopOwner, Arg
  <2>3. A[i + 1].kind \in {"int", "str", "sym", "bool"}
    BY <2>1, <2>2 DEF Accepted
  <2>4. ItemOf(A[i + 1]) \in Item
    BY <2>1, <2>3, ItemOfType
  <2> QED
    BY <1>9, <1>10, <2>1, <2>4 DEF PushItem, Pushes
<1>11. CASE SkipItem
  <2>1. pc = "list" /\ i < n /\ ~Pushes(i + 1)
        /\ pc' = pc /\ i' = i + 1 /\ out' = out /\ A' = A /\ n' = n
        /\ \A k \in 1 .. n : Pushes(k)' <=> Pushes(k)
    BY <1>11 DEF SkipItem, ListLoop, Pushes, Accepted, A
  <2>2. Open(out) /\ (out = << >> <=> \A k \in 1 .. i : ~Pushes(k))
    BY <1>3, <1>4, <1>5, <2>1 DEF ListShape
  <2>3. i' \in 1 .. n /\ ~Pushes(i') /\ (i' = n => ~Pushes(n))
    BY <1>3, <1>4, <2>1
  <2>4. \A k \in 1 .. i' : k \in 1 .. i \/ k = i'
    BY <1>4, <2>1
  <2>5. \A k \in 1 .. i : k \in 1 .. i' /\ k \in 1 .. n
    BY <1>3, <1>4, <2>1
  <2>6. out' = << >> <=> \A k \in 1 .. i' : ~Pushes(k)'
    BY <2>1, <2>2, <2>3, <2>4, <2>5
  <2>7. ListShape'
    BY <1>3, <2>1, <2>2, <2>3, <2>6, ShapesLater DEF ListShape
  <2> QED
    BY <2>1, <2>7 DEF Shape, WellMade
<1>12. CASE PushBlank
  <2>1. Node("0", Junk) \in Item
    BY TextsAssumption, NodeType
  <2> QED
    BY <1>9, <1>12, <2>1 DEF PushBlank, Pushes
<1>13. CASE EndList
  <2>1. /\ ListShape /\ i = n /\ pc' = "made" /\ out' = out /\ req' = req
        /\ (req.ctor = "binding" => req.a.kind # "atom")
    BY <1>2, <1>5, <1>13 DEF EndList, Stop
  <2>2. (Closed(out) => Alternating(out)) /\ (Open(out) /\ out # << >> => ~Alternating(out))
        /\ Alternating(<< >>)
    BY <1>4, ShapeOfAlternating DEF Alternating
  <2>3. Alternating(out) <=> (\A k \in 1 .. n : ~Pushes(k)) \/ Pushes(n)
    BY <1>3, <2>1, <2>2 DEF ListShape
  <2>4. CASE req.ctor = "binding"
    <3>1. CommasCountOut <=> (\A k \in 1 .. n : ~Pushes(k)) \/ Pushes(n)
      BY <2>1, <2>4 DEF CommasCountOut, Pushes
    <3>2. CommasCountOut' <=> CommasCountOut
      BY <2>1 DEF CommasCountOut, SingleBinding, Accepted, A, B
    <3> QED
      BY <2>1, <2>3, <3>1, <3>2, ShapesLater DEF Shape, WellMade
  <2>5. CASE req.ctor = "convert"
    <3>1. Alternating(out)
      BY <2>3, <2>5 DEF Pushes
    <3>2. CommasCountOut'
      BY <2>1, <2>5 DEF CommasCountOut
    <3> QED
      BY <2>1, <3>1, <3>2, ShapesLater DEF Shape, WellMade
  <2> QED
    BY <1>2, <2>4, <2>5
<1> QED
  BY <1>6, <1>7, <1>8, <1>10, <1>11, <1>12, <1>13

LEMMA StringKeepsShape ==
  ASSUME IInv, RefuseString \/ MakeString
  PROVE  Shape'
<1>1. CASE RefuseString
  BY <1>1, StopShape DEF RefuseString, Refuse
<1>2. CASE MakeString
  <2>1. pc' = "made" /\ req'.ctor = "string" /\ \E x : out' = <<x>> /\ x # Comma
    <3>1. req.ctor = "string" /\ req.key.kind = "str"
      BY <1>2 DEF MakeString, Start, StringArgsOK
    <3>2. req \in StringCall
      BY <3>1, RequestsAssumption DEF IInv, TypeOK, Build
    <3>3. req.key.v \in Texts /\ Junk \in Texts
      BY <3>1, <3>2, AtomText, TextsAssumption DEF StringCall
    <3>4. PICK text \in {req.key.v, Junk} :
            GoTo("made", <<[tid |-> "STRING", v |-> text, q |-> QType]>>)
      BY <1>2 DEF MakeString
    <3>5. [tid |-> "STRING", v |-> text, q |-> QType] \in Item
      BY <3>3, <3>4 DEF Item, QType, QTypes
    <3> QED
      BY <3>1, <3>4, <3>5, CommaAssumption DEF GoTo
  <2>2. Alternating(out')
    BY <2>1 DEF Alternating
  <2>3. CommasCountOut'
    BY <2>1 DEF CommasCountOut
  <2> QED
    BY <2>1, <2>2, <2>3, ShapesLater DEF Shape, WellMade
<1> QED
  BY <1>1, <1>2

\* The arrays of items and commas that the constructors hand to the rest of
\* the program alternate exactly for the calls that CommasCountOut names.
THEOREM CommasRightForThese == Spec => []WellMade
<1>1. Init => Shape
  BY DEF Init, Shape, WellMade
<1>2. IInv /\ Shape /\ [Next]_vars => Shape'
  <2> SUFFICES ASSUME IInv, Shape, [Next]_vars PROVE Shape'
    OBVIOUS
  <2>1. CASE (\E r \in Requests : Receive(r)) \/ Return
    BY <2>1 DEF Receive, Return, Shape, WellMade
  <2>2. CASE RefuseLoad \/ BeginLoad \/ PushArg \/ PushNoString \/ BeginLoadAttrs
               \/ PushAttr \/ RefuseAttr \/ EndLoad
    BY <2>2, LoadKeepsShape
  <2>3. CASE RefuseTarget \/ BeginTarget \/ SingleAttr \/ PushBinding \/ SkipElement
               \/ EndTarget
    BY <2>3, TargetKeepsShape
  <2>4. CASE RefuseBinding \/ MakeBinding \/ Convert \/ PushItem \/ SkipItem
               \/ PushBlank \/ EndList
    BY <2>4, ListKeepsShape
  <2>5. CASE RefuseString \/ MakeString
    BY <2>5, StringKeepsShape
  <2>6. CASE UNCHANGED vars
    <3>1. (CommasCountOut' <=> CommasCountOut) /\ pc' = pc
      BY <2>6 DEF vars, CommasCountOut, SingleBinding, Accepted, A, B
    <3>2. WellMade'
      BY <2>6, <3>1, ShapesLater DEF vars, Shape, WellMade
    <3>3. (ArgsShape => ArgsShape') /\ (AttrsShape => AttrsShape')
      BY <2>6, ShapesLater DEF vars, ArgsShape, AttrsShape, A, B
    <3>4. TargetShape => TargetShape'
      BY <2>6, ShapesLater DEF vars, TargetShape, B
    <3>5. ListShape => ListShape'
      BY <2>6, ShapesLater DEF vars, ListShape, Pushes, Accepted, A
    <3> QED
      BY <3>1, <3>2, <3>3, <3>4, <3>5 DEF Shape
  <2> QED
    BY <2>1, <2>2, <2>3, <2>4, <2>5, <2>6 DEF Next, Turn
<1>3. Shape => WellMade
  BY DEF Shape
<1> QED
  BY <1>1, <1>2, <1>3, Invariant, PTL DEF Spec
=============================================================================
