-------------------------------- MODULE Ctors --------------------------------
(***************************************************************************)
(* The constructors: make-load, make-target, make-binding,                 *)
(* sunlark-make-string, and the conversion of a value into a list that     *)
(* set! falls back on.                                                     *)
(*                                                                         *)
(* Each builds an array of subnodes by pushing items and, by counting,     *)
(* commas: what stands between the parentheses or brackets is kept in out, *)
(* the other nodes are always the same.  A loop turn is a step.            *)
(***************************************************************************)
EXTENDS CommaList, KwIndex, Subsequences

CONSTANTS
  Texts,      \* contents of strings, names of symbols
  Cut,        \* what a buffer of 64 bytes keeps of a text
  Junk,       \* what is read from memory that holds no string
  Name,       \* the text "name"
  Requests    \* the calls a script may make

ASSUME TextsAssumption == Cut \in [Texts -> Texts] /\ Junk \in Texts /\ Name \in Texts

\* Strings are raw, binary, in single quotes or triple quotes, or not.
QTypes == SUBSET {"RAW_STR", "BINARY_STR", "SQUOTE", "TRIPLE"}

Item == [tid : {"INT", "STRING", "ID", "Binding", "node", "0"},
         v   : Texts \cup (IntMin .. -IntMin - 1),
         q   : QTypes]

ASSUME CommaAssumption == Comma \notin Item

Node(tid, v) == [tid |-> tid, v |-> v, q |-> {}]

\* An argument of a constructor, an element of a list or vector.
Atom == [kind : {"int"}, v : Int]
        \cup [kind : {"str", "sym", "bool", "binding", "node", "other"}, v : Texts]

Arg == [kind  : {"atom", "list", "vector"},
        atom  : Atom,
        elems : Seq(Atom)]

\* load: key, args, attrs; target: rule, name, attrs; binding: key, value;
\* convert: the node to be changed, the new value
Build == [ctor : {"load", "target", "binding", "convert"}, key : Atom, a : Arg, b : Arg]

StringCall == [ctor : {"string"}, key : Atom,
               t   : {"plain", "r", "b", "br", "rb", "other"},
               q   : {"dquote", "squote", "other"},
               qqq : {"#t", "#f", "other"}]

ASSUME RequestsAssumption ==
  /\ Requests # {}
  /\ \A r \in Requests :
       /\ r \in Build \cup StringCall
       /\ r.ctor = "convert" => r.a.kind # "atom"

VARIABLES
  pc,         \* where the call is
  req,        \* the call being served
  out,        \* the array built so far
  i           \* loop counter

vars == <<pc, req, out, i>>

-----------------------------------------------------------------------------
AnyRequest == CHOOSE r \in Requests : TRUE

Init ==
  /\ pc = "idle"
  /\ req = AnyRequest
  /\ out = << >>
  /\ i = 0

Receive(r) ==
  /\ pc = "idle"
  /\ pc' = "start"
  /\ req' = r
  /\ UNCHANGED <<out, i>>

\* The script gets the new node, or the error.
Return ==
  /\ pc \in {"made", "refused"}
  /\ pc' = "idle"
  /\ req' = AnyRequest
  /\ out' = << >>
  /\ i' = 0

GoTo(place, array) == pc' = place /\ out' = array /\ i' = 0 /\ UNCHANGED req

Stop(how) == pc' = how /\ UNCHANGED <<req, out, i>>

Refuse == Stop("refused")

\* The loop pushes an item, and a comma if the code counts that it must.
Push(item, comma) ==
  /\ out' = Append(out, item) \o (IF comma THEN <<Comma>> ELSE << >>)
  /\ i' = i + 1
  /\ UNCHANGED <<pc, req>>

Start(ctor) == pc = "start" /\ req.ctor = ctor

A == req.a.elems
B == req.b.elems

-----------------------------------------------------------------------------
(***************************************************************************)
(* sunlark_make_load                                                       *)
(***************************************************************************)
LoadArgsOK == req.key.kind = "str" /\ req.a.kind = "list" /\ req.b.kind = "list"

RefuseLoad == Start("load") /\ ~LoadArgsOK /\ Refuse

BeginLoad ==
  /\ Start("load")
  /\ LoadArgsOK
  /\ GoTo("args", <<Node("STRING", req.key.v), Comma>>)

PushArg ==
  /\ pc = "args"
  /\ i < Len(A)
  /\ A[i + 1].kind = "str"
  /\ Push(Node("STRING", A[i + 1].v), i < Len(A) - 1)

\* The text is taken from the argument without asking whether it has one.
PushNoString ==
  /\ pc = "args"
  /\ i < Len(A)
  /\ A[i + 1].kind # "str"
  /\ Push(Node("STRING", Junk), i < Len(A) - 1) \/ Stop("crashed")

\* Both numbers are one less than there are.
BeginLoadAttrs ==
  /\ pc = "args"
  /\ i = Len(A)
  /\ GoTo("attrs", out \o (IF Len(A) - 1 > 0 /\ Len(B) - 1 > 0 THEN <<Comma>> ELSE << >>))

\* The comma depends on the number of arguments.  A node that is no binding
\* is stopped by an assertion if there are assertions.
PushAttr ==
  /\ pc = "attrs"
  /\ i < Len(B)
  /\ \/ B[i + 1].kind = "binding" /\ Push(Node("Binding", B[i + 1].v), i < Len(A) - 1)
     \/ B[i + 1].kind = "node" /\ Push(Node("node", B[i + 1].v), i < Len(A) - 1)
     \/ B[i + 1].kind = "node" /\ Stop("crashed")

RefuseAttr ==
  /\ pc = "attrs"
  /\ i < Len(B)
  /\ B[i + 1].kind \notin {"binding", "node"}
  /\ Refuse \/ Stop("crashed")

EndLoad == pc = "attrs" /\ i = Len(B) /\ Stop("made")

-----------------------------------------------------------------------------
(***************************************************************************)
(* sunlark_make_target                                                     *)
(***************************************************************************)
TargetArgsOK == req.key.kind = "sym" /\ req.a.kind = "atom" /\ req.a.atom.kind = "str"

RefuseTarget == Start("target") /\ ~TargetArgsOK /\ Refuse

NameBinding == Node("Binding", Name)

\* s7_list_length is 0 for what is no list.
RestLen == (IF req.b.kind = "list" THEN Len(B) ELSE 0) - 1

BeginTarget ==
  /\ Start("target")
  /\ TargetArgsOK
  /\ GoTo("target", <<NameBinding>> \o (IF RestLen > 0 THEN <<Comma>> ELSE << >>))

\* One binding instead of a list of them; anything else is passed over.
SingleAttr ==
  /\ pc = "target"
  /\ req.b.kind # "list"
  /\ IF req.b.kind = "atom" /\ req.b.atom.kind = "binding"
       THEN GoTo("made", Append(out, Node("Binding", req.b.atom.v)))
       ELSE Stop("made")

TargetLoop == pc = "target" /\ req.b.kind = "list"

PushBinding ==
  /\ TargetLoop
  /\ i < Len(B)
  /\ B[i + 1].kind = "binding"
  /\ Push(Node("Binding", B[i + 1].v), RestLen > i)

\* slip: the element is passed over, and the loop stands still
SkipElementStuck ==
  /\ TargetLoop
  /\ i < Len(B)
  /\ B[i + 1].kind # "binding"
  /\ UNCHANGED vars

SkipElement ==
  /\ TargetLoop
  /\ i < Len(B)
  /\ B[i + 1].kind # "binding"
  /\ i' = i + 1
  /\ UNCHANGED <<pc, req, out>>

EndTarget == TargetLoop /\ i = Len(B) /\ Stop("made")

-----------------------------------------------------------------------------
(***************************************************************************)
(* sunlark_make_binding: out is its value, one item or the items of a      *)
(* list.  A value of no known kind leaves a binding without one.           *)
(***************************************************************************)
RefuseBinding == Start("binding") /\ req.key.kind # "sym" /\ Refuse

ValueOf(atom) ==
  CASE atom.kind = "int"            -> <<Node("INT", CInt(atom.v))>>
    [] atom.kind = "str"            -> <<Node("STRING", atom.v)>>
    [] atom.kind \in {"sym", "bool"} -> <<Node("ID", atom.v)>>
    [] atom.kind = "binding"        -> <<Node("Binding", atom.v)>>
    [] atom.kind = "node"           -> <<Node("node", atom.v)>>
    [] OTHER                        -> << >>

MakeBinding ==
  /\ Start("binding")
  /\ req.key.kind = "sym"
  /\ IF req.a.kind = "atom" THEN GoTo("made", ValueOf(req.a.atom)) ELSE GoTo("list", << >>)

\* sunlark_convert_node_to_list_expr empties the node first
Convert == Start("convert") /\ GoTo("list", << >>)

ListLoop == pc = "list" /\ i < Len(A)

\* The loop over a list forgets booleans.
Accepted ==
  CASE req.ctor = "convert"                            -> {"int", "str"}
    [] req.ctor = "binding" /\ req.a.kind = "list"      -> {"int", "str", "sym"}
    [] req.ctor = "binding" /\ req.a.kind = "vector"    -> {"int", "str", "sym", "bool"}

\* slip: the number is not cut to an int
ItemOfWide(atom) ==
  IF atom.kind = "int" THEN Node("INT", atom.v)
  ELSE IF atom.kind = "sym" THEN Node("ID", Cut[atom.v])
  ELSE ValueOf(atom)[1]

ItemOf(atom) ==
  IF atom.kind = "sym" THEN Node("ID", Cut[atom.v]) ELSE ValueOf(atom)[1]

\* slip: off by one, no comma before the last item
PushItemComma ==
  /\ ListLoop
  /\ A[i + 1].kind \in Accepted
  /\ Push(ItemOf(A[i + 1]), Len(A) - i > 2)

\* slip: the loop reads the element before
PushItemLate ==
  /\ ListLoop
  /\ A[i + 1].kind \in Accepted
  /\ Push(ItemOf(A[IF i > 0 /\ A[i].kind \in Accepted THEN i ELSE i + 1]), Len(A) - i > 1)

PushItem ==
  /\ ListLoop
  /\ A[i + 1].kind \in Accepted
  /\ Push(ItemOf(A[i + 1]), Len(A) - i > 1)

\* slip: a comma is pushed for an item that is not
SkipItemComma ==
  /\ ListLoop
  /\ A[i + 1].kind \notin Accepted
  /\ req.ctor = "binding"
  /\ out' = Append(out, Comma)
  /\ i' = i + 1
  /\ UNCHANGED <<pc, req>>

SkipItem ==
  /\ ListLoop
  /\ A[i + 1].kind \notin Accepted
  /\ req.ctor = "binding"
  /\ i' = i + 1
  /\ UNCHANGED <<pc, req, out>>

\* The conversion pushes an empty node for what it does not know.
PushBlank ==
  /\ ListLoop
  /\ A[i + 1].kind \notin Accepted
  /\ req.ctor = "convert"
  /\ Push(Node("0", Junk), Len(A) - i > 1)

EndList == pc = "list" /\ i = Len(A) /\ Stop("made")

-----------------------------------------------------------------------------
(***************************************************************************)
(* sunlark_make_string.  The copy has no end of its own.                   *)
(***************************************************************************)
StringArgsOK ==
  req.key.kind = "str" /\ req.t # "other" /\ req.q # "other" /\ req.qqq # "other"

QType ==
  (IF req.t \in {"r", "br", "rb"} THEN {"RAW_STR"} ELSE {})
  \cup (IF req.t \in {"b", "br", "rb"} THEN {"BINARY_STR"} ELSE {})
  \cup (IF req.q = "squote" THEN {"SQUOTE"} ELSE {})
  \cup (IF req.qqq = "#t" THEN {"TRIPLE"} ELSE {})

RefuseString == Start("string") /\ ~StringArgsOK /\ Refuse

MakeString ==
  /\ Start("string")
  /\ StringArgsOK
  /\ \E text \in {req.key.v, Junk} :
       GoTo("made", <<[tid |-> "STRING", v |-> text, q |-> QType]>>)

-----------------------------------------------------------------------------
Turn ==
  \/ RefuseLoad \/ BeginLoad \/ PushArg \/ PushNoString \/ BeginLoadAttrs
  \/ PushAttr \/ RefuseAttr \/ EndLoad
  \/ RefuseTarget \/ BeginTarget \/ SingleAttr \/ PushBinding \/ SkipElement \/ EndTarget
  \/ RefuseBinding \/ MakeBinding \/ Convert
  \/ PushItem \/ SkipItem \/ PushBlank \/ EndList
  \/ RefuseString \/ MakeString \/ Return

Next == (\E r \in Requests : Receive(r)) \/ Turn

\* Single threaded: a call once begun runs on; nothing makes a script call.
Spec == Init /\ [][Next]_vars /\ WF_vars(Turn)

-----------------------------------------------------------------------------
(***************************************************************************)
(* Properties                                                              *)
(***************************************************************************)

\* The types of the variables.
TypeOK ==
  /\ pc \in {"idle", "start", "args", "attrs", "target", "list", "made", "refused", "crashed"}
  /\ req \in Requests
  /\ out \in Seq(Item \cup {Comma})
  /\ i \in Nat

WithoutCommas(s) == Selected(s, {k \in 1 .. Len(s) : s[k] # Comma})

Kept(elems, kinds) == Selected(elems, {k \in 1 .. Len(elems) : elems[k].kind \in kinds})

\* The item that stands for an argument, an attribute, a value in a list.
TextItem(e) == Node("STRING", IF e.kind = "str" THEN e.v ELSE Junk)
AttrItem(e) == Node(IF e.kind = "binding" THEN "Binding" ELSE "node", e.v)
ValueItem(e) == IF e.kind \in Accepted THEN ItemOf(e) ELSE Node("0", Junk)

TextItems(elems)  == [k \in 1 .. Len(elems) |-> TextItem(elems[k])]
AttrItems(elems)  == [k \in 1 .. Len(elems) |-> AttrItem(elems[k])]
ValueItems(elems) == [k \in 1 .. Len(elems) |-> ValueItem(elems[k])]

\* The only attribute of a target, when it is not given in a list.
SingleBinding == req.b.kind = "atom" /\ req.b.atom.kind = "binding"

\* The items the constructor must have pushed by now.
Due ==
  CASE pc = "args" ->
         <<Node("STRING", req.key.v)>> \o TextItems(SubSeq(A, 1, i))
    [] pc # "args" /\ req.ctor = "load" ->
         <<Node("STRING", req.key.v)>> \o TextItems(A) \o AttrItems(SubSeq(B, 1, i))
    [] req.ctor = "target" /\ req.b.kind = "list" ->
         <<NameBinding>> \o AttrItems(Kept(SubSeq(B, 1, i), {"binding"}))
    [] req.ctor = "target" /\ req.b.kind # "list" ->
         <<NameBinding>>
           \o (IF pc = "made" /\ SingleBinding THEN <<AttrItem(req.b.atom)>> ELSE << >>)
    [] req.ctor = "binding" /\ req.a.kind # "atom" ->
         ValueItems(Kept(SubSeq(A, 1, i), Accepted))
    [] req.ctor = "convert" ->
         ValueItems(SubSeq(A, 1, i))
    [] OTHER -> WithoutCommas(out)

\* At every turn of every loop, the array holds what was given to the
\* constructor so far, in that order and nothing twice: what is passed over
\* moves no counter that decides where the rest goes.
ItemsInOrder ==
  pc \in {"args", "attrs", "target", "list", "made"} => WithoutCommas(out) = Due

\* No comma comes first or follows another, whatever is passed over.
CommaBehindItem ==
  \A k \in 1 .. Len(out) : out[k] = Comma => k > 1 /\ out[k - 1] # Comma

\* The calls for which the counting of commas comes out right.
CommasCountOut ==
  CASE req.ctor = "load" ->
         \/ Len(A) = 0 /\ Len(B) = 1
         \/ Len(A) >= 1 /\ Len(B) = 0
         \/ Len(A) >= 2 /\ Len(B) = Len(A)
    [] req.ctor = "target" /\ req.b.kind = "list" ->
         \/ Len(B) = 0
         \/ Len(B) = 1 /\ B[1].kind # "binding"
         \/ Len(B) >= 2 /\ B[Len(B)].kind = "binding"
    [] req.ctor = "target" /\ req.b.kind # "list" ->
         ~SingleBinding
    [] req.ctor = "binding" /\ req.a.kind # "atom" ->
         \/ \A k \in 1 .. Len(A) : A[k].kind \notin Accepted
         \/ A[Len(A)].kind \in Accepted
    [] OTHER -> TRUE

\* What every consumer of an array relies on, and what editing presupposes,
\* that items and commas alternate, holds of a constructed node exactly for
\* these calls; for a target, exactly one attribute is one too few.
WellMade == pc = "made" => (Alternating(out) <=> CommasCountOut)

\* Every call comes back to the script, unless it kills the program.
CallReturns == pc = "start" ~> pc \in {"idle", "crashed"}
=============================================================================
