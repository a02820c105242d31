----------------------------- MODULE LoadProofs -----------------------------
(***************************************************************************)
(* Theorems about LoadStmts, for every set of texts, every set of calls,   *)
(* every parsed package and every width of int.                            *)
(***************************************************************************)
EXTENDS LoadRefinement, SequenceLemmas

\* Outside a splice the locals are reset and old is what the package has; a
\* call has no outcome before it returns.
AtRest ==
  /\ pc # "splice" => n = 0 /\ old = stmts
  /\ pc \in {"dispatch", "splice"} => outcome = "none"

\* The list a splice edits is there: its statement was found.
ListExists == pc = "splice" => Level = "load" \/ StmtPlace \in 1 .. Len(old)

\* The inductive invariant.
IInv == TypeOK /\ SpliceInPlace /\ AtRest /\ ListExists

-----------------------------------------------------------------------------
LEMMA AnyRequestType == AnyRequest \in Requests
  BY RequestsAssumption DEF AnyRequest

\* The parts of a request.
LEMMA RequestType ==
  ASSUME TypeOK
  PROVE  /\ Path \in Seq(Step) /\ Sel \in Step /\ Val \in Value
         /\ Val.s \in Texts /\ Val.b \in Binding /\ Val.st \in Stmt
         /\ Elems \in Seq(Elem) /\ Len(Elems) \in Nat
         /\ \A i \in 1 .. Len(Elems) : Elems[i] \in Elem
<1>1. req \in Request
  BY RequestsAssumption DEF TypeOK
<1>2. Path \in Seq(Step) /\ Sel \in Step /\ Val \in Value
  BY <1>1 DEF Request, Path, Sel, Val
<1>3. Val.s \in Texts /\ Val.b \in Binding /\ Val.st \in Stmt /\ Elems \in Seq(Elem)
  BY <1>2 DEF Value, Elems
<1> QED
  BY <1>2, <1>3

LEMMA KwIndexType == ASSUME NEW step \in Step PROVE KwIndex(step) \in Int
<1>1. step.n \in Int
  BY DEF Step
<1>2. CInt(step.n) \in Int
  BY <1>1, IntMinAssumption DEF CInt
<1> QED
  BY <1>1, <1>2 DEF KwIndex

LEMMA NormalizeType ==
  ASSUME NEW ct \in Int, NEW i \in Int PROVE Normalize(ct, i) \in Int
  BY IntMinAssumption DEF Normalize, CAbs

LEMMA KeysType ==
  ASSUME NEW S \in {Stmt, Binding}, NEW l \in Seq(S)
  PROVE  KeysOf(l) \in Seq(Texts) /\ Len(KeysOf(l)) = Len(l)
<1>1. ASSUME NEW i \in 1 .. Len(l) PROVE l[i].key \in Texts
  <2>1. l[i] \in S
    OBVIOUS
  <2>2. CASE S = Stmt
    BY <2>1, <2>2 DEF Stmt
  <2>3. CASE S = Binding
    BY <2>1, <2>3 DEF Binding
  <2> QED
    BY <2>2, <2>3
<1> QED
  BY <1>1 DEF KeysOf

\* The first entry of a name.
LEMMA FirstOfName ==
  ASSUME NEW names \in Seq(Texts), NEW name,
         {i \in 1 .. Len(names) : names[i] = name} # {}
  PROVE  Min({i \in 1 .. Len(names) : names[i] = name}) \in
           {i \in 1 .. Len(names) : names[i] = name}
<1> DEFINE I == {i \in 1 .. Len(names) : names[i] = name}
<1>1. I \in SUBSET Nat
  OBVIOUS
<1> HIDE DEF I
<1>2. I # {}
  BY DEF I
<1>3. \E k \in I : \A j \in I : k <= j
  BY <1>1, <1>2, LeastElement
<1>4. Min(I) \in I
  BY <1>3 DEF Min
<1> QED
  BY <1>4 DEF I

\* Where a step leads is a place of the list, or none; a step that names an
\* entry is a text.
LEMMA PlaceType ==
  ASSUME NEW step \in Step, NEW names \in Seq(Texts)
  PROVE  /\ PlaceIn(step, names) \in 0 .. Len(names)
         /\ ~IsIndex(step) /\ PlaceIn(step, names) # 0 => step.s \in Texts
<1>1. CASE IsIndex(step)
  <2>1. Len(names) \in Nat /\ Normalize(Len(names), KwIndex(step)) \in Int
    BY KwIndexType, NormalizeType
  <2> QED
    BY <1>1, <2>1 DEF PlaceIn
<1>2. CASE ~IsIndex(step)
  <2> DEFINE I == {i \in 1 .. Len(names) : names[i] = step.s}
  <2>1. PlaceIn(step, names) = IF I # {} THEN Min(I) ELSE 0
    BY <1>2 DEF PlaceIn, SelectInSeq
  <2>2. I # {} => Min(I) \in I
    BY FirstOfName
  <2>3. I # {} => Min(I) \in 1 .. Len(names) /\ names[Min(I)] = step.s
    BY <2>2
  <2>4. I # {} => step.s \in Texts
    BY <2>3
  <2> HIDE DEF I
  <2> QED
    BY <1>2, <2>1, <2>3, <2>4
<1> QED
  BY <1>1, <1>2

\* What a number leads to depends on the length of the list only.
LEMMA PlaceByLength ==
  ASSUME NEW step, NEW l, NEW m, IsIndex(step), Len(KeysOf(l)) = Len(KeysOf(m))
  PROVE  PlaceIn(step, KeysOf(l)) = PlaceIn(step, KeysOf(m))
  BY DEF PlaceIn

LEMMA StmtPlaceType ==
  ASSUME TypeOK, Path # << >>
  PROVE  /\ StmtPlace \in 0 .. Len(stmts)
         /\ RemovalPlace \in 0 .. Len(stmts)
         /\ Path[1] \in Step
<1>1. Path[1] \in Step
  BY RequestType
<1>2. stmts \in Seq(Stmt)
  BY DEF TypeOK
<1>3. KeysOf(stmts) \in Seq(Texts) /\ Len(KeysOf(stmts)) = Len(stmts)
  BY <1>2, KeysType
<1>4. PlaceIn(Path[1], KeysOf(stmts)) \in 0 .. Len(stmts)
  BY <1>1, <1>3, PlaceType
<1> QED
  BY <1>1, <1>2, <1>4 DEF StmtPlace, RemovalPlace

\* The places of the parts of a statement.
LEMMA PartPlaceType ==
  ASSUME NEW s \in Seq(Stmt), NEW p \in 1 .. Len(s), NEW step \in Step
  PROVE  /\ PlaceIn(step, s[p].args) \in 0 .. Len(s[p].args)
         /\ PlaceIn(step, KeysOf(s[p].attrs)) \in 0 .. Len(s[p].attrs)
<1>1. s[p].args \in Seq(Texts) /\ s[p].attrs \in Seq(Binding)
  <2>1. s[p] \in Stmt
    OBVIOUS
  <2> QED
    BY <2>1 DEF Stmt
<1>2. KeysOf(s[p].attrs) \in Seq(Texts) /\ Len(KeysOf(s[p].attrs)) = Len(s[p].attrs)
  BY <1>1, KeysType
<1> QED
  BY <1>1, <1>2, PlaceType

-----------------------------------------------------------------------------
(***************************************************************************)
(* The list an edit works on, as a function of the level and the place of  *)
(* its statement.                                                          *)
(***************************************************************************)
Levels == {"load", "str", "binding"}

Entries(level) ==
  CASE level = "load" -> Stmt
    [] level = "str"  -> Texts
    [] OTHER          -> Binding

ListAt(level, p, s) ==
  CASE level = "load" -> s
    [] level = "str"  -> s[p].args
    [] OTHER          -> s[p].attrs

WithAt(level, p, s, l) ==
  CASE level = "load" -> l
    [] level = "str"  -> [s EXCEPT ![p].args = l]
    [] OTHER          -> [s EXCEPT ![p].attrs = l]

LEMMA LevelType == Level \in Levels
  BY DEF Level, Levels

LEMMA ListIsListAt ==
  ASSUME NEW s, NEW l
  PROVE  ListIn(s) = ListAt(Level, StmtPlace, s) /\ With(s, l) = WithAt(Level, StmtPlace, s, l)
  BY DEF ListIn, With, ListAt, WithAt

\* A statement with another part is a statement.
NewArgs(s, p, l) == [s EXCEPT ![p].args = l]

NewAttrs(s, p, l) == [s EXCEPT ![p].attrs = l]

LEMMA NewArgsLaws ==
  ASSUME NEW s \in Seq(Stmt), NEW p \in 1 .. Len(s)
  PROVE  /\ s[p].args \in Seq(Texts)
         /\ NewArgs(s, p, s[p].args) = s
         /\ \A l \in Seq(Texts) :
              /\ NewArgs(s, p, l) \in Seq(Stmt)
              /\ NewArgs(s, p, l)[p].args = l
              /\ Len(NewArgs(s, p, l)) = Len(s)
              /\ \A m \in Seq(Texts) : NewArgs(NewArgs(s, p, l), p, m) = NewArgs(s, p, m)
<1>1. s[p] \in Stmt /\ s[p].args \in Seq(Texts)
  <2>1. s[p] \in Stmt
    OBVIOUS
  <2> QED
    BY <2>1 DEF Stmt
<1>2. [s EXCEPT ![p].args = s[p].args] = s
  <2>1. [s[p] EXCEPT !.args = s[p].args] = s[p]
    BY <1>1 DEF Stmt
  <2> QED
    BY <1>1, <2>1
<1>3. ASSUME NEW l \in Seq(Texts)
      PROVE  /\ NewArgs(s, p, l) \in Seq(Stmt)
             /\ NewArgs(s, p, l)[p].args = l
             /\ Len(NewArgs(s, p, l)) = Len(s)
             /\ \A m \in Seq(Texts) : NewArgs(NewArgs(s, p, l), p, m) = NewArgs(s, p, m)
  <2>1. [s EXCEPT ![p].args = l] \in Seq(Stmt)
    <3>1. [s[p] EXCEPT !.args = l] \in Stmt
      BY <1>1 DEF Stmt
    <3> QED
      BY <3>1
  <2>2. [s EXCEPT ![p].args = l][p].args = l
    BY <1>1 DEF Stmt
  <2>3. Len([s EXCEPT ![p].args = l]) = Len(s)
    BY <1>1
  <2>4. ASSUME NEW m \in Seq(Texts)
        PROVE  [[s EXCEPT ![p].args = l] EXCEPT ![p].args = m] = [s EXCEPT ![p].args = m]
    <3>1. [[s[p] EXCEPT !.args = l] EXCEPT !.args = m] = [s[p] EXCEPT !.args = m]
      BY <1>1 DEF Stmt
    <3> QED
      BY <1>1, <3>1
  <2> QED
    BY <2>1, <2>2, <2>3, <2>4 DEF NewArgs
<1> QED
  BY <1>1, <1>2, <1>3 DEF NewArgs

LEMMA NewAttrsLaws ==
  ASSUME NEW s \in Seq(Stmt), NEW p \in 1 .. Len(s)
  PROVE  /\ s[p].attrs \in Seq(Binding)
         /\ NewAttrs(s, p, s[p].attrs) = s
         /\ \A l \in Seq(Binding) :
              /\ NewAttrs(s, p, l) \in Seq(Stmt)
              /\ NewAttrs(s, p, l)[p].attrs = l
              /\ Len(NewAttrs(s, p, l)) = Len(s)
              /\ \A m \in Seq(Binding) : NewAttrs(NewAttrs(s, p, l), p, m) = NewAttrs(s, p, m)
<1>1. s[p] \in Stmt /\ s[p].attrs \in Seq(Binding)
  <2>1. s[p] \in Stmt
    OBVIOUS
  <2> QED
    BY <2>1 DEF Stmt
<1>2. [s EXCEPT ![p].attrs = s[p].attrs] = s
  <2>1. [s[p] EXCEPT !.attrs = s[p].attrs] = s[p]
    BY <1>1 DEF Stmt
  <2> QED
    BY <1>1, <2>1
<1>3. ASSUME NEW l \in Seq(Binding)
      PROVE  /\ NewAttrs(s, p, l) \in Seq(Stmt)
             /\ NewAttrs(s, p, l)[p].attrs = l
             /\ Len(NewAttrs(s, p, l)) = Len(s)
             /\ \A m \in Seq(Binding) : NewAttrs(NewAttrs(s, p, l), p, m) = NewAttrs(s, p, m)
  <2>1. [s EXCEPT ![p].attrs = l] \in Seq(Stmt)
    <3>1. [s[p] EXCEPT !.attrs = l] \in Stmt
      BY <1>1 DEF Stmt
    <3> QED
      BY <3>1
  <2>2. [s EXCEPT ![p].attrs = l][p].attrs = l
    BY <1>1 DEF Stmt
  <2>3. Len([s EXCEPT ![p].attrs = l]) = Len(s)
    BY <1>1
  <2>4. ASSUME NEW m \in Seq(Binding)
        PROVE  [[s EXCEPT ![p].attrs = l] EXCEPT ![p].attrs = m] = [s EXCEPT ![p].attrs = m]
    <3>1. [[s[p] EXCEPT !.attrs = l] EXCEPT !.attrs = m] = [s[p] EXCEPT !.attrs = m]
      BY <1>1 DEF Stmt
    <3> QED
      BY <1>1, <3>1
  <2> QED
    BY <2>1, <2>2, <2>3, <2>4 DEF NewAttrs
<1> QED
  BY <1>1, <1>2, <1>3 DEF NewAttrs

\* A list of the package is a list of entries, and putting it back changes
\* nothing.
LEMMA ListLaws ==
  ASSUME NEW level \in Levels, NEW s \in Seq(Stmt), NEW p,
         level = "load" \/ p \in 1 .. Len(s)
  PROVE  /\ ListAt(level, p, s) \in Seq(Entries(level))
         /\ WithAt(level, p, s, ListAt(level, p, s)) = s
<1>1. CASE level = "load"
  BY <1>1 DEF ListAt, WithAt, Entries
<1>2. CASE level = "str"
  <2>1. s[p].args \in Seq(Texts) /\ NewArgs(s, p, s[p].args) = s
    BY <1>2, NewArgsLaws
  <2> QED
    BY <1>2, <2>1 DEF Entries, ListAt, WithAt, NewArgs
<1>3. CASE level = "binding"
  <2>1. s[p].attrs \in Seq(Binding) /\ NewAttrs(s, p, s[p].attrs) = s
    BY <1>3, NewAttrsLaws
  <2> QED
    BY <1>3, <2>1 DEF Entries, ListAt, WithAt, NewAttrs
<1> QED
  BY <1>1, <1>2, <1>3 DEF Levels

\* What is put into the package can be read from it, and replaces what was
\* put there before.
LEMMA WithLaws ==
  ASSUME NEW level \in Levels, NEW s \in Seq(Stmt), NEW p,
         level = "load" \/ p \in 1 .. Len(s),
         NEW l \in Seq(Entries(level)), NEW m \in Seq(Entries(level))
  PROVE  /\ WithAt(level, p, s, l) \in Seq(Stmt)
         /\ ListAt(level, p, WithAt(level, p, s, l)) = l
         /\ level # "load" => Len(WithAt(level, p, s, l)) = Len(s)
         /\ WithAt(level, p, WithAt(level, p, s, l), m) = WithAt(level, p, s, m)
<1>1. CASE level = "load"
  BY <1>1 DEF ListAt, WithAt, Entries
<1>2. CASE level = "str"
  <2>1. p \in 1 .. Len(s) /\ l \in Seq(Texts) /\ m \in Seq(Texts)
    BY <1>2 DEF Entries
  <2>2. /\ NewArgs(s, p, l) \in Seq(Stmt) /\ NewArgs(s, p, l)[p].args = l
        /\ Len(NewArgs(s, p, l)) = Len(s)
        /\ NewArgs(NewArgs(s, p, l), p, m) = NewArgs(s, p, m)
    BY <2>1, NewArgsLaws
  <2>3. /\ \A t : ListAt(level, p, t) = t[p].args
        /\ \A t, x : WithAt(level, p, t, x) = NewArgs(t, p, x)
    BY <1>2 DEF ListAt, WithAt, NewArgs
  <2> QED
    BY <2>2, <2>3
<1>3. CASE level = "binding"
  <2>1. p \in 1 .. Len(s) /\ l \in Seq(Binding) /\ m \in Seq(Binding)
    BY <1>3 DEF Entries
  <2>2. /\ NewAttrs(s, p, l) \in Seq(Stmt) /\ NewAttrs(s, p, l)[p].attrs = l
        /\ Len(NewAttrs(s, p, l)) = Len(s)
        /\ NewAttrs(NewAttrs(s, p, l), p, m) = NewAttrs(s, p, m)
    BY <2>1, NewAttrsLaws
  <2>3. /\ \A t : ListAt(level, p, t) = t[p].attrs
        /\ \A t, x : WithAt(level, p, t, x) = NewAttrs(t, p, x)
    BY <1>3 DEF ListAt, WithAt, NewAttrs
  <2> QED
    BY <2>2, <2>3
<1> QED
  BY <1>1, <1>2, <1>3 DEF Levels

LEMMA ListInType ==
  ASSUME NEW s \in Seq(Stmt), Level = "load" \/ StmtPlace \in 1 .. Len(s)
  PROVE  ListIn(s) \in Seq(Entries(Level))
<1>1. PICK level, p : level = Level /\ p = StmtPlace
  OBVIOUS
<1>2. level \in Levels /\ (level = "load" \/ p \in 1 .. Len(s))
  BY <1>1, LevelType
<1>3. ListAt(level, p, s) \in Seq(Entries(level))
  BY <1>2, ListLaws
<1> QED
  BY <1>1, <1>3, ListIsListAt

-----------------------------------------------------------------------------
(***************************************************************************)
(* The ways a call goes on.                                                *)
(***************************************************************************)
LEMMA ReturnKeeps ==
  ASSUME NEW s \in Seq(Stmt), NEW out \in {"none", "ok", "error"}, Return(s, out)
  PROVE  IInv'
<1>1. TypeOK'
  BY AnyRequestType DEF Return, TypeOK
<1> QED
  BY <1>1 DEF Return, IInv, AtRest, SpliceInPlace, ListExists

LEMMA RefuseKeeps == ASSUME IInv, Refuse PROVE IInv'
  BY ReturnKeeps DEF Refuse, IInv, TypeOK

\* A splice begins with the package as the call found it.
LEMMA BeginSpliceKeeps ==
  ASSUME IInv, pc = "dispatch", NEW index \in Int,
         Level = "load" \/ StmtPlace \in 1 .. Len(stmts), BeginSpliceAt(index)
  PROVE  IInv'
<1> DEFINE ct == Len(ListIn(stmts))
<1>1. CASE NormalizeFails(ct, index)
  BY <1>1, RefuseKeeps DEF BeginSpliceAt
<1>2. CASE ~NormalizeFails(ct, index)
  <2>1. /\ pc' = "splice" /\ UNCHANGED <<stmts, req, old, n, outcome>>
        /\ at' = Normalize(ct, index) + (IF Val.kind = "list" THEN 0 ELSE 1)
    BY <1>2 DEF BeginSpliceAt
  <2>2. n = 0 /\ old = stmts /\ outcome = "none"
    BY DEF IInv, AtRest
  <2>3. ct \in Int
    <3>1. stmts \in Seq(Stmt)
      BY DEF IInv, TypeOK
    <3>2. ListIn(stmts) \in Seq(Entries(Level))
      BY <3>1, ListInType
    <3> QED
      BY <3>2
  <2>4. at' \in Int
    <3>1. Normalize(ct, index) \in Int
      BY <2>3, NormalizeType
    <3> HIDE DEF ct
    <3> QED
      BY <2>1, <3>1
  <2>5. TypeOK'
    BY <2>1, <2>4 DEF IInv, TypeOK
  <2>6. Level' = Level /\ StmtPlace' = StmtPlace /\ Elems' = Elems
    BY <2>1 DEF Level, StmtPlace, ArgPath, Elems, Val, Path
  <2>7. Len(Elems) \in Nat
    BY RequestType DEF IInv
  <2>8. SpliceInPlace'
    BY <2>1, <2>2, <2>6, <2>7 DEF SpliceInPlace
  <2>9. AtRest' /\ ListExists'
    BY <2>1, <2>2, <2>6 DEF AtRest, ListExists
  <2> QED
    BY <2>5, <2>8, <2>9 DEF IInv
<1> QED
  BY <1>1, <1>2

LEMMA IndexOfType ==
  ASSUME IInv, NEW k \in Int PROVE IndexOf(k) \in Int
  BY RequestType, KwIndexType DEF IInv, IndexOf

-----------------------------------------------------------------------------
(***************************************************************************)
(* The dispatch.                                                           *)
(***************************************************************************)
LEMMA DispatchPc == ASSUME Dispatch PROVE pc = "dispatch"
  BY DEF Dispatch, ReplaceStmt, ReplaceStmtByNode, BeginStmtSplice, RefuseOnPackage,
     RefuseStmtStep, ReplaceArg, BeginArgSplice, RefuseArg, IgnoreSet,
     SetKeyOrValue, ReplaceAttr, ReplaceAttrByNode, BeginAttrSplice, RefuseAttr,
     RemoveStmt, RemoveAllStmts, RemoveArgs, RemoveArg, RemoveAttr,
     RefuseRemoval, RemovalFallsThrough, PlaceFound, SetOnPackage, ArgAddressed, SetArg,
     SetAttr, InStmt, SetCall, InRemoval, RemovalCall

LEMMA EmptyPath == Len(Path) > 0 => Path # << >>
  OBVIOUS

\* The edits of whole statements.
LEMMA OnPackageKeeps ==
  ASSUME IInv, \/ ReplaceStmt \/ ReplaceStmtByNode \/ BeginStmtSplice \/ RefuseOnPackage
               \/ RemoveStmt \/ RemoveAllStmts
  PROVE  IInv'
<1>1. stmts \in Seq(Stmt) /\ KeysOf(stmts) \in Seq(Texts) /\ Len(KeysOf(stmts)) = Len(stmts)
  BY KeysType DEF IInv, TypeOK
<1>2. Place \in 0 .. Len(stmts)
  BY <1>1, PlaceType, RequestType DEF IInv, Place
<1>3. Place # 0 => RemoveAt(stmts, Place) \in Seq(Stmt)
  BY <1>1, <1>2, RemoveAtType
<1>4. CASE ReplaceStmt
  <2>1. Place \in 1 .. Len(stmts) /\ Val.st \in Stmt
    BY <1>2, <1>4, RequestType DEF ReplaceStmt, PlaceFound, IInv
  <2>2. [stmts EXCEPT ![Place] = Val.st] \in Seq(Stmt)
    BY <1>1, <2>1
  <2> QED
    BY <1>4, <2>2, ReturnKeeps DEF ReplaceStmt
<1>5. CASE ReplaceStmtByNode
  BY <1>1, <1>3, <1>5, ReturnKeeps DEF ReplaceStmtByNode, PlaceFound
<1>6. CASE BeginStmtSplice
  <2>1. pc = "dispatch" /\ Level = "load"
    BY <1>6 DEF BeginStmtSplice, PlaceFound, SetOnPackage, SetCall, Level
  <2>2. IndexOf(Place) \in Int
    BY <1>2, IndexOfType
  <2> QED
    BY <1>6, <2>1, <2>2, BeginSpliceKeeps DEF BeginStmtSplice
<1>7. CASE RefuseOnPackage
  BY <1>7, RefuseKeeps DEF RefuseOnPackage
<1>8. CASE RemoveStmt
  BY <1>3, <1>8, ReturnKeeps, RefuseKeeps DEF RemoveStmt
<1>9. CASE RemoveAllStmts
  <2>1. << >> \in Seq(Stmt)
    OBVIOUS
  <2> QED
    BY <1>9, <2>1, ReturnKeeps DEF RemoveAllStmts
<1> QED
  BY <1>4, <1>5, <1>6, <1>7, <1>8, <1>9

\* The edits of the arguments of a statement.
LEMMA OnArgsKeeps ==
  ASSUME IInv, \/ RefuseStmtStep \/ ReplaceArg \/ BeginArgSplice \/ RefuseArg \/ IgnoreSet
               \/ RemoveArgs \/ RemoveArg
  PROVE  IInv'
<1>1. stmts \in Seq(Stmt)
  BY DEF IInv, TypeOK
<1>2. Sel \in Step /\ Val.s \in Texts
  BY RequestType DEF IInv
<1>3. CASE RefuseStmtStep
  BY <1>3, RefuseKeeps DEF RefuseStmtStep
<1>4. CASE ReplaceArg
  <2>1. StmtPlace \in 1 .. Len(stmts)
    BY <1>4, StmtPlaceType DEF ReplaceArg, ArgAddressed, SetArg, InStmt, IInv
  <2>2. ArgPlace \in 0 .. Len(stmts[StmtPlace].args) /\ stmts[StmtPlace].args \in Seq(Texts)
    BY <1>1, <1>2, <2>1, PartPlaceType, NewArgsLaws DEF ArgPlace
  <2>3. CASE ArgPlace # 0
    <3>1. [stmts[StmtPlace].args EXCEPT ![ArgPlace] = Val.s] \in Seq(Texts)
      BY <1>2, <2>2, <2>3
    <3>2. NewArgs(stmts, StmtPlace, [stmts[StmtPlace].args EXCEPT ![ArgPlace] = Val.s]) \in Seq(Stmt)
      BY <1>1, <2>1, <3>1, NewArgsLaws
    <3>3. [stmts EXCEPT ![StmtPlace].args[ArgPlace] = Val.s] \in Seq(Stmt)
      BY <3>2 DEF NewArgs
    <3> QED
      BY <1>4, <2>3, <3>3, ReturnKeeps DEF ReplaceArg
  <2>4. CASE ArgPlace = 0
    BY <1>4, <2>4, RefuseKeeps DEF ReplaceArg
  <2> QED
    BY <2>3, <2>4
<1>5. CASE BeginArgSplice
  <2>1. StmtPlace \in 1 .. Len(stmts)
    BY <1>5, StmtPlaceType DEF BeginArgSplice, ArgAddressed, SetArg, InStmt, IInv
  <2>2. ArgPlace \in Int
    BY <1>1, <1>2, <2>1, PartPlaceType DEF ArgPlace
  <2>3. pc = "dispatch"
    BY <1>5 DEF BeginArgSplice, ArgAddressed, SetArg, InStmt, SetCall
  <2> QED
    BY <1>5, <2>1, <2>2, <2>3, IndexOfType, BeginSpliceKeeps DEF BeginArgSplice
<1>6. CASE RefuseArg
  BY <1>6, RefuseKeeps DEF RefuseArg
<1>7. CASE IgnoreSet
  BY <1>1, <1>7, ReturnKeeps DEF IgnoreSet
<1>8. CASE RemoveArgs
  <2>1. Path # << >>
    BY <1>8, RequestType DEF RemoveArgs, IInv
  <2>2. RemovalPlace \in 1 .. Len(stmts)
    BY <1>8, <2>1, StmtPlaceType DEF RemoveArgs, IInv
  <2>3. << >> \in Seq(Texts)
    OBVIOUS
  <2>4. [stmts EXCEPT ![RemovalPlace].args = << >>] \in Seq(Stmt)
    BY <1>1, <2>2, <2>3, NewArgsLaws DEF NewArgs
  <2> QED
    BY <1>8, <2>4, ReturnKeeps DEF RemoveArgs
<1>9. CASE RemoveArg
  <2>1. Path # << >>
    BY <1>9, EmptyPath DEF RemoveArg, InRemoval, IInv
  <2>2. RemovalPlace \in 1 .. Len(stmts)
    BY <1>9, <2>1, StmtPlaceType DEF RemoveArg, InRemoval, IInv
  <2> DEFINE args == stmts[RemovalPlace].args
             k == PlaceIn(Sel, args)
  <2>3. k \in 0 .. Len(args) /\ args \in Seq(Texts)
    BY <1>1, <1>2, <2>2, PartPlaceType, NewArgsLaws
  <2>4. CASE k # 0
    <3>1. RemoveAt(args, k) \in Seq(Texts)
      BY <2>3, <2>4, RemoveAtType
    <3>2. NewArgs(stmts, RemovalPlace, RemoveAt(args, k)) \in Seq(Stmt)
      BY <1>1, <2>2, <3>1, NewArgsLaws
    <3>3. [stmts EXCEPT ![RemovalPlace].args = RemoveAt(@, k)] \in Seq(Stmt)
      BY <3>2 DEF NewArgs
    <3> QED
      BY <1>9, <2>4, <3>3, ReturnKeeps DEF RemoveArg
  <2>5. CASE k = 0
    BY <1>9, <2>5, RefuseKeeps DEF RemoveArg
  <2> QED
    BY <2>4, <2>5
<1> QED
  BY <1>3, <1>4, <1>5, <1>6, <1>7, <1>8, <1>9

LEMMA StepAt == ASSUME NEW p \in Seq(Step), NEW i \in 1 .. Len(p) PROVE p[i] \in Step
  OBVIOUS

LEMMA JudgedKeeps ==
  ASSUME NEW step, NEW s \in Seq(Stmt), JudgedByErrno(step, s)
  PROVE  IInv'
  BY ReturnKeeps DEF JudgedByErrno

\* A binding under another key, or with another value, is a binding.
LEMMA PartType ==
  ASSUME NEW l \in Seq(Binding), NEW k \in 1 .. Len(l), NEW x \in Texts
  PROVE  /\ [l EXCEPT ![k].key = x] \in Seq(Binding)
         /\ [l EXCEPT ![k].v = x] \in Seq(Binding)
<1>1. l[k] \in Binding
  OBVIOUS
<1>2. [l[k] EXCEPT !.key = x] \in Binding /\ [l[k] EXCEPT !.v = x] \in Binding
  BY <1>1 DEF Binding
<1> QED
  BY <1>2

\* The edits of the attributes of a statement.
LEMMA OnAttrsKeeps ==
  ASSUME IInv, \/ SetKeyOrValue \/ ReplaceAttr \/ ReplaceAttrByNode \/ BeginAttrSplice
               \/ RefuseAttr \/ RemoveAttr
  PROVE  IInv'
<1>1. stmts \in Seq(Stmt)
  BY DEF IInv, TypeOK
<1>2. Sel \in Step /\ Val.s \in Texts /\ Val.b \in Binding /\ Path \in Seq(Step)
  BY RequestType DEF IInv
<1>3. ASSUME SetAttr PROVE StmtPlace \in 1 .. Len(stmts)
  BY <1>3, StmtPlaceType DEF SetAttr, InStmt, IInv
<1>4. ASSUME StmtPlace \in 1 .. Len(stmts), NEW step \in Step
      PROVE  /\ AttrPlace(step) \in 0 .. Len(stmts[StmtPlace].attrs)
             /\ stmts[StmtPlace].attrs \in Seq(Binding)
  BY <1>1, <1>4, PartPlaceType, NewAttrsLaws DEF AttrPlace
<1>5. ASSUME NEW p \in 1 .. Len(stmts), NEW l \in Seq(Binding)
      PROVE  [stmts EXCEPT ![p].attrs = l] \in Seq(Stmt)
  BY <1>1, NewAttrsLaws DEF NewAttrs
<1>6. CASE SetKeyOrValue
  <2>1. StmtPlace \in 1 .. Len(stmts)
    BY <1>3, <1>6 DEF SetKeyOrValue
  <2>2. CASE Len(Path) = 3 /\ (IsIndex(Path[3]) \/ IsSymbol(Path[3])) /\ AttrPlace(Path[3]) # 0
    <3>1. Path[3] \in Step
      <4>1. 3 \in 1 .. Len(Path)
        BY <2>2
      <4> QED
        BY <1>2, <4>1, StepAt
    <3>2. /\ AttrPlace(Path[3]) \in 1 .. Len(stmts[StmtPlace].attrs)
          /\ stmts[StmtPlace].attrs \in Seq(Binding)
      BY <1>4, <2>1, <2>2, <3>1
    <3>3. [stmts[StmtPlace].attrs EXCEPT ![AttrPlace(Path[3])][Part] = Val.s] \in Seq(Binding)
      BY <1>2, <3>2, PartType DEF Part
    <3>4. [stmts EXCEPT ![StmtPlace].attrs =
             [stmts[StmtPlace].attrs EXCEPT ![AttrPlace(Path[3])][Part] = Val.s]] \in Seq(Stmt)
      BY <1>5, <2>1, <3>3
    <3>5. [stmts EXCEPT ![StmtPlace].attrs[AttrPlace(Path[3])][Part] = Val.s] \in Seq(Stmt)
      BY <3>4
    <3> QED
      BY <1>6, <2>2, <3>5, JudgedKeeps DEF SetKeyOrValue
  <2>3. CASE ~(Len(Path) = 3 /\ (IsIndex(Path[3]) \/ IsSymbol(Path[3])) /\ AttrPlace(Path[3]) # 0)
    BY <1>6, <2>3, RefuseKeeps DEF SetKeyOrValue
  <2> QED
    BY <2>2, <2>3
<1>7. CASE ReplaceAttr
  <2>1. StmtPlace \in 1 .. Len(stmts)
    BY <1>3, <1>7 DEF ReplaceAttr
  <2>2. /\ AttrPlace(Sel) \in 0 .. Len(stmts[StmtPlace].attrs)
        /\ stmts[StmtPlace].attrs \in Seq(Binding)
    BY <1>2, <1>4, <2>1
  <2>3. CASE AttrPlace(Sel) # 0
    <3>1. [stmts[StmtPlace].attrs EXCEPT ![AttrPlace(Sel)] = Val.b] \in Seq(Binding)
      BY <1>2, <2>2, <2>3
    <3>2. [stmts EXCEPT ![StmtPlace].attrs =
             [stmts[StmtPlace].attrs EXCEPT ![AttrPlace(Sel)] = Val.b]] \in Seq(Stmt)
      BY <1>5, <2>1, <3>1
    <3>3. [stmts EXCEPT ![StmtPlace].attrs[AttrPlace(Sel)] = Val.b] \in Seq(Stmt)
      BY <3>2
    <3> QED
      BY <1>7, <2>3, <3>3, JudgedKeeps DEF ReplaceAttr
  <2>4. CASE AttrPlace(Sel) = 0
    BY <1>7, <2>4, RefuseKeeps DEF ReplaceAttr
  <2> QED
    BY <2>3, <2>4
<1>8. CASE ReplaceAttrByNode
  <2>1. StmtPlace \in 1 .. Len(stmts)
    BY <1>3, <1>8 DEF ReplaceAttrByNode
  <2>2. /\ AttrPlace(Sel) \in 1 .. Len(stmts[StmtPlace].attrs)
        /\ stmts[StmtPlace].attrs \in Seq(Binding)
    BY <1>2, <1>4, <1>8, <2>1 DEF ReplaceAttrByNode
  <2>3. RemoveAt(stmts[StmtPlace].attrs, AttrPlace(Sel)) \in Seq(Binding)
    BY <2>2, RemoveAtType
  <2>4. [stmts EXCEPT ![StmtPlace].attrs = RemoveAt(@, AttrPlace(Sel))] \in Seq(Stmt)
    BY <1>5, <2>1, <2>3
  <2> QED
    BY <1>8, <2>4, RefuseKeeps, JudgedKeeps DEF ReplaceAttrByNode
<1>9. CASE BeginAttrSplice
  <2>1. StmtPlace \in 1 .. Len(stmts)
    BY <1>3, <1>9 DEF BeginAttrSplice
  <2>2. AttrPlace(Sel) \in Int
    BY <1>2, <1>4, <2>1
  <2>3. pc = "dispatch"
    BY <1>9 DEF BeginAttrSplice, SetAttr, InStmt, SetCall
  <2> QED
    BY <1>9, <2>1, <2>2, <2>3, IndexOfType, BeginSpliceKeeps DEF BeginAttrSplice
<1>10. CASE RefuseAttr
  BY <1>10, RefuseKeeps DEF RefuseAttr
<1>11. CASE RemoveAttr
  <2> DEFINE attrs == stmts[RemovalPlace].attrs
             k     == PlaceIn(Sel, KeysOf(attrs))
             left  == [stmts EXCEPT ![RemovalPlace].attrs = RemoveAt(@, k)]
  <2>1. Path # << >>
    BY <1>11, EmptyPath DEF RemoveAttr, InRemoval
  <2>2. RemovalPlace \in 1 .. Len(stmts)
    BY <1>11, <2>1, StmtPlaceType DEF RemoveAttr, InRemoval, IInv
  <2>3. k \in 0 .. Len(attrs) /\ attrs \in Seq(Binding)
    BY <1>1, <1>2, <2>2, PartPlaceType, NewAttrsLaws
  <2>4. k # 0 => RemoveAt(attrs, k) \in Seq(Binding)
    BY <2>3, RemoveAtType
  <2>5. k # 0 => left \in Seq(Stmt)
    BY <1>5, <2>2, <2>4
  <2>6. \/ k # 0 /\ (Return(left, "ok") \/ Return(left, "error"))
        \/ Refuse
    BY <1>11 DEF RemoveAttr
  <2> HIDE DEF left
  <2> QED
    BY <2>5, <2>6, ReturnKeeps, RefuseKeeps
<1> QED
  BY <1>6, <1>7, <1>8, <1>9, <1>10, <1>11

LEMMA DispatchKeeps == ASSUME IInv, Dispatch PROVE IInv'
<1>1. stmts \in Seq(Stmt)
  BY DEF IInv, TypeOK
<1>2. CASE RefuseRemoval
  BY <1>2, RefuseKeeps DEF RefuseRemoval
<1>3. CASE RemovalFallsThrough
  <2>1. CASE pc' = "crashed" /\ UNCHANGED <<stmts, req, old, n, at, outcome>>
    <3>1. pc = "dispatch"
      BY DispatchPc
    <3> QED
      BY <2>1, <3>1 DEF IInv, TypeOK, SpliceInPlace, AtRest, ListExists
  <2> QED
    BY <1>1, <1>3, <2>1, ReturnKeeps, RefuseKeeps DEF RemovalFallsThrough
<1> QED
  BY <1>2, <1>3, OnPackageKeeps, OnArgsKeeps, OnAttrsKeeps DEF Dispatch

-----------------------------------------------------------------------------
(***************************************************************************)
(* The splices.                                                            *)
(***************************************************************************)

\* The first m new entries.
Spliced(m) == [k \in 1 .. m |-> ContentOf(Elems[k])]

LEMMA SplicedInType ==
  ASSUME TypeOK, NEW m \in Nat, m <= Len(Elems)
  PROVE  /\ Spliced(m) \in Seq(Entries(Level)) /\ Len(Spliced(m)) = m
         /\ \A k \in 1 .. m : Spliced(m)[k] = ContentOf(Elems[k])
<1>1. ASSUME NEW k \in 1 .. m PROVE ContentOf(Elems[k]) \in Entries(Level)
  <2>1. Elems[k] \in Elem
    BY RequestType
  <2> QED
    BY <2>1 DEF ContentOf, Entries, Elem
<1>2. Spliced(m) \in [1 .. m -> Entries(Level)]
  BY <1>1 DEF Spliced
<1>3. Spliced(m) \in Seq(Entries(Level)) /\ Len(Spliced(m)) = m
  BY <1>2
<1> QED
  BY <1>3 DEF Spliced

\* What the package and the list are while a splice runs.
LEMMA SpliceState ==
  ASSUME IInv, pc = "splice", n > 0 \/ at \in 0 .. Len(ListIn(stmts))
  PROVE  /\ n \in Nat /\ n <= Len(Elems)
         /\ Level = "load" \/ (StmtPlace \in 1 .. Len(old) /\ Len(stmts) = Len(old))
         /\ ListIn(old) \in Seq(Entries(Level))
         /\ at \in 0 .. Len(ListIn(old))
         /\ ListIn(stmts) = Around(ListIn(old), at, Spliced(n))
         /\ stmts = With(old, ListIn(stmts))
<1>1. PICK level, p : level = Level /\ p = StmtPlace
  OBVIOUS
<1>2. old \in Seq(Stmt) /\ stmts \in Seq(Stmt) /\ n \in Nat /\ n <= Len(Elems)
  BY DEF IInv, TypeOK, SpliceInPlace
<1>3. level \in Levels /\ (level = "load" \/ p \in 1 .. Len(old))
  BY <1>1, LevelType DEF IInv, ListExists
<1>4. ListIn(old) \in Seq(Entries(Level))
  BY <1>1, <1>2, <1>3, ListInType
<1>5. Spliced(n) \in Seq(Entries(Level)) /\ Len(Spliced(n)) = n
  BY <1>2, SplicedInType DEF IInv
<1>6. CASE n = 0
  <2>1. stmts = old
    BY <1>6 DEF IInv, SpliceInPlace
  <2>2. at \in 0 .. Len(ListIn(old))
    BY <1>6, <2>1
  <2>3. Around(ListIn(old), at, Spliced(n)) = ListIn(old)
    BY <1>4, <1>5, <1>6, <2>2, AroundNothing
  <2>4. WithAt(level, p, old, ListAt(level, p, old)) = old
    BY <1>2, <1>3, ListLaws
  <2>5. With(old, ListIn(old)) = old
    BY <1>1, <2>4, ListIsListAt
  <2> QED
    BY <1>1, <1>2, <1>3, <1>4, <2>1, <2>2, <2>3, <2>5
<1>7. CASE n > 0
  <2> DEFINE cur == Around(ListIn(old), at, Spliced(n))
  <2>1. at \in 0 .. Len(ListIn(old)) /\ stmts = With(old, cur)
    BY <1>2, <1>7 DEF IInv, SpliceInPlace, Spliced, Around
  <2>2. cur \in Seq(Entries(Level))
    BY <1>4, <1>5, <2>1, AroundType
  <2> HIDE DEF cur
  <2>3. stmts = WithAt(level, p, old, cur)
    BY <1>1, <2>1, ListIsListAt
  <2>4. cur \in Seq(Entries(level))
    BY <1>1, <2>2
  <2>5. /\ ListAt(level, p, WithAt(level, p, old, cur)) = cur
        /\ level # "load" => Len(WithAt(level, p, old, cur)) = Len(old)
        /\ WithAt(level, p, WithAt(level, p, old, cur), cur) = WithAt(level, p, old, cur)
    <3>1. PICK s, c : s = old /\ c = cur
      OBVIOUS
    <3>2. /\ level \in Levels /\ s \in Seq(Stmt) /\ (level = "load" \/ p \in 1 .. Len(s))
          /\ c \in Seq(Entries(level))
      BY <1>2, <1>3, <2>4, <3>1
    <3>3. /\ ListAt(level, p, WithAt(level, p, s, c)) = c
          /\ level # "load" => Len(WithAt(level, p, s, c)) = Len(s)
          /\ WithAt(level, p, WithAt(level, p, s, c), c) = WithAt(level, p, s, c)
      BY <3>2, WithLaws, SMTT(60)
    <3> QED
      BY <3>1, <3>3
  <2>6. ListIn(stmts) = cur /\ (level = "load" \/ Len(stmts) = Len(old))
    BY <1>1, <2>3, <2>5, ListIsListAt
  <2>7. stmts = With(old, ListIn(stmts))
    BY <2>1, <2>6
  <2> QED
    BY <1>1, <1>2, <1>3, <1>4, <2>1, <2>6, <2>7 DEF cur
<1> QED
  BY <1>2, <1>6, <1>7

\* One more entry goes in behind those that are in.
LEMMA SpliceNextKeeps == ASSUME IInv, SpliceNext PROVE IInv'
<1>1. /\ pc = "splice" /\ n < Len(Elems) /\ at + n \in 0 .. Len(ListIn(stmts))
      /\ stmts' = With(stmts, InsertAt(ListIn(stmts), at + n + 1, ContentOf(Elems[n + 1])))
      /\ n' = n + 1 /\ UNCHANGED <<pc, req, old, at, outcome>>
  BY DEF SpliceNext, Turn
<1>2. n \in Nat /\ at \in Int /\ old \in Seq(Stmt) /\ TypeOK /\ Len(Elems) \in Nat
  BY RequestType DEF IInv, TypeOK
<1>3. n > 0 \/ at \in 0 .. Len(ListIn(stmts))
  BY <1>1, <1>2
<1> DEFINE l == ListIn(old)
<1>4. /\ n <= Len(Elems)
      /\ Level = "load" \/ (StmtPlace \in 1 .. Len(old) /\ Len(stmts) = Len(old))
      /\ l \in Seq(Entries(Level)) /\ at \in 0 .. Len(l)
      /\ ListIn(stmts) = Around(l, at, Spliced(n)) /\ stmts = With(old, ListIn(stmts))
  BY <1>1, <1>3, SpliceState
<1> HIDE DEF l
<1>5. /\ Spliced(n) \in Seq(Entries(Level)) /\ Len(Spliced(n)) = n
      /\ \A k \in 1 .. n : Spliced(n)[k] = ContentOf(Elems[k])
  BY <1>2, <1>4, SplicedInType
<1>6. /\ Spliced(n + 1) \in Seq(Entries(Level)) /\ Len(Spliced(n + 1)) = n + 1
      /\ \A k \in 1 .. n + 1 : Spliced(n + 1)[k] = ContentOf(Elems[k])
  <2>1. n + 1 \in Nat /\ n + 1 <= Len(Elems)
    BY <1>1, <1>2
  <2> QED
    BY <1>2, <2>1, SplicedInType
<1>7. ContentOf(Elems[n + 1]) \in Entries(Level)
  <2>1. n + 1 \in 1 .. n + 1 /\ Spliced(n + 1)[n + 1] \in Entries(Level)
    BY <1>2, <1>6
  <2> QED
    BY <1>6, <2>1
<1>8. InsertAt(Around(l, at, Spliced(n)), at + n + 1, ContentOf(Elems[n + 1]))
        = Around(l, at, Spliced(n + 1))
  <2>1. /\ Len(Spliced(n + 1)) = Len(Spliced(n)) + 1
        /\ \A k \in 1 .. Len(Spliced(n)) : Spliced(n + 1)[k] = Spliced(n)[k]
        /\ Spliced(n + 1)[Len(Spliced(n)) + 1] = ContentOf(Elems[n + 1])
        /\ at + n + 1 = at + Len(Spliced(n)) + 1
    BY <1>2, <1>5, <1>6
  <2>2. /\ l \in Seq(Entries(Level)) /\ at \in 0 .. Len(l)
        /\ Spliced(n) \in Seq(Entries(Level)) /\ Spliced(n + 1) \in Seq(Entries(Level))
        /\ ContentOf(Elems[n + 1]) \in Entries(Level)
    BY <1>4, <1>5, <1>6, <1>7
  <2> QED
    BY <2>1, <2>2, AroundGrows
<1> DEFINE new == Around(l, at, Spliced(n + 1))
<1>9. new \in Seq(Entries(Level))
  BY <1>4, <1>6, AroundType
<1>10. stmts' = With(stmts, new)
  BY <1>1, <1>4, <1>8
<1> HIDE DEF new
<1>11. /\ stmts' = With(old, new) /\ stmts' \in Seq(Stmt)
       /\ Level = "load" \/ Len(stmts') = Len(old)
  <2>1. PICK level, p, cur : level = Level /\ p = StmtPlace /\ cur = ListIn(stmts)
    OBVIOUS
  <2>2. level \in Levels /\ (level = "load" \/ p \in 1 .. Len(old))
    BY <1>4, <2>1, LevelType
  <2>3. cur \in Seq(Entries(level)) /\ new \in Seq(Entries(level))
    <3>1. Around(l, at, Spliced(n)) \in Seq(Entries(Level))
      BY <1>4, <1>5, AroundType
    <3> QED
      BY <1>4, <1>9, <2>1, <3>1
  <2>4. stmts = WithAt(level, p, old, cur) /\ stmts' = WithAt(level, p, stmts, new)
    BY <1>4, <1>10, <2>1, ListIsListAt
  <2>5. /\ WithAt(level, p, WithAt(level, p, old, cur), new) = WithAt(level, p, old, new)
        /\ WithAt(level, p, old, new) \in Seq(Stmt)
        /\ level # "load" => Len(WithAt(level, p, old, new)) = Len(old)
    BY <1>2, <2>2, <2>3, WithLaws, SMTT(60)
  <2>6. With(old, new) = WithAt(level, p, old, new)
    BY <2>1, ListIsListAt
  <2> QED
    BY <2>1, <2>4, <2>5, <2>6
<1>12. Level' = Level /\ Path' = Path /\ Elems' = Elems
  BY <1>1 DEF Level, ArgPath, Path, Elems, Val
<1>13. Level = "load" \/ StmtPlace' = StmtPlace
  <2>1. SUFFICES ASSUME Level # "load" PROVE StmtPlace' = StmtPlace
    OBVIOUS
  <2>2. Len(stmts') = Len(stmts) /\ StmtPlace \in 1 .. Len(old)
    BY <1>4, <1>11, <2>1
  <2>3. Len(KeysOf(stmts')) = Len(KeysOf(stmts))
    <3>1. stmts \in Seq(Stmt)
      BY <1>2 DEF TypeOK
    <3> QED
      BY <1>11, <2>2, <3>1, KeysType
  <2>4. IsIndex(Path[1])
    BY <1>2, <2>2 DEF StmtPlace
  <2>5. PlaceIn(Path[1], KeysOf(stmts')) = PlaceIn(Path[1], KeysOf(stmts))
    BY <2>3, <2>4, PlaceByLength
  <2> QED
    BY <1>12, <2>4, <2>5 DEF StmtPlace
<1>14. ListIn(old)' = l
  BY <1>1, <1>12, <1>13 DEF ListIn, l
<1>15. Spliced(n)' = Spliced(n + 1)
  BY <1>1, <1>12 DEF Spliced, ContentOf
<1>16. Around(ListIn(old), at, Spliced(n))' = new
  BY <1>1, <1>14, <1>15 DEF Around, new
<1>17. With(old, Around(ListIn(old), at, Spliced(n)))' = With(old, new)
  BY <1>1, <1>12, <1>13, <1>16 DEF With
<1>18. SpliceInPlace'
  <2>1. n' \in Nat /\ n' # 0 /\ n' <= Len(Elems')
    BY <1>1, <1>2, <1>12
  <2>2. at' \in 0 .. Len(ListIn(old)')
    BY <1>1, <1>4, <1>14
  <2>3. stmts' = With(old, Around(ListIn(old), at, Spliced(n)))'
    BY <1>11, <1>17
  <2> QED
    BY <2>1, <2>2, <2>3 DEF SpliceInPlace, Around, Spliced
<1>19. TypeOK'
  BY <1>1, <1>2, <1>11 DEF TypeOK
<1>20. AtRest' /\ ListExists'
  BY <1>1, <1>4, <1>12, <1>13 DEF IInv, AtRest, ListExists
<1> QED
  BY <1>18, <1>19, <1>20 DEF IInv

LEMMA LoopKeeps == ASSUME IInv, LoopTurn PROVE IInv'
<1>1. stmts \in Seq(Stmt)
  BY DEF IInv, TypeOK
<1>2. CASE SpliceFails
  BY <1>1, <1>2, ReturnKeeps DEF SpliceFails
<1>3. CASE EndSplice
  BY <1>1, <1>3, ReturnKeeps DEF EndSplice
<1> QED
  BY <1>2, <1>3, SpliceNextKeeps DEF LoopTurn

-----------------------------------------------------------------------------
(***************************************************************************)
(* The theorems.                                                           *)
(***************************************************************************)

\* The package a call is first made on is as it was parsed.
THEOREM InitIInv == Init => IInv
<1>1. SUFFICES ASSUME Init PROVE IInv
  OBVIOUS
<1>2. stmts \in Seq(Stmt)
  BY <1>1, ParsedAssumption DEF Init
<1> QED
  BY <1>1, <1>2, AnyRequestType DEF Init, IInv, TypeOK, SpliceInPlace, AtRest, ListExists

\* Every step of set! on load statements keeps the invariant.
THEOREM NextIInv == IInv /\ [Next]_vars => IInv'
<1>1. SUFFICES ASSUME IInv, [Next]_vars PROVE IInv'
  OBVIOUS
<1>2. CASE \E r \in Requests : Receive(r)
  <2>1. PICK r \in Requests : Receive(r)
    BY <1>2
  <2> QED
    BY <1>1, <2>1 DEF Receive, IInv, TypeOK, SpliceInPlace, AtRest, ListExists
<1>3. CASE UNCHANGED vars
  <2>1. UNCHANGED <<stmts, pc, req, old, n, at, outcome>>
    BY <1>3 DEF vars
  <2>2. Level' = Level /\ StmtPlace' = StmtPlace /\ Elems' = Elems
    BY <2>1 DEF Level, StmtPlace, ArgPath, Elems, Val, Path
  <2>3. ListIn(old)' = ListIn(old)
    BY <2>1, <2>2 DEF ListIn
  <2>4. TypeOK' /\ AtRest' /\ ListExists'
    BY <1>1, <2>1, <2>2 DEF IInv, TypeOK, AtRest, ListExists
  <2>5. Around(ListIn(old), at, Spliced(n))' = Around(ListIn(old), at, Spliced(n))
    BY <2>1, <2>2, <2>3 DEF Around, Spliced, ContentOf
  <2>6. With(old, Around(ListIn(old), at, Spliced(n)))' = With(old, Around(ListIn(old), at, Spliced(n)))
    BY <2>1, <2>2, <2>5 DEF With
  <2>7. SpliceInPlace'
    <3>1. SpliceInPlace <=>
            (pc = "splice" =>
               /\ n <= Len(Elems) /\ (n > 0 => at \in 0 .. Len(ListIn(old)))
               /\ stmts = IF n = 0 THEN old ELSE With(old, Around(ListIn(old), at, Spliced(n))))
      BY DEF SpliceInPlace, Around, Spliced
    <3>2. SpliceInPlace' <=>
            (pc' = "splice" =>
               /\ n' <= Len(Elems') /\ (n' > 0 => at' \in 0 .. Len(ListIn(old)'))
               /\ stmts' = IF n' = 0 THEN old' ELSE With(old, Around(ListIn(old), at, Spliced(n)))')
      BY DEF SpliceInPlace, Around, Spliced
    <3> QED
      BY <1>1, <2>1, <2>2, <2>3, <2>6, <3>1, <3>2 DEF IInv
  <2> QED
    BY <2>4, <2>7 DEF IInv
<1> QED
  BY <1>1, <1>2, <1>3, DispatchKeeps, LoopKeeps DEF Next

\* The invariant holds of every package that set! has edited.
THEOREM Invariant == Spec => []IInv
<1> QED
  BY InitIInv, NextIInv, PTL DEF Spec

\* Whatever is assigned, removed or spliced below :load, a package has load
\* statements, with strings for arguments and bindings for attributes.
THEOREM TypeCorrect == Spec => []TypeOK
<1>1. IInv => TypeOK
  BY DEF IInv
<1> QED
  BY <1>1, Invariant, PTL

\* At every turn of every splice below :load what has been inserted stands in
\* order at the place the call named, in the list it named.
THEOREM SplicesStayInPlace == Spec => []SpliceInPlace
<1>1. IInv => SpliceInPlace
  BY DEF IInv
<1> QED
  BY <1>1, Invariant, PTL

-----------------------------------------------------------------------------
(***************************************************************************)
(* What a call that fails leaves.                                          *)
(***************************************************************************)

\* What RefusalLosesNothing asks of a step.
Kept(s, t) ==
  /\ KeysOf(t) = KeysOf(s)
  /\ \A k \in 1 .. Len(s) :
       /\ Range(s[k].args) \subseteq Range(t[k].args)
       /\ Range(s[k].attrs) \subseteq Range(t[k].attrs)

\* A keyword names no attribute, so what errno is judged by is a symbol.
LEMMA NamedBySymbol ==
  ASSUME IInv, StmtPlace \in 1 .. Len(stmts), NEW step \in Step, IsSymbol(step),
         ~IsIndex(step), AttrPlace(step) # 0
  PROVE  step.kind = "sym"
<1>1. stmts[StmtPlace].attrs \in Seq(Binding)
  BY NewAttrsLaws DEF IInv, TypeOK
<1>2. KeysOf(stmts[StmtPlace].attrs) \in Seq(Texts)
  BY <1>1, KeysType
<1>3. step.s \in Texts
  BY <1>2, PlaceType DEF AttrPlace
<1>4. step.kind \notin {"kw", "star"}
  BY <1>3 DEF Step
<1> QED
  BY <1>4 DEF IsSymbol

\* A call with a value that fails in the dispatch has done nothing.
LEMMA DispatchRefuses ==
  ASSUME IInv, Dispatch, outcome' = "error", Val.kind # "null", ~AttrBySymbol
  PROVE  stmts' = old
<1>1. pc = "dispatch" /\ old = stmts /\ outcome = "none"
  BY DispatchPc DEF IInv, AtRest
<1>2. ASSUME Refuse PROVE stmts' = old
  BY <1>1, <1>2 DEF Refuse, Return
<1>3. ASSUME NEW s, Return(s, "ok") PROVE FALSE
  BY <1>3 DEF Return
<1>4. ASSUME NEW i, BeginSpliceAt(i) PROVE stmts' = old
  BY <1>1, <1>2, <1>4 DEF BeginSpliceAt
<1>5. ASSUME SetAttr PROVE StmtPlace \in 1 .. Len(stmts)
  BY <1>5, StmtPlaceType DEF SetAttr, InStmt, IInv
<1>6. Sel \in Step /\ Path \in Seq(Step)
  BY RequestType DEF IInv
<1>7. CASE ReplaceStmt \/ ReplaceStmtByNode \/ RefuseOnPackage \/ RefuseStmtStep \/ ReplaceArg
           \/ RefuseArg \/ IgnoreSet \/ RefuseAttr
  BY <1>1, <1>2, <1>3, <1>7 DEF ReplaceStmt, ReplaceStmtByNode, RefuseOnPackage, RefuseStmtStep,
     ReplaceArg, RefuseArg, IgnoreSet, RefuseAttr
<1>8. CASE BeginStmtSplice \/ BeginArgSplice \/ BeginAttrSplice
  BY <1>4, <1>8 DEF BeginStmtSplice, BeginArgSplice, BeginAttrSplice
<1>9. CASE SetKeyOrValue
  <2>1. ASSUME Len(Path) = 3, IsIndex(Path[3]) \/ IsSymbol(Path[3]), AttrPlace(Path[3]) # 0
        PROVE  IsIndex(Path[3])
    <3>1. SUFFICES ASSUME ~IsIndex(Path[3]) PROVE FALSE
      OBVIOUS
    <3>2. 3 \in 1 .. Len(Path) /\ 3 \in 3 .. Len(Path)
      BY <2>1
    <3>3. Path[3] \in Step
      BY <1>6, <3>2, StepAt
    <3>4. Path[3].kind = "sym"
      BY <1>5, <1>9, <2>1, <3>1, <3>3, NamedBySymbol DEF SetKeyOrValue
    <3> QED
      BY <1>9, <3>2, <3>4 DEF AttrBySymbol, SetKeyOrValue, SetAttr
  <2> QED
    BY <1>2, <1>3, <1>9, <2>1 DEF SetKeyOrValue, JudgedByErrno
<1>10. ASSUME SetAttr, IsIndex(Sel) \/ IsSymbol(Sel), AttrPlace(Sel) # 0 PROVE IsIndex(Sel)
  <2>1. SUFFICES ASSUME ~IsIndex(Sel) PROVE FALSE
    OBVIOUS
  <2>2. Sel.kind = "sym"
    BY <1>5, <1>6, <1>10, <2>1, NamedBySymbol
  <2> QED
    BY <1>10, <2>2 DEF AttrBySymbol, SetAttr
<1>11. CASE ReplaceAttr
  BY <1>2, <1>3, <1>10, <1>11 DEF ReplaceAttr, JudgedByErrno
<1>12. CASE ReplaceAttrByNode
  <2>1. IsIndex(Sel)
    BY <1>10, <1>12 DEF ReplaceAttrByNode
  <2> QED
    BY <1>2, <1>3, <1>12, <2>1 DEF ReplaceAttrByNode, JudgedByErrno
<1>13. CASE RemoveStmt \/ RemoveAllStmts \/ RemoveArgs \/ RemoveArg \/ RemoveAttr
            \/ RefuseRemoval \/ RemovalFallsThrough
  BY <1>13 DEF RemoveStmt, RemoveAllStmts, RemoveArgs, RemoveArg, RemoveAttr, RefuseRemoval,
     RemovalFallsThrough, InRemoval, RemovalCall
<1> QED
  BY <1>7, <1>8, <1>9, <1>11, <1>12, <1>13 DEF Dispatch

LEMMA AroundKeeps ==
  ASSUME NEW S, NEW l \in Seq(S), NEW a \in 0 .. Len(l), NEW f \in Seq(S)
  PROVE  Range(l) \subseteq Range(Around(l, a, f))
<1>1. /\ Around(l, a, f) \in Seq(S)
      /\ Len(Around(l, a, f)) = Len(l) + Len(f)
      /\ \A k \in 1 .. Len(l) + Len(f) :
           Around(l, a, f)[k] =
             IF k <= a THEN l[k] ELSE IF k <= a + Len(f) THEN f[k - a] ELSE l[k - Len(f)]
  BY AroundType
<1> DEFINE r == Around(l, a, f)
<1>2. r \in Seq(S) /\ Len(r) = Len(l) + Len(f)
      /\ \A k \in 1 .. Len(l) + Len(f) :
           r[k] = IF k <= a THEN l[k] ELSE IF k <= a + Len(f) THEN f[k - a] ELSE l[k - Len(f)]
  BY <1>1
<1> HIDE DEF r
<1>3. ASSUME NEW k \in 1 .. Len(l) PROVE \E j \in 1 .. Len(r) : r[j] = l[k]
  <2>1. CASE k <= a
    <3>1. k \in 1 .. Len(r) /\ r[k] = l[k]
      BY <1>2, <2>1
    <3> QED
      BY <3>1
  <2>2. CASE ~(k <= a)
    <3>1. /\ k + Len(f) \in 1 .. Len(l) + Len(f)
          /\ ~(k + Len(f) <= a) /\ ~(k + Len(f) <= a + Len(f))
          /\ (k + Len(f)) - Len(f) = k
      BY <2>2
    <3>2. r[k + Len(f)] = l[(k + Len(f)) - Len(f)]
      BY <1>2, <3>1
    <3> QED
      BY <1>2, <3>1, <3>2
  <2> QED
    BY <2>1, <2>2
<1>4. Range(l) \subseteq Range(r)
  <2>1. Range(l) = {l[k] : k \in 1 .. Len(l)}
    BY DEF Range
  <2>2. Range(r) = {r[k] : k \in 1 .. Len(r)}
    <3>1. r \in Seq(S)
      BY <1>2
    <3>2. DOMAIN r = 1 .. Len(r)
      BY <3>1
    <3> QED
      BY <3>2 DEF Range
  <2> QED
    BY <1>3, <2>1, <2>2
<1> QED
  BY <1>4 DEF r

\* A splice that is given up keeps what was there.
LEMMA FailedSpliceKeeps ==
  ASSUME IInv, SpliceFails, outcome' = "error"
  PROVE  Kept(old, stmts')
<1>1. pc = "splice" /\ stmts' = stmts /\ Level # "load"
  BY DEF SpliceFails, Turn, Return
<1>2. n \in Nat /\ old \in Seq(Stmt)
  BY DEF IInv, TypeOK
<1>3. CASE n = 0
  <2>1. stmts' = old
    BY <1>1, <1>3 DEF IInv, SpliceInPlace
  <2> QED
    BY <2>1 DEF Kept
<1>4. CASE n # 0
  <2> DEFINE l == ListIn(old)
             cur == Around(l, at, Spliced(n))
  <2>1. /\ n <= Len(Elems) /\ StmtPlace \in 1 .. Len(old)
        /\ l \in Seq(Entries(Level)) /\ at \in 0 .. Len(l)
        /\ ListIn(stmts) = cur /\ stmts = With(old, ListIn(stmts))
    BY <1>1, <1>2, <1>4, SpliceState
  <2>2. Spliced(n) \in Seq(Entries(Level))
    BY <1>2, <2>1, SplicedInType DEF IInv
  <2>3. Range(l) \subseteq Range(cur)
    BY <2>1, <2>2, AroundKeeps
  <2>4. stmts' = With(old, cur)
    BY <1>1, <2>1
  <2> HIDE DEF cur
  <2>5. PICK p : p = StmtPlace
    OBVIOUS
  <2>6. p \in 1 .. Len(old) /\ old[p] \in Stmt
    BY <1>2, <2>1, <2>5
  <2>7. CASE Level = "str"
    <3>1. stmts' = [old EXCEPT ![p].args = cur] /\ l = old[p].args
      BY <2>4, <2>5, <2>7 DEF With, ListIn
    <3>2. Len(stmts') = Len(old) /\ \A k \in 1 .. Len(old) : k # p => stmts'[k] = old[k]
      BY <1>2, <2>6, <3>1
    <3>3. stmts'[p] = [old[p] EXCEPT !.args = cur]
      BY <1>2, <2>6, <3>1
    <3>4. stmts'[p].args = cur /\ stmts'[p].attrs = old[p].attrs /\ stmts'[p].key = old[p].key
      BY <2>6, <3>3 DEF Stmt
    <3>5. KeysOf(stmts') = KeysOf(old)
      BY <3>2, <3>4 DEF KeysOf
    <3> QED
      BY <2>3, <3>1, <3>2, <3>4, <3>5 DEF Kept
  <2>8. CASE Level # "str"
    <3>1. stmts' = [old EXCEPT ![p].attrs = cur] /\ l = old[p].attrs
      BY <1>1, <2>4, <2>5, <2>8 DEF With, ListIn
    <3>2. Len(stmts') = Len(old) /\ \A k \in 1 .. Len(old) : k # p => stmts'[k] = old[k]
      BY <1>2, <2>6, <3>1
    <3>3. stmts'[p] = [old[p] EXCEPT !.attrs = cur]
      BY <1>2, <2>6, <3>1
    <3>4. stmts'[p].attrs = cur /\ stmts'[p].args = old[p].args /\ stmts'[p].key = old[p].key
      BY <2>6, <3>3 DEF Stmt
    <3>5. KeysOf(stmts') = KeysOf(old)
      BY <3>2, <3>4 DEF KeysOf
    <3> QED
      BY <2>3, <3>1, <3>2, <3>4, <3>5 DEF Kept
  <2> QED
    BY <2>7, <2>8
<1> QED
  BY <1>3, <1>4

LEMMA FailedStepKeeps ==
  ASSUME IInv, Next, outcome' = "error", Val.kind # "null", ~AttrBySymbol
  PROVE  Kept(old, stmts')
<1>1. CASE \E r \in Requests : Receive(r)
  BY <1>1 DEF Receive
<1>2. CASE Dispatch
  BY <1>2, DispatchRefuses DEF Kept
<1>3. CASE SpliceNext
  BY <1>3 DEF SpliceNext, Turn, IInv, AtRest
<1>4. CASE SpliceFails
  BY <1>4, FailedSpliceKeeps
<1>5. CASE EndSplice
  BY <1>5 DEF EndSplice, Return
<1> QED
  BY <1>1, <1>2, <1>3, <1>4, <1>5 DEF Next, LoopTurn

\* A call below :load with a new value that the script sees fail has lost no
\* statement, argument or attribute; only where errno is judged after a
\* symbol can an edit be made and be reported as failed.
THEOREM RefusalsLoseNothing == Spec => RefusalLosesNothing
<1>1. IInv /\ [Next]_vars
        => [outcome' = "error" /\ Val.kind # "null" /\ ~AttrBySymbol
              => /\ KeysOf(stmts') = KeysOf(old)
                 /\ \A k \in 1 .. Len(old) :
                      /\ Range(old[k].args) \subseteq Range(stmts'[k].args)
                      /\ Range(old[k].attrs) \subseteq Range(stmts'[k].attrs)]_vars
  BY FailedStepKeeps DEF Kept
<1> QED
  BY <1>1, Invariant, PTL DEF Spec, RefusalLosesNothing

-----------------------------------------------------------------------------
(***************************************************************************)
(* The entry that ItemList names is the place that the code finds.         *)
(***************************************************************************)
LEMMA FittingInt ==
  ASSUME NEW i \in IntMin .. -IntMin - 1 PROVE CInt(i) = i
<1> DEFINE d == i - IntMin
           w == -2 * IntMin
<1>1. d \in Nat /\ w \in Nat /\ d < w
  BY IntMinAssumption
<1> HIDE DEF d, w
<1>2. d % w = d
  BY <1>1
<1> QED
  BY <1>2, IntMinAssumption DEF CInt, d, w

LEMMA NumberNames ==
  ASSUME NEW step \in Step, Fits(step), IsIndex(step), NEW names, Len(names) \in Nat
  PROVE  PlaceIn(step, names) = Nth(step, Len(names))
<1> DEFINE ct == Len(names)
           i  == KwIndex(step)
<1>1. step.n \in Int /\ ct \in Nat /\ IntMin \in Int /\ IntMin < -1
  BY IntMinAssumption DEF Step
<1>2. PlaceIn(step, names)
        = IF Normalize(ct, i) \in 0 .. ct - 1 THEN Normalize(ct, i) + 1 ELSE 0
  BY DEF PlaceIn
<1> HIDE DEF ct, i
<1>3. CASE step.kind = "int"
  <2>1. step.n \in IntMin + 1 .. -IntMin - 1
    BY <1>3 DEF Fits
  <2>2. i = step.n
    BY <1>1, <1>3, <2>1, FittingInt DEF KwIndex, i
  <2>3. Nth(step, ct) =
          IF step.n < 0 /\ -step.n <= ct THEN ct + step.n + 1
          ELSE IF step.n \in 0 .. ct - 1 THEN step.n + 1 ELSE 0
    BY <1>1, <1>3, <2>1 DEF Nth
  <2>4. Normalize(ct, i) = IF step.n < 0 /\ CAbs(step.n) <= ct THEN ct + step.n ELSE step.n
    BY <2>2 DEF Normalize
  <2>5. PlaceIn(step, names) = Nth(step, ct)
    <3>1. CASE step.n >= 0
      BY <1>1, <1>2, <2>3, <2>4, <3>1
    <3>2. CASE step.n < 0
      <4>1. CAbs(step.n) = -step.n
        BY <1>1, <2>1, <3>2 DEF CAbs
      <4> QED
        BY <1>1, <1>2, <2>3, <2>4, <3>2, <4>1
    <3> QED
      BY <1>1, <3>1, <3>2
  <2> QED
    BY <2>5 DEF ct
<1>4. CASE step.kind = "kwnum"
  <2>1. step.n >= 0 /\ i = step.n
    BY <1>1, <1>4 DEF Fits, KwIndex, i
  <2>2. Nth(step, ct) = IF step.n \in 0 .. ct - 1 THEN step.n + 1 ELSE 0
    BY <1>1, <1>4, <2>1 DEF Nth
  <2> QED
    BY <1>1, <1>2, <2>1, <2>2 DEF Normalize, ct
<1>5. CASE step.kind = "-kwnum"
  <2>1. step.n \in 0 .. -IntMin - 1 /\ i = -step.n
    BY <1>1, <1>5 DEF Fits, KwIndex, i
  <2>2. Nth(step, ct) = IF step.n \in 1 .. ct THEN ct - step.n + 1
                        ELSE IF step.n = 0 /\ ct > 0 THEN 1 ELSE 0
    BY <1>1, <1>5, <2>1 DEF Nth
  <2>3. -step.n # IntMin /\ (step.n # 0 => -step.n < 0 /\ -(-step.n) = step.n)
    BY <1>1, <2>1
  <2>4. CAbs(-step.n) = IF step.n = 0 THEN 0 ELSE step.n
    BY <1>1, <2>1, <2>3 DEF CAbs
  <2>5. Normalize(ct, i) = IF step.n # 0 /\ step.n <= ct THEN ct - step.n ELSE -step.n
    BY <1>1, <2>1, <2>4 DEF Normalize
  <2>6. PlaceIn(step, names) = Nth(step, ct)
    <3>1. CASE step.n = 0
      BY <1>1, <1>2, <2>2, <2>5, <3>1
    <3>2. CASE step.n \in 1 .. ct
      BY <1>1, <1>2, <2>2, <2>5, <3>2
    <3>3. CASE step.n > ct
      BY <1>1, <1>2, <2>2, <2>5, <3>3
    <3> QED
      BY <1>1, <2>1, <3>1, <3>2, <3>3
  <2> QED
    BY <2>6 DEF ct
<1> QED
  BY <1>3, <1>4, <1>5 DEF IsIndex

\* An entry is named by a number, or by a name of the kind the list has.
LEMMA EntryIsPlace ==
  ASSUME NEW step \in Step, Fits(step), NEW names \in Seq(Texts),
         NEW byName \in {"str", "sym", "none"}
  PROVE  /\ Entry(step, names, byName) =
              IF IsIndex(step) \/ step.kind = byName THEN PlaceIn(step, names) ELSE 0
         /\ Entry(step, names, byName) \in 0 .. Len(names)
<1>1. CASE IsIndex(step)
  <2>1. step.kind # byName
    BY <1>1 DEF IsIndex
  <2> QED
    BY <1>1, <2>1, NumberNames, PlaceType DEF Entry
<1>2. CASE ~IsIndex(step) /\ step.kind = byName
  <2> DEFINE I == {k \in 1 .. Len(names) : names[k] = step.s}
  <2>1. PlaceIn(step, names) = IF I # {} THEN Min(I) ELSE 0
    BY <1>2 DEF PlaceIn, SelectInSeq
  <2>2. Entry(step, names, byName) =
          IF I = {} THEN 0 ELSE CHOOSE k \in I : \A j \in I : k <= j
    BY <1>2 DEF Entry
  <2>3. Entry(step, names, byName) = PlaceIn(step, names)
    BY <2>1, <2>2 DEF Min
  <2> QED
    BY <1>2, <2>3, PlaceType
<1>3. CASE ~IsIndex(step) /\ step.kind # byName
  <2>1. Nth(step, Len(names)) = 0
    BY <1>3 DEF Nth, IsIndex
  <2> QED
    BY <1>3, <2>1 DEF Entry
<1> QED
  BY <1>1, <1>2, <1>3

\* A splice is refused where there is no entry, and otherwise begins at the
\* entry, or behind it.
LEMMA SpliceBegins ==
  ASSUME IInv, Fits(Sel), NEW names, Len(names) = Len(ListIn(stmts)), Len(names) \in Nat,
         NEW k \in 0 .. Len(names), IsIndex(Sel) => k = PlaceIn(Sel, names),
         IsIndex(Sel) \/ k # 0, BeginSpliceAt(IndexOf(k))
  PROVE  \/ k = 0 /\ Refuse
         \/ /\ k # 0 /\ pc' = "splice" /\ UNCHANGED <<stmts, req, old, n, outcome>>
            /\ at' = k - (IF Val.kind = "list" THEN 1 ELSE 0)
<1> DEFINE ct == Len(names)
           i  == IndexOf(k)
<1>1. Sel \in Step /\ ct \in Nat /\ k \in 0 .. ct /\ IntMin \in Int /\ IntMin < -1
  BY IntMinAssumption, RequestType DEF IInv
<1>2. i \in Int
  BY <1>1, IndexOfType
<1>3. /\ NormalizeFails(ct, i) => Refuse
      /\ ~NormalizeFails(ct, i) =>
           /\ pc' = "splice" /\ UNCHANGED <<stmts, req, old, n, outcome>>
           /\ at' = Normalize(ct, i) + (IF Val.kind = "list" THEN 0 ELSE 1)
  BY DEF BeginSpliceAt
<1>4. /\ NormalizeFails(ct, i) => k = 0
      /\ ~NormalizeFails(ct, i) => k # 0 /\ Normalize(ct, i) = k - 1
  <2>1. CASE IsIndex(Sel)
    <3>1. i = KwIndex(Sel) /\ k = IF Normalize(ct, i) \in 0 .. ct - 1 THEN Normalize(ct, i) + 1 ELSE 0
      BY <2>1 DEF IndexOf, PlaceIn
    <3>2. i # IntMin
      <4>1. CASE Sel.kind = "int"
        <5>1. Sel.n \in IntMin .. -IntMin - 1 /\ Sel.n # IntMin
          BY <1>1, <4>1 DEF Fits
        <5> QED
          BY <3>1, <4>1, <5>1, FittingInt DEF KwIndex
      <4>2. CASE Sel.kind # "int"
        <5>1. Sel.n \in 0 .. -IntMin - 1 /\ i \in {Sel.n, -Sel.n}
          BY <2>1, <3>1, <4>2 DEF Fits, KwIndex, IsIndex
        <5> QED
          BY <1>1, <5>1
      <4> QED
        BY <4>1, <4>2
    <3> HIDE DEF ct, i
    <3>3. CASE i >= 0
      <4>1. Normalize(ct, i) = i /\ (NormalizeFails(ct, i) <=> i > ct - 1)
        BY <1>1, <1>2, <3>3 DEF Normalize, NormalizeFails
      <4> QED
        BY <1>1, <1>2, <3>1, <3>3, <4>1
    <3>4. CASE i < 0
      <4>1. CAbs(i) = -i
        BY <1>2, <3>2, <3>4 DEF CAbs
      <4>2. Normalize(ct, i) = IF -i <= ct THEN ct + i ELSE i
        BY <1>2, <3>4, <4>1 DEF Normalize
      <4>3. NormalizeFails(ct, i) <=> -i > ct \/ Normalize(ct, i) > ct - 1
        BY <1>2, <3>4, <4>1 DEF NormalizeFails
      <4>4. CASE -i <= ct
        <5>1. Normalize(ct, i) = ct + i /\ ct + i \in 0 .. ct - 1
          BY <1>1, <1>2, <3>4, <4>2, <4>4
        <5>2. ~NormalizeFails(ct, i)
          <6>1. ~(-i > ct) /\ ~(ct + i > ct - 1)
            BY <1>1, <1>2, <3>4, <4>4
          <6> QED
            BY <4>3, <5>1, <6>1
        <5>3. k = ct + i + 1
          BY <3>1, <5>1
        <5> QED
          BY <1>1, <1>2, <5>1, <5>2, <5>3
      <4>5. CASE -i > ct
        <5>1. Normalize(ct, i) = i
          BY <1>1, <1>2, <4>2, <4>5
        <5> QED
          BY <1>1, <1>2, <3>1, <3>4, <4>3, <4>5, <5>1
      <4> QED
        BY <1>1, <1>2, <4>4, <4>5
    <3> QED
      BY <1>2, <3>3, <3>4
  <2>2. CASE ~IsIndex(Sel)
    <3>1. i = k - 1 /\ k \in 1 .. ct
      BY <1>1, <2>2 DEF IndexOf
    <3>2. Normalize(ct, i) = i /\ ~NormalizeFails(ct, i)
      <4> HIDE DEF ct, i
      <4> QED
        BY <1>1, <3>1 DEF Normalize, NormalizeFails
    <3> QED
      BY <3>1, <3>2
  <2> QED
    BY <2>1, <2>2
<1> HIDE DEF ct, i
<1> QED
  BY <1>1, <1>3, <1>4

-----------------------------------------------------------------------------
(***************************************************************************)
(* What the edit of a call comes to.                                       *)
(***************************************************************************)

\* The list s after an edit at entry k by a value of the kind given.
Edited(s, k, given, kind, one, many) ==
  IF k = 0 THEN s
  ELSE IF given = "null"   THEN RemoveAt(s, k)
  ELSE IF given = kind     THEN [s EXCEPT ![k] = one]
  ELSE IF given = "list"   THEN Around(s, k - 1, many)
  ELSE IF given = "vector" THEN Around(s, k, many)
  ELSE s

LEMMA EditAtLaws ==
  ASSUME NEW X, NEW s \in Seq(X), NEW k \in 0 .. Len(s), NEW r,
         NEW kind \in {"load", "str", "binding"}, NEW one, NEW many
  PROVE  Applied(EditAt(k, r, kind, one, many), s) = Edited(s, k, r.val.kind, kind, one, many)
<1> DEFINE e == EditAt(k, r, kind, one, many)
<1>1. CASE k = 0
  <2>1. e = [op |-> "refused", at |-> {}, new |-> << >>]
    BY <1>1 DEF EditAt
  <2> QED
    BY <1>1, <2>1, RefusedEdit DEF Edited
<1>2. CASE k # 0 /\ r.val.kind = "null"
  <2>1. e = [op |-> "drop", at |-> {k - 1}, new |-> << >>]
    BY <1>2 DEF EditAt
  <2> QED
    BY <1>2, <2>1, DropEdit DEF Edited
<1>3. CASE k # 0 /\ r.val.kind = kind
  <2>1. e = [op |-> "replace", at |-> {k - 1}, new |-> <<one>>]
    BY <1>3 DEF EditAt
  <2> QED
    BY <1>3, <2>1, ReplaceEdit DEF Edited
<1>4. CASE k # 0 /\ r.val.kind = "list"
  <2>1. e = [op |-> "before", at |-> {k - 1}, new |-> many]
    BY <1>4 DEF EditAt
  <2> QED
    BY <1>4, <2>1, BeforeEdit DEF Edited
<1>5. CASE k # 0 /\ r.val.kind = "vector"
  <2>1. e = [op |-> "after", at |-> {k - 1}, new |-> many]
    BY <1>5 DEF EditAt
  <2>2. k - 1 \in Int /\ (k - 1) + 1 = k
    OBVIOUS
  <2>3. Applied(e, s) = Around(s, (k - 1) + 1, many)
    BY <2>1, <2>2, AfterEdit
  <2> QED
    BY <1>5, <2>2, <2>3 DEF Edited
<1>6. CASE k # 0 /\ r.val.kind \notin {"null", kind, "list", "vector"}
  <2>1. e = [op |-> "refused", at |-> {k - 1}, new |-> << >>]
    BY <1>6 DEF EditAt
  <2> QED
    BY <1>6, <2>1, RefusedEdit DEF Edited
<1> QED
  BY <1>1, <1>2, <1>3, <1>4, <1>5, <1>6

\* What ItemList promises of the call being served.
Promised == Applied(EditOf(req, old), old)

\* The place of the selected entry in a list, 0 if the kind of selector is
\* not one by which such entries are named.
Named(names, byName) ==
  IF IsIndex(Sel) \/ Sel.kind = byName THEN PlaceIn(Sel, names) ELSE 0

\* The statement the call is about.
Owner == StmtNamed(req, old)

\* What the call puts in, if it is a list or a vector.
New == Spliced(Len(Elems))

LEMMA NewIs ==
  ASSUME IInv
  PROVE  /\ Level = "load" => New = [i \in DOMAIN Elems |-> Elems[i].st]
         /\ Level = "str" => New = [i \in DOMAIN Elems |-> Elems[i].s]
         /\ Level = "binding" => New = [i \in DOMAIN Elems |-> Elems[i].b]
<1>1. DOMAIN Elems = 1 .. Len(Elems)
  BY RequestType DEF IInv
<1> QED
  BY <1>1 DEF New, Spliced, ContentOf

\* A call on the package itself.
LEMMA PromisedOfPackage ==
  ASSUME IInv, Fits(Sel), Path = << >>
  PROVE  LET k == Named(KeysOf(old), "str")
         IN  /\ k \in 0 .. Len(old)
             /\ Promised =
                  IF Val.kind = "null" /\ Is(Sel, "loadstmts") THEN << >>
                  ELSE Edited(old, k, Val.kind, "load", Val.st, New)
<1> DEFINE k == Named(KeysOf(old), "str")
<1>1. old \in Seq(Stmt) /\ KeysOf(old) \in Seq(Texts) /\ Len(KeysOf(old)) = Len(old)
  BY KeysType DEF IInv, TypeOK
<1>2. Entry(Sel, KeysOf(old), "str") = k /\ k \in 0 .. Len(old)
  BY <1>1, EntryIsPlace, RequestType DEF IInv, Named
<1>3. CASE Val.kind = "null" /\ Is(Sel, "loadstmts")
  <2>1. EditOf(req, old) = [op |-> "assign", at |-> {}, new |-> << >>]
    BY <1>3 DEF EditOf, Path, Val, Sel
  <2> QED
    BY <1>2, <1>3, <2>1, AssignEdit DEF Promised
<1>4. CASE ~(Val.kind = "null" /\ Is(Sel, "loadstmts"))
  <2>1. Level = "load"
    BY DEF Level
  <2>2. EditOf(req, old) = EditAt(k, req, "load", Val.st, New)
    BY <1>2, <1>4, <2>1, NewIs DEF EditOf, Path, Val, Sel, Elems
  <2> HIDE DEF k
  <2>3. Applied(EditAt(k, req, "load", Val.st, New), old)
          = Edited(old, k, req.val.kind, "load", Val.st, New)
    BY <1>1, <1>2, EditAtLaws
  <2> QED
    BY <1>2, <1>4, <2>2, <2>3 DEF Promised, Val, k
<1> QED
  BY <1>3, <1>4

LEMMA PathType ==
  ASSUME IInv, Path # << >>
  PROVE  Len(Path) \in Nat /\ Len(Path) >= 1 /\ \A i \in 1 .. Len(Path) : Path[i] \in Step
  BY RequestType DEF IInv

LEMMA PathFits ==
  ASSUME IInv, WellFormed(req, old)
  PROVE  Fits(Sel) /\ \A i \in 1 .. Len(Path) : Fits(Path[i])
<1>1. DOMAIN Path = 1 .. Len(Path)
  BY RequestType DEF IInv
<1> QED
  BY <1>1 DEF WellFormed, Sel, Path

\* A call on a statement: the statement ItemList names is the one the code
\* finds.
LEMMA OwnerIs ==
  ASSUME IInv, pc = "dispatch", WellFormed(req, old), Path # << >>
  PROVE  /\ Owner \in 0 .. Len(old)
         /\ Val.kind # "null" => Owner = StmtPlace
         /\ Val.kind = "null" => Owner = RemovalPlace
<1>1. /\ old \in Seq(Stmt) /\ KeysOf(old) \in Seq(Texts) /\ Len(KeysOf(old)) = Len(old)
      /\ old = stmts
  BY KeysType DEF IInv, TypeOK, AtRest
<1>2. Path[1] \in Step /\ Fits(Path[1]) /\ Len(Path) \in Nat /\ Len(Path) >= 1
  BY PathType, PathFits
<1>3. CASE Val.kind = "null" /\ Len(Path) = 2
  <2>1. Owner = Entry(Path[1], KeysOf(old), "str")
    BY <1>3 DEF Owner, StmtNamed, Path, Val
  <2>2. /\ Owner = IF IsPlace(Path[1]) THEN PlaceIn(Path[1], KeysOf(old)) ELSE 0
        /\ Owner \in 0 .. Len(old)
    BY <1>1, <1>2, <2>1, EntryIsPlace DEF IsPlace
  <2> QED
    BY <1>1, <1>3, <2>2 DEF RemovalPlace
<1>4. CASE ~(Val.kind = "null" /\ Len(Path) = 2)
  <2>1. Owner = Entry(Path[1], KeysOf(old), "none")
    BY <1>4 DEF Owner, StmtNamed, Path, Val
  <2>2. Path[1].kind # "none"
    BY <1>2 DEF Step, StepKinds
  <2>3. /\ Owner = IF IsIndex(Path[1]) THEN PlaceIn(Path[1], KeysOf(old)) ELSE 0
        /\ Owner \in 0 .. Len(old)
    BY <1>1, <1>2, <2>1, <2>2, EntryIsPlace
  <2>4. Val.kind = "null" => IsIndex(Path[1])
    <3>1. Val.kind = "null" => Len(Path) <= 2 /\ (Len(Path) = 1 => IsIndex(Path[1]))
      BY DEF WellFormed, Val, Path
    <3>2. PICK c : c = Len(Path)
      OBVIOUS
    <3>3. Val.kind = "null" => c = 1
      BY <1>2, <1>4, <3>1, <3>2
    <3> QED
      BY <3>1, <3>2, <3>3
  <2> QED
    BY <1>1, <2>3, <2>4 DEF RemovalPlace, StmtPlace, IsPlace
<1> QED
  BY <1>3, <1>4

LEMMA PromisedOfPart ==
  ASSUME IInv, Path # << >>, Owner \in 0 .. Len(old)
  PROVE  Promised = IF Owner = 0 THEN old
                    ELSE [old EXCEPT ![Owner] = EditedStmt(req, old[Owner])]
<1>1. old \in Seq(Stmt)
  BY DEF IInv, TypeOK
<1>2. CASE Owner = 0
  <2>1. EditOf(req, old) = [op |-> "refused", at |-> {}, new |-> << >>]
    BY <1>2 DEF EditOf, Owner, Path
  <2> QED
    BY <1>2, <2>1, RefusedEdit DEF Promised
<1>3. CASE Owner # 0
  <2>1. EditOf(req, old)
          = [op |-> "replace", at |-> {Owner - 1}, new |-> <<EditedStmt(req, old[Owner])>>]
    BY <1>3 DEF EditOf, Owner, Path
  <2> QED
    BY <1>1, <1>3, <2>1, ReplaceEdit DEF Promised
<1> QED
  BY <1>2, <1>3

\* The second step of a path says what part is meant.
Second(words) == Len(Path) >= 2 /\ \E w \in words : Is(Path[2], w)

ArgsGo == Val.kind = "null" /\ (Second({"args"}) \/ (Len(Path) = 1 /\ Is(Sel, "args")))

AttrsMeant == Second(AttrWords(req)) /\ Val.kind # "str"

PartMeant == Second(AttrWords(req)) /\ Len(Path) = 3 /\ Val.kind = "str"

PartOwner(st) == Entry(Path[3], KeysOf(st.attrs), "sym")

LEMMA EditedStmtIs ==
  ASSUME IInv, Fits(Sel), Path # << >>, NEW st \in Stmt
  PROVE  EditedStmt(req, st) =
           IF ArgsGo THEN [st EXCEPT !.args = << >>]
           ELSE IF ArgPath
             THEN [st EXCEPT !.args = Edited(st.args, Named(st.args, "str"), Val.kind,
                                             "str", Val.s, New)]
           ELSE IF AttrsMeant
             THEN [st EXCEPT !.attrs = Edited(st.attrs, Named(KeysOf(st.attrs), "sym"), Val.kind,
                                              "binding", Val.b, New)]
           ELSE IF PartMeant /\ PartOwner(st) # 0 /\ Is(Sel, "key")
             THEN [st EXCEPT !.attrs[PartOwner(st)].key = Val.s]
           ELSE IF PartMeant /\ PartOwner(st) # 0 /\ Is(Sel, "value")
             THEN [st EXCEPT !.attrs[PartOwner(st)].v = Val.s]
           ELSE st
<1>1. st.args \in Seq(Texts) /\ st.attrs \in Seq(Binding)
  BY DEF Stmt
<1>2. KeysOf(st.attrs) \in Seq(Texts) /\ Len(KeysOf(st.attrs)) = Len(st.attrs)
  BY <1>1, KeysType
<1>3. Sel \in Step
  BY RequestType DEF IInv
<1> DEFINE argEdit  == EditAt(Entry(Sel, st.args, "str"), req, "str", Val.s,
                             [i \in DOMAIN Elems |-> Elems[i].s])
           attrEdit == EditAt(Entry(Sel, KeysOf(st.attrs), "sym"), req, "binding", Val.b,
                              [i \in DOMAIN Elems |-> Elems[i].b])
<1>4. EditedStmt(req, st) =
        CASE ArgsGo -> [st EXCEPT !.args = << >>]
          [] Second({"arg"}) -> [st EXCEPT !.args = Applied(argEdit, @)]
          [] AttrsMeant -> [st EXCEPT !.attrs = Applied(attrEdit, @)]
          [] PartMeant /\ PartOwner(st) # 0 /\ Is(Sel, "key")
               -> [st EXCEPT !.attrs[PartOwner(st)].key = Val.s]
          [] PartMeant /\ PartOwner(st) # 0 /\ Is(Sel, "value")
               -> [st EXCEPT !.attrs[PartOwner(st)].v = Val.s]
          [] OTHER -> st
  BY DEF EditedStmt, ArgsGo, AttrsMeant, PartMeant, PartOwner, Second, Val, Path, Sel, Elems
<1>5. /\ Second({"arg"}) <=> ArgPath
      /\ ArgPath => ~ArgsGo /\ ~Second(AttrWords(req))
      /\ ArgsGo => ~Second(AttrWords(req))
  <2>1. \A w, x : Is(Path[2], w) /\ Is(Path[2], x) => w = x
    BY DEF Is
  <2>2. AttrWords(req) \subseteq {"@", "attr", "binding"}
    BY DEF AttrWords
  <2>3. Second({"arg"}) <=> ArgPath
    BY DEF Second, ArgPath
  <2>4. ASSUME ArgPath PROVE ~ArgsGo /\ ~Second(AttrWords(req))
    <3>1. Len(Path) # 1 /\ Is(Path[2], "arg")
      BY <2>4, PathType DEF ArgPath
    <3> QED
      BY <2>1, <2>2, <3>1 DEF ArgsGo, Second
  <2>5. ASSUME ArgsGo PROVE ~Second(AttrWords(req))
    <3>1. Len(Path) = 1 \/ Is(Path[2], "args")
      BY <2>5 DEF ArgsGo, Second
    <3>2. Len(Path) = 1 => ~Second(AttrWords(req))
      BY DEF Second
    <3> QED
      BY <2>1, <2>2, <3>1, <3>2 DEF Second
  <2> QED
    BY <2>3, <2>4, <2>5
<1>6. /\ AttrsMeant => Second(AttrWords(req)) /\ ~PartMeant
      /\ PartMeant => Second(AttrWords(req))
      /\ ~(Is(Sel, "key") /\ Is(Sel, "value"))
  BY DEF AttrsMeant, PartMeant, Is
<1>7. ASSUME ArgPath
      PROVE  Applied(argEdit, st.args) = Edited(st.args, Named(st.args, "str"), Val.kind, "str", Val.s, New)
  <2>1. Entry(Sel, st.args, "str") = Named(st.args, "str") /\ Named(st.args, "str") \in 0 .. Len(st.args)
    BY <1>1, <1>3, EntryIsPlace DEF Named
  <2>2. Level = "str"
    <3>1. Path # << >>
      OBVIOUS
    <3> QED
      BY <1>7, <3>1 DEF Level
  <2>3. argEdit = EditAt(Named(st.args, "str"), req, "str", Val.s, New)
    BY <2>1, <2>2, NewIs
  <2>4. Applied(EditAt(Named(st.args, "str"), req, "str", Val.s, New), st.args)
          = Edited(st.args, Named(st.args, "str"), req.val.kind, "str", Val.s, New)
    BY <1>1, <2>1, EditAtLaws
  <2> QED
    BY <2>3, <2>4 DEF Val
<1>8. ASSUME AttrsMeant, ~ArgPath
      PROVE  Applied(attrEdit, st.attrs)
               = Edited(st.attrs, Named(KeysOf(st.attrs), "sym"), Val.kind, "binding", Val.b, New)
  <2>1. /\ Entry(Sel, KeysOf(st.attrs), "sym") = Named(KeysOf(st.attrs), "sym")
        /\ Named(KeysOf(st.attrs), "sym") \in 0 .. Len(st.attrs)
    BY <1>2, <1>3, EntryIsPlace DEF Named
  <2>2. Level = "binding"
    BY <1>8 DEF Level
  <2>3. attrEdit = EditAt(Named(KeysOf(st.attrs), "sym"), req, "binding", Val.b, New)
    BY <2>1, <2>2, NewIs
  <2>4. Applied(EditAt(Named(KeysOf(st.attrs), "sym"), req, "binding", Val.b, New), st.attrs)
          = Edited(st.attrs, Named(KeysOf(st.attrs), "sym"), req.val.kind, "binding", Val.b, New)
    BY <1>1, <2>1, EditAtLaws
  <2> QED
    BY <2>3, <2>4 DEF Val
<1> HIDE DEF argEdit, attrEdit
<1>9. CASE ArgsGo
  BY <1>4, <1>5, <1>6, <1>9
<1>10. CASE ArgPath
  BY <1>4, <1>5, <1>6, <1>7, <1>10
<1>11. CASE ~ArgsGo /\ ~ArgPath /\ AttrsMeant
  BY <1>4, <1>5, <1>6, <1>8, <1>11
<1>12. CASE ~ArgsGo /\ ~ArgPath /\ ~AttrsMeant
  BY <1>4, <1>5, <1>6, <1>12
<1> QED
  BY <1>9, <1>10, <1>11, <1>12

-----------------------------------------------------------------------------
(***************************************************************************)
(* Every way out of the dispatch does what is promised, or begins a splice *)
(* that will.                                                              *)
(***************************************************************************)
Done == pc' # "splice" /\ stmts' = Promised

Begun ==
  /\ pc' = "splice"
  /\ UNCHANGED <<stmts, req, old, n, outcome>>
  /\ at' \in 0 .. Len(ListIn(old))
  /\ Promised = With(old, Around(ListIn(old), at', New))

LEMMA ReturnDone == ASSUME NEW s, NEW out, Return(s, out), s = Promised PROVE Done
  BY DEF Return, Done

\* The splice of the list l that starts at the entry the call names.
LEMMA SpliceBegun ==
  ASSUME IInv, pc = "dispatch", Fits(Sel), Val.kind \in {"list", "vector"},
         Level = "load" \/ StmtPlace \in 1 .. Len(old),
         NEW names, Len(names) = Len(ListIn(old)),
         NEW k \in 0 .. Len(names), IsIndex(Sel) => k = PlaceIn(Sel, names),
         IsIndex(Sel) \/ k # 0, BeginSpliceAt(IndexOf(k)),
         NEW kind \in {"load", "str", "binding"}, NEW one,
         Promised = With(old, Edited(ListIn(old), k, Val.kind, kind, one, New))
  PROVE  Done \/ Begun
<1>1. old = stmts /\ old \in Seq(Stmt)
  BY DEF IInv, AtRest, TypeOK
<1>2. ListIn(old) \in Seq(Entries(Level)) /\ With(old, ListIn(old)) = old
  <2>1. PICK level, p : level = Level /\ p = StmtPlace
    OBVIOUS
  <2>2. level \in Levels /\ (level = "load" \/ p \in 1 .. Len(old))
    BY <2>1, LevelType
  <2>3. ListAt(level, p, old) \in Seq(Entries(level)) /\ WithAt(level, p, old, ListAt(level, p, old)) = old
    BY <1>1, <2>2, ListLaws
  <2> QED
    BY <2>1, <2>3, ListIsListAt
<1>3. Len(names) \in Nat /\ Len(names) = Len(ListIn(stmts))
  BY <1>1, <1>2
<1>4. \/ k = 0 /\ Refuse
      \/ /\ k # 0 /\ pc' = "splice" /\ UNCHANGED <<stmts, req, old, n, outcome>>
         /\ at' = k - (IF Val.kind = "list" THEN 1 ELSE 0)
  BY <1>3, SpliceBegins
<1>5. CASE k = 0
  <2>1. Promised = old
    BY <1>2, <1>5 DEF Edited
  <2> QED
    BY <1>1, <1>4, <1>5, <2>1, ReturnDone DEF Refuse
<1>6. CASE k # 0
  <2>1. k \in 1 .. Len(names) /\ k - 0 = k
    BY <1>3, <1>6
  <2>2. Edited(ListIn(old), k, Val.kind, kind, one, New) = Around(ListIn(old), at', New)
    BY <1>4, <1>6, <2>1 DEF Edited
  <2>3. at' \in 0 .. Len(ListIn(old))
    BY <1>3, <1>4, <1>6, <2>1
  <2> QED
    BY <1>4, <1>6, <2>2, <2>3 DEF Begun
<1> QED
  BY <1>5, <1>6

\* A well-formed call to remove has a path of no step, of a number, or of
\* two steps.
LEMMA ShortRemoval ==
  ASSUME IInv, WellFormed(req, old), Val.kind = "null"
  PROVE  Len(Path) <= 2 /\ (Len(Path) = 1 => IsIndex(Path[1]))
  BY DEF WellFormed, Val, Path

LEMMA OnPackageRefines ==
  ASSUME IInv, pc = "dispatch", WellFormed(req, old),
         \/ ReplaceStmt \/ ReplaceStmtByNode \/ BeginStmtSplice \/ RefuseOnPackage
         \/ RemoveStmt \/ RemoveAllStmts
  PROVE  Done \/ Begun
<1>1. old = stmts /\ old \in Seq(Stmt) /\ Len(KeysOf(old)) = Len(old)
  BY KeysType DEF IInv, AtRest, TypeOK
<1>2. Path = << >>
  <2>1. CASE RemoveStmt \/ RemoveAllStmts
    <3>1. Val.kind = "null"
      BY <2>1 DEF RemoveStmt, RemoveAllStmts, RemovalCall
    <3>2. Path = << >> \/ OnWholeStmts
      BY <2>1 DEF RemoveStmt, RemoveAllStmts
    <3> QED
      BY <3>1, <3>2, ShortRemoval DEF OnWholeStmts
  <2> QED
    BY <2>1 DEF ReplaceStmt, ReplaceStmtByNode, BeginStmtSplice, RefuseOnPackage, PlaceFound,
       SetOnPackage
<1>3. Fits(Sel)
  BY PathFits
<1> DEFINE k == Named(KeysOf(old), "str")
<1>4. /\ k \in 0 .. Len(old)
      /\ Promised = IF Val.kind = "null" /\ Is(Sel, "loadstmts") THEN << >>
                    ELSE Edited(old, k, Val.kind, "load", Val.st, New)
  BY <1>2, <1>3, PromisedOfPackage
<1>5. k = IF IsPlace(Sel) THEN Place ELSE 0
  BY <1>1 DEF Named, IsPlace, Place
<1>6. IsPlace(Sel) => ~Is(Sel, "loadstmts")
  BY DEF IsPlace, IsIndex, Is
<1> HIDE DEF k
<1>7. CASE ReplaceStmt
  <2>1. k = Place /\ k # 0 /\ Val.kind = "load"
    BY <1>5, <1>7 DEF ReplaceStmt, PlaceFound
  <2>2. Promised = [stmts EXCEPT ![Place] = Val.st]
    BY <1>1, <1>4, <2>1 DEF Edited
  <2> QED
    BY <1>7, <2>2, ReturnDone DEF ReplaceStmt
<1>8. CASE ReplaceStmtByNode
  <2>1. Val.kind \notin {"binding", "node"}
    BY <1>2 DEF WellFormed, Val, Path
  <2> QED
    BY <1>8, <2>1 DEF ReplaceStmtByNode
<1>9. CASE BeginStmtSplice
  <2>1. IsPlace(Sel) /\ Place # 0 /\ k = Place /\ Val.kind \in {"list", "vector"}
        /\ BeginSpliceAt(IndexOf(Place))
    BY <1>5, <1>9 DEF BeginStmtSplice, PlaceFound
  <2>2. Level = "load" /\ ListIn(old) = old /\ \A l : With(old, l) = l
    BY <1>2 DEF Level, ListIn, With
  <2>3. Promised = With(old, Edited(ListIn(old), k, Val.kind, "load", Val.st, New))
    BY <1>4, <2>1, <2>2
  <2>4. k = PlaceIn(Sel, KeysOf(old)) /\ k \in 0 .. Len(KeysOf(old))
    BY <1>1, <1>4, <2>1 DEF Place
  <2> QED
    BY <1>1, <1>3, <2>1, <2>2, <2>3, <2>4, SpliceBegun
<1>10. CASE RefuseOnPackage
  <2>1. Val.kind # "null" /\ (k = 0 \/ Val.kind \in {"str", "other"}) /\ Refuse
    BY <1>5, <1>10 DEF RefuseOnPackage, SetOnPackage, SetCall
  <2>2. Promised = stmts
    BY <1>1, <1>4, <2>1 DEF Edited
  <2> QED
    BY <2>1, <2>2, ReturnDone DEF Refuse
<1>11. CASE RemoveStmt
  <2>1. Val.kind = "null" /\ k = Place /\ ~Is(Sel, "loadstmts")
        /\ IF Place # 0 THEN Return(RemoveAt(stmts, Place), "ok") ELSE Refuse
    BY <1>5, <1>6, <1>11 DEF RemoveStmt, RemovalCall
  <2>2. Promised = IF Place # 0 THEN RemoveAt(stmts, Place) ELSE stmts
    BY <1>1, <1>4, <2>1 DEF Edited
  <2> QED
    BY <2>1, <2>2, ReturnDone DEF Refuse
<1>12. CASE RemoveAllStmts
  <2>1. Val.kind = "null" /\ Is(Sel, "loadstmts") /\ Return(<< >>, "ok")
    BY <1>2, <1>12 DEF RemoveAllStmts, RemovalCall
  <2> QED
    BY <1>4, <2>1, ReturnDone
<1> QED
  BY <1>7, <1>8, <1>9, <1>10, <1>11, <1>12

\* The statement a call is about: what is promised of it, and of what the
\* call may do to its parts.
LEMMA PromisedOfStmt ==
  ASSUME IInv, pc = "dispatch", WellFormed(req, old), Path # << >>, Owner # 0
  PROVE  /\ old = stmts /\ old \in Seq(Stmt)
         /\ Owner \in 1 .. Len(old) /\ old[Owner] \in Stmt
         /\ old[Owner].args \in Seq(Texts) /\ old[Owner].attrs \in Seq(Binding)
         /\ Promised = [old EXCEPT ![Owner] = EditedStmt(req, old[Owner])]
         /\ EditedStmt(req, old[Owner]) = old[Owner] => Promised = old
         /\ \A l : /\ EditedStmt(req, old[Owner]) = [old[Owner] EXCEPT !.args = l]
                        => Promised = NewArgs(old, Owner, l)
                   /\ EditedStmt(req, old[Owner]) = [old[Owner] EXCEPT !.attrs = l]
                        => Promised = NewAttrs(old, Owner, l)
         /\ NewArgs(old, Owner, old[Owner].args) = old
         /\ NewAttrs(old, Owner, old[Owner].attrs) = old
<1>1. old = stmts /\ old \in Seq(Stmt)
  BY DEF IInv, AtRest, TypeOK
<1>2. Owner \in 1 .. Len(old)
  BY <1>1, OwnerIs
<1>3. old[Owner] \in Stmt
  BY <1>1, <1>2
<1>4. Promised = [old EXCEPT ![Owner] = EditedStmt(req, old[Owner])]
  BY <1>2, OwnerIs, PromisedOfPart
<1>5. PICK p : p = Owner
  OBVIOUS
<1>6. [old EXCEPT ![p] = old[p]] = old
  BY <1>1, <1>2, <1>5
<1>7. NewArgs(old, p, old[p].args) = old /\ NewAttrs(old, p, old[p].attrs) = old
  BY <1>1, <1>2, <1>5, NewArgsLaws, NewAttrsLaws
<1>8. /\ \A l : NewArgs(old, p, l) = [old EXCEPT ![p] = [old[p] EXCEPT !.args = l]]
      /\ \A l : NewAttrs(old, p, l) = [old EXCEPT ![p] = [old[p] EXCEPT !.attrs = l]]
  BY <1>1, <1>2, <1>5 DEF NewArgs, NewAttrs
<1>9. old[p].args \in Seq(Texts) /\ old[p].attrs \in Seq(Binding)
  BY <1>3, <1>5 DEF Stmt
<1>10. PICK e : e = EditedStmt(req, old[Owner])
  OBVIOUS
<1>11. Promised = [old EXCEPT ![p] = e]
  BY <1>4, <1>5, <1>10
<1>12. e = old[p] => Promised = old
  BY <1>6, <1>11
<1>13. ASSUME NEW l
       PROVE  /\ e = [old[p] EXCEPT !.args = l] => Promised = NewArgs(old, p, l)
              /\ e = [old[p] EXCEPT !.attrs = l] => Promised = NewAttrs(old, p, l)
  BY <1>8, <1>11, Zenon
<1> QED
  BY <1>1, <1>2, <1>3, <1>4, <1>5, <1>7, <1>9, <1>10, <1>12, <1>13, Zenon

\* What a call says of the part of its statement.
LEMMA PartsMeant ==
  ASSUME IInv, Path # << >>
  PROVE  /\ Val.kind # "null" => ~ArgsGo /\ (Second(AttrWords(req)) <=> AttrPath)
         /\ ArgPath => ~ArgsGo /\ ~AttrPath /\ ~Second(AttrWords(req)) /\ Level = "str"
         /\ ~ArgPath => Level = "binding"
         /\ AttrPath => ~ArgPath
<1>1. \A w, x : Is(Path[2], w) /\ Is(Path[2], x) => w = x
  BY DEF Is
<1>2. Val.kind # "null" => ~ArgsGo /\ (Second(AttrWords(req)) <=> AttrPath)
  BY DEF ArgsGo, Second, AttrWords, AttrPath, Val
<1>3. AttrPath => ~ArgPath
  BY <1>1 DEF AttrPath, ArgPath
<1>4. Second(AttrWords(req)) => AttrPath
  BY DEF Second, AttrWords, AttrPath
<1>5. ArgPath => ~ArgsGo
  <2>1. ASSUME ArgPath, ArgsGo PROVE FALSE
    <3>1. Len(Path) # 1 /\ Is(Path[2], "arg")
      BY <2>1, PathType DEF ArgPath
    <3> QED
      BY <1>1, <2>1, <3>1 DEF ArgsGo, Second
  <2> QED
    BY <2>1
<1>6. (ArgPath => Level = "str") /\ (~ArgPath => Level = "binding")
  BY DEF Level
<1> QED
  BY <1>2, <1>3, <1>4, <1>5, <1>6

\* An assignment below :arg.
LEMMA SetArgRefines ==
  ASSUME IInv, pc = "dispatch", WellFormed(req, old),
         \/ RefuseStmtStep \/ ReplaceArg \/ BeginArgSplice \/ RefuseArg \/ IgnoreSet
  PROVE  Done \/ Begun
<1>1. SetCall /\ Path # << >>
  BY DEF RefuseStmtStep, ReplaceArg, BeginArgSplice, RefuseArg, IgnoreSet, ArgAddressed, SetArg,
     InStmt
<1>2. Val.kind # "null" /\ Owner = StmtPlace /\ Owner \in 0 .. Len(old) /\ old = stmts
  BY <1>1, OwnerIs DEF SetCall, IInv, AtRest
<1>3. CASE RefuseStmtStep
  <2>1. Promised = stmts
    BY <1>1, <1>2, <1>3, PromisedOfPart DEF RefuseStmtStep
  <2> QED
    BY <1>3, <2>1, ReturnDone DEF RefuseStmtStep, Refuse
<1>4. SUFFICES ASSUME ~RefuseStmtStep PROVE Done \/ Begun
  BY <1>3
<1>5. Owner # 0
  BY <1>2, <1>4 DEF ReplaceArg, BeginArgSplice, RefuseArg, IgnoreSet, ArgAddressed, SetArg, InStmt
<1> DEFINE st == old[Owner]
           k  == Named(st.args, "str")
           l  == Edited(st.args, k, Val.kind, "str", Val.s, New)
<1>6. /\ st \in Stmt /\ st.args \in Seq(Texts) /\ Owner \in 1 .. Len(old)
      /\ EditedStmt(req, st) = st => Promised = old
      /\ EditedStmt(req, st) = [st EXCEPT !.args = l] => Promised = NewArgs(old, Owner, l)
      /\ NewArgs(old, Owner, st.args) = old
  BY <1>1, <1>5, PromisedOfStmt
<1>7. ArgPath => EditedStmt(req, st) = [st EXCEPT !.args = l]
  BY <1>1, <1>6, PartsMeant, EditedStmtIs, PathFits
<1>8. k \in 0 .. Len(st.args)
  BY <1>6, EntryIsPlace, PathFits, RequestType, PlaceType DEF Named, IInv
<1>9. k = IF IsPlace(Sel) THEN ArgPlace ELSE 0
  BY <1>2 DEF Named, IsPlace, ArgPlace
<1> HIDE DEF st, k
<1>10. ArgPath => Promised = NewArgs(old, Owner, l)
  BY <1>6, <1>7
<1>11. CASE ReplaceArg
  <2>1. ArgPath /\ k = ArgPlace /\ Val.kind = "str"
        /\ IF ArgPlace # 0
             THEN Return([stmts EXCEPT ![StmtPlace].args[ArgPlace] = Val.s], "ok")
             ELSE Refuse
    BY <1>9, <1>11 DEF ReplaceArg, ArgAddressed, SetArg, IsPlace
  <2>2. l = IF ArgPlace # 0 THEN [st.args EXCEPT ![ArgPlace] = Val.s] ELSE st.args
    BY <2>1 DEF Edited
  <2>3. Promised = IF ArgPlace # 0 THEN [stmts EXCEPT ![StmtPlace].args[ArgPlace] = Val.s] ELSE stmts
    BY <1>2, <1>6, <1>10, <2>1, <2>2 DEF NewArgs, st
  <2> QED
    BY <2>1, <2>3, ReturnDone DEF Refuse
<1>12. CASE BeginArgSplice
  <2>1. ArgPath /\ k = ArgPlace /\ Val.kind \in {"list", "vector"}
        /\ BeginSpliceAt(IndexOf(ArgPlace)) /\ (IsIndex(Sel) \/ ArgPlace # 0)
    BY <1>9, <1>12 DEF BeginArgSplice, ArgAddressed, SetArg, IsPlace
  <2>2. Level = "str"
    BY <1>1, <2>1, PartsMeant
  <2>3. ListIn(old) = st.args /\ \A m : With(old, m) = NewArgs(old, Owner, m)
    BY <1>2, <2>2 DEF ListIn, With, NewArgs, st
  <2>4. Promised = With(old, Edited(ListIn(old), k, Val.kind, "str", Val.s, New))
    BY <1>10, <2>1, <2>3
  <2>5. IsIndex(Sel) => k = PlaceIn(Sel, st.args)
    BY <1>2, <2>1 DEF ArgPlace, st
  <2>6. Fits(Sel) /\ StmtPlace \in 1 .. Len(old)
    BY <1>2, <1>6, PathFits
  <2> QED
    BY <1>8, <2>1, <2>3, <2>4, <2>5, <2>6, SpliceBegun
<1>13. CASE RefuseArg
  <2>1. ArgPath /\ k = 0 /\ Refuse
    BY <1>9, <1>13 DEF RefuseArg, SetArg, IsPlace
  <2>2. Promised = stmts
    BY <1>2, <1>6, <1>10, <2>1 DEF Edited
  <2> QED
    BY <2>1, <2>2, ReturnDone DEF Refuse
<1>14. CASE IgnoreSet
  <2>1. CASE ~ArgPath /\ ~AttrPath
    <3>1. ~ArgsGo /\ ~AttrsMeant /\ ~PartMeant
      BY <1>1, <1>2, <2>1, PartsMeant DEF AttrsMeant, PartMeant
    <3>2. EditedStmt(req, st) = st
      BY <1>1, <1>6, <2>1, <3>1, EditedStmtIs, PathFits
    <3> QED
      BY <1>2, <1>6, <1>14, <3>2, ReturnDone DEF IgnoreSet
  <2>2. CASE ArgPath \/ AttrPath
    <3>1. ArgPath /\ Val.kind \notin {"str", "list", "vector"}
      BY <1>14, <2>2 DEF IgnoreSet, ArgAddressed, SetArg
    <3>2. Promised = stmts
      BY <1>2, <1>6, <1>10, <3>1 DEF Edited
    <3> QED
      BY <1>14, <3>2, ReturnDone DEF IgnoreSet
  <2> QED
    BY <2>1, <2>2
<1> QED
  BY <1>4, <1>11, <1>12, <1>13, <1>14

\* A keyword names no attribute: it is spelled with a colon.
LEMMA AttrEntry ==
  ASSUME NEW step \in Step, Fits(step), NEW names \in Seq(Texts)
  PROVE  /\ Entry(step, names, "sym") =
              IF IsIndex(step) \/ IsSymbol(step) THEN PlaceIn(step, names) ELSE 0
         /\ Entry(step, names, "sym") \in 0 .. Len(names)
<1>1. /\ Entry(step, names, "sym") =
           IF IsIndex(step) \/ step.kind = "sym" THEN PlaceIn(step, names) ELSE 0
      /\ Entry(step, names, "sym") \in 0 .. Len(names)
  BY EntryIsPlace
<1>2. ASSUME step.kind \in {"kw", "star"} PROVE PlaceIn(step, names) = 0
  <2>1. step.s \notin Texts /\ ~IsIndex(step)
    BY <1>2 DEF Step, IsIndex
  <2> QED
    BY <2>1, PlaceType
<1> QED
  BY <1>1, <1>2 DEF IsSymbol

\* An assignment below :@.
LEMMA SetAttrRefines ==
  ASSUME IInv, pc = "dispatch", WellFormed(req, old),
         \/ SetKeyOrValue \/ ReplaceAttr \/ ReplaceAttrByNode \/ BeginAttrSplice \/ RefuseAttr
  PROVE  Done \/ Begun
<1>1. SetAttr /\ Path # << >> /\ AttrPath /\ StmtPlace # 0 /\ Val.kind # "null"
  BY DEF SetKeyOrValue, ReplaceAttr, ReplaceAttrByNode, BeginAttrSplice, RefuseAttr, SetAttr,
     InStmt, SetCall
<1>2. Owner = StmtPlace /\ Owner \in 1 .. Len(old) /\ old = stmts
  BY <1>1, OwnerIs, PromisedOfStmt
<1> DEFINE st   == old[Owner]
           keys == KeysOf(st.attrs)
           k    == Named(keys, "sym")
           l    == Edited(st.attrs, k, Val.kind, "binding", Val.b, New)
<1>3. /\ st \in Stmt /\ st.attrs \in Seq(Binding)
      /\ EditedStmt(req, st) = st => Promised = old
      /\ EditedStmt(req, st) = [st EXCEPT !.attrs = l] => Promised = NewAttrs(old, Owner, l)
      /\ Promised = [old EXCEPT ![Owner] = EditedStmt(req, st)]
      /\ NewAttrs(old, Owner, st.attrs) = old
  BY <1>1, <1>2, PromisedOfStmt
<1>4. keys \in Seq(Texts) /\ Len(keys) = Len(st.attrs)
  BY <1>3, KeysType
<1>5. ~ArgPath /\ ~ArgsGo /\ Second(AttrWords(req)) /\ Level = "binding"
  BY <1>1, PartsMeant
<1>6. ASSUME NEW step \in Step, Fits(step)
      PROVE  /\ Entry(step, keys, "sym") =
                  IF IsIndex(step) \/ IsSymbol(step) THEN AttrPlace(step) ELSE 0
             /\ Entry(step, keys, "sym") \in 0 .. Len(st.attrs)
  BY <1>2, <1>4, <1>6, AttrEntry DEF AttrPlace
<1>7. Sel \in Step /\ Fits(Sel)
  BY PathFits, RequestType DEF IInv
<1>8. k = IF IsIndex(Sel) \/ IsSymbol(Sel) THEN AttrPlace(Sel) ELSE 0
  <2>1. Entry(Sel, keys, "sym") = k
    BY <1>4, <1>7, EntryIsPlace DEF Named
  <2> QED
    BY <1>6, <1>7, <2>1
<1>9. k \in 0 .. Len(st.attrs)
  <2>1. Entry(Sel, keys, "sym") = k
    BY <1>4, <1>7, EntryIsPlace DEF Named
  <2> QED
    BY <1>6, <1>7, <2>1
<1>10. Val.kind # "str" => EditedStmt(req, st) = [st EXCEPT !.attrs = l]
  BY <1>1, <1>3, <1>5, <1>7, EditedStmtIs DEF AttrsMeant
<1>11. Val.kind = "str" =>
         EditedStmt(req, st) =
           IF Len(Path) = 3 /\ PartOwner(st) # 0 /\ Is(Sel, "key")
             THEN [st EXCEPT !.attrs[PartOwner(st)].key = Val.s]
           ELSE IF Len(Path) = 3 /\ PartOwner(st) # 0 /\ Is(Sel, "value")
             THEN [st EXCEPT !.attrs[PartOwner(st)].v = Val.s]
           ELSE st
  BY <1>1, <1>3, <1>5, <1>7, EditedStmtIs DEF AttrsMeant, PartMeant
<1>12. Len(Path) = 3 => Path[3] \in Step /\ Fits(Path[3])
                        /\ PartOwner(st) = IF IsIndex(Path[3]) \/ IsSymbol(Path[3])
                                             THEN AttrPlace(Path[3]) ELSE 0
  <2>1. SUFFICES ASSUME Len(Path) = 3
                 PROVE  Path[3] \in Step /\ Fits(Path[3])
                        /\ PartOwner(st) = IF IsIndex(Path[3]) \/ IsSymbol(Path[3])
                                             THEN AttrPlace(Path[3]) ELSE 0
    OBVIOUS
  <2>2. 3 \in 1 .. Len(Path)
    BY <2>1
  <2>3. Path[3] \in Step /\ Fits(Path[3])
    BY <1>1, <2>2, PathFits, PathType
  <2> QED
    BY <1>6, <2>3 DEF PartOwner
<1> HIDE DEF st, keys, k
<1>13. CASE SetKeyOrValue
  <2>1. Val.kind = "str" /\ (Is(Sel, "key") \/ Is(Sel, "value"))
    BY <1>13 DEF SetKeyOrValue
  <2>2. CASE Len(Path) = 3 /\ (IsIndex(Path[3]) \/ IsSymbol(Path[3])) /\ AttrPlace(Path[3]) # 0
    <3>1. PICK j : j = AttrPlace(Path[3])
      OBVIOUS
    <3>2. PartOwner(st) = j /\ j # 0
      BY <1>12, <2>2, <3>1
    <3>3. EditedStmt(req, st) = [st EXCEPT !.attrs[j][Part] = Val.s]
      BY <1>11, <2>1, <2>2, <3>2 DEF Part
    <3>4. Promised = [stmts EXCEPT ![StmtPlace].attrs[j][Part] = Val.s]
      BY <1>2, <1>3, <3>3 DEF st
    <3>5. JudgedByErrno(Path[3], [stmts EXCEPT ![StmtPlace].attrs[j][Part] = Val.s])
      BY <1>13, <2>2, <3>1 DEF SetKeyOrValue
    <3> QED
      BY <3>4, <3>5, ReturnDone DEF JudgedByErrno
  <2>3. CASE ~(Len(Path) = 3 /\ (IsIndex(Path[3]) \/ IsSymbol(Path[3])) /\ AttrPlace(Path[3]) # 0)
    <3>1. EditedStmt(req, st) = st
      BY <1>11, <1>12, <2>1, <2>3
    <3>2. Refuse
      BY <1>13, <2>3 DEF SetKeyOrValue
    <3> QED
      BY <1>2, <1>3, <3>1, <3>2, ReturnDone DEF Refuse
  <2> QED
    BY <2>2, <2>3
<1>14. CASE ReplaceAttr
  <2>1. Val.kind = "binding" /\ k = AttrPlace(Sel)
    BY <1>8, <1>14 DEF ReplaceAttr
  <2>2. Promised = NewAttrs(old, Owner, l)
    BY <1>3, <1>10, <2>1
  <2>3. l = IF k = 0 THEN st.attrs ELSE [st.attrs EXCEPT ![k] = Val.b]
    BY <2>1 DEF Edited
  <2>4. Promised = IF AttrPlace(Sel) # 0 THEN [stmts EXCEPT ![StmtPlace].attrs[AttrPlace(Sel)] = Val.b]
                   ELSE stmts
    BY <1>2, <1>3, <2>1, <2>2, <2>3 DEF NewAttrs, st
  <2> QED
    BY <1>14, <2>4, ReturnDone DEF ReplaceAttr, JudgedByErrno, Refuse
<1>15. CASE ReplaceAttrByNode
  <2>1. Val.kind \notin {"load", "node"}
    BY <1>1, <1>5 DEF WellFormed, Val, Path, ArgPath
  <2> QED
    BY <1>15, <2>1 DEF ReplaceAttrByNode
<1>16. CASE BeginAttrSplice
  <2>1. k = AttrPlace(Sel) /\ Val.kind \in {"list", "vector"}
        /\ BeginSpliceAt(IndexOf(AttrPlace(Sel))) /\ (IsIndex(Sel) \/ AttrPlace(Sel) # 0)
    BY <1>8, <1>16 DEF BeginAttrSplice
  <2>2. ListIn(old) = st.attrs /\ \A m : With(old, m) = NewAttrs(old, Owner, m)
    BY <1>2, <1>5 DEF ListIn, With, NewAttrs, st
  <2>3. Promised = With(old, Edited(ListIn(old), k, Val.kind, "binding", Val.b, New))
    BY <1>3, <1>10, <2>1, <2>2
  <2>4. IsIndex(Sel) => k = PlaceIn(Sel, keys)
    BY <1>2, <2>1 DEF AttrPlace, st, keys
  <2> QED
    BY <1>2, <1>4, <1>7, <1>9, <2>1, <2>2, <2>3, <2>4, SpliceBegun
<1>17. CASE RefuseAttr
  <2>1. Refuse
    BY <1>17 DEF RefuseAttr
  <2>2. CASE Val.kind = "str"
    <3>1. ~Is(Sel, "key") /\ ~Is(Sel, "value")
      BY <1>17, <2>2 DEF RefuseAttr
    <3>2. EditedStmt(req, st) = st
      BY <1>11, <2>2, <3>1
    <3> QED
      BY <1>2, <1>3, <2>1, <3>2, ReturnDone DEF Refuse
  <2>3. CASE Val.kind # "str"
    <3>1. k = 0 \/ Val.kind \in {"other", "load", "node"}
      BY <1>8, <1>17, <2>3 DEF RefuseAttr
    <3>2. l = st.attrs
      BY <1>1, <3>1 DEF Edited
    <3> QED
      BY <1>2, <1>3, <1>10, <2>1, <2>3, <3>2, ReturnDone DEF Refuse
  <2> QED
    BY <2>2, <2>3
<1> QED
  BY <1>13, <1>14, <1>15, <1>16, <1>17

\* A removal of a part of a statement.
LEMMA RemovalRefines ==
  ASSUME IInv, pc = "dispatch", WellFormed(req, old), Path # << >>,
         RemoveArgs \/ RemoveArg \/ RemoveAttr \/ RefuseRemoval \/ RemovalFallsThrough
  PROVE  Done
<1>1. Val.kind = "null"
  BY DEF RemoveArgs, RemoveArg, RemoveAttr, RefuseRemoval, RemovalFallsThrough, InRemoval, RemovalCall
<1>2. /\ Owner = RemovalPlace /\ Owner \in 0 .. Len(old) /\ old = stmts
      /\ Len(Path) <= 2 /\ (Len(Path) = 1 => IsIndex(Path[1]))
  BY <1>1, OwnerIs, ShortRemoval DEF IInv, AtRest
<1>3. Sel \in Step /\ Fits(Sel)
  BY PathFits, RequestType DEF IInv
<1>4. CASE Owner = 0
  <2>1. Promised = stmts
    BY <1>2, <1>4, PromisedOfPart
  <2>2. Refuse
    BY <1>2, <1>4, PathType
       DEF RemoveArgs, RemoveArg, RemoveAttr, RefuseRemoval, RemovalFallsThrough, InRemoval
  <2> QED
    BY <2>1, <2>2, ReturnDone DEF Refuse
<1>5. SUFFICES ASSUME Owner # 0 PROVE Done
  BY <1>4
<1> DEFINE st == old[Owner]
           args == Edited(st.args, Named(st.args, "str"), Val.kind, "str", Val.s, New)
           attrs == Edited(st.attrs, Named(KeysOf(st.attrs), "sym"), Val.kind, "binding", Val.b, New)
<1>6. /\ st \in Stmt /\ st.args \in Seq(Texts) /\ st.attrs \in Seq(Binding)
      /\ Owner \in 1 .. Len(old)
      /\ EditedStmt(req, st) = st => Promised = old
      /\ \A l : /\ EditedStmt(req, st) = [st EXCEPT !.args = l] => Promised = NewArgs(old, Owner, l)
                /\ EditedStmt(req, st) = [st EXCEPT !.attrs = l] => Promised = NewAttrs(old, Owner, l)
      /\ NewArgs(old, Owner, st.args) = old
      /\ NewAttrs(old, Owner, st.attrs) = old
  BY <1>5, PromisedOfStmt
<1>7. ~PartMeant /\ (AttrsMeant <=> Second({"@", "binding"}))
  BY <1>1 DEF PartMeant, AttrsMeant, AttrWords, Val
<1>8. EditedStmt(req, st) = IF ArgsGo THEN [st EXCEPT !.args = << >>]
                            ELSE IF ArgPath THEN [st EXCEPT !.args = args]
                            ELSE IF AttrsMeant THEN [st EXCEPT !.attrs = attrs]
                            ELSE st
  BY <1>3, <1>6, <1>7, EditedStmtIs
<1>9. /\ args = IF IsPlace(Sel) /\ PlaceIn(Sel, st.args) # 0
                  THEN RemoveAt(st.args, PlaceIn(Sel, st.args)) ELSE st.args
      /\ attrs = IF (IsIndex(Sel) \/ IsSymbol(Sel)) /\ PlaceIn(Sel, KeysOf(st.attrs)) # 0
                   THEN RemoveAt(st.attrs, PlaceIn(Sel, KeysOf(st.attrs))) ELSE st.attrs
  <2>1. KeysOf(st.attrs) \in Seq(Texts)
    BY <1>6, KeysType
  <2>2. Named(KeysOf(st.attrs), "sym") =
          IF IsIndex(Sel) \/ IsSymbol(Sel) THEN PlaceIn(Sel, KeysOf(st.attrs)) ELSE 0
    BY <1>3, <2>1, AttrEntry, EntryIsPlace DEF Named
  <2>3. Named(st.args, "str") = IF IsPlace(Sel) THEN PlaceIn(Sel, st.args) ELSE 0
    BY DEF Named, IsPlace
  <2> QED
    BY <1>1, <2>2, <2>3 DEF Edited
<1>10. \A w, x : Is(Path[2], w) /\ Is(Path[2], x) => w = x
  BY DEF Is
<1> HIDE DEF st, args, attrs
<1>11. CASE RemoveArgs
  <2>1. ArgsGo
    BY <1>1, <1>11 DEF RemoveArgs, ArgsGo, Second
  <2>2. Promised = [stmts EXCEPT ![RemovalPlace].args = << >>]
    BY <1>2, <1>6, <1>8, <2>1 DEF NewArgs
  <2> QED
    BY <1>11, <2>2, ReturnDone DEF RemoveArgs
<1>12. CASE RemoveArg
  <2>1. ArgPath /\ ~ArgsGo /\ IsPlace(Sel)
    BY <1>12, PartsMeant DEF RemoveArg, InRemoval, ArgPath
  <2>2. Promised = NewArgs(old, Owner, args)
    BY <1>6, <1>8, <2>1
  <2>3. Promised = IF PlaceIn(Sel, stmts[RemovalPlace].args) # 0
                     THEN [stmts EXCEPT ![RemovalPlace].args
                             = RemoveAt(@, PlaceIn(Sel, stmts[RemovalPlace].args))]
                     ELSE stmts
    BY <1>2, <1>6, <1>9, <2>1, <2>2 DEF NewArgs, st
  <2> QED
    BY <1>12, <2>3, ReturnDone DEF RemoveArg, Refuse
<1>13. CASE RemoveAttr
  <2>1. Len(Path) = 2 /\ (Is(Path[2], "@") \/ Is(Path[2], "binding"))
        /\ (IsIndex(Sel) \/ IsSymbol(Sel))
    BY <1>13 DEF RemoveAttr, InRemoval
  <2>2. AttrsMeant
    BY <1>7, <2>1 DEF Second
  <2>3. ~ArgPath /\ ~ArgsGo
    BY <1>10, <2>1 DEF ArgPath, ArgsGo, Second
  <2>4. Promised = NewAttrs(old, Owner, attrs)
    BY <1>6, <1>8, <2>2, <2>3
  <2> DEFINE k    == PlaceIn(Sel, KeysOf(stmts[RemovalPlace].attrs))
             left == [stmts EXCEPT ![RemovalPlace].attrs = RemoveAt(@, k)]
  <2>5. Promised = IF k # 0 THEN left ELSE stmts
    BY <1>2, <1>6, <1>9, <2>1, <2>4 DEF NewAttrs, st
  <2>6. \/ k # 0 /\ (Return(left, "ok") \/ Return(left, "error"))
        \/ k = 0 /\ Refuse
    BY <1>13 DEF RemoveAttr
  <2> HIDE DEF k, left
  <2> QED
    BY <2>5, <2>6, ReturnDone DEF Refuse
<1>14. CASE RefuseRemoval
  <2>1. Refuse
    BY <1>14 DEF RefuseRemoval
  <2>2. CASE Len(Path) = 1
    <3>1. ~Is(Sel, "args")
      BY <1>2, <1>5, <1>14, <2>2 DEF RefuseRemoval
    <3>2. ~ArgsGo /\ ~ArgPath /\ ~AttrsMeant
      BY <1>7, <2>2, <3>1 DEF ArgsGo, ArgPath, Second
    <3> QED
      BY <1>2, <1>6, <1>8, <2>1, <3>2, ReturnDone DEF Refuse
  <2>3. CASE Len(Path) # 1
    <3>1. Len(Path) = 2
      <4>1. PICK c : c = Len(Path)
        OBVIOUS
      <4>2. c \in Nat /\ c >= 1 /\ c <= 2 /\ c # 1
        BY <1>2, <2>3, <4>1, PathType
      <4>3. c = 2
        BY <4>2
      <4> QED
        BY <4>1, <4>3
    <3>2. CASE ~\E w \in {"arg", "args", "@", "binding"} : Is(Path[2], w)
      <4>1. ~ArgsGo /\ ~ArgPath /\ ~AttrsMeant
        BY <1>7, <3>1, <3>2 DEF ArgsGo, ArgPath, Second
      <4> QED
        BY <1>2, <1>6, <1>8, <2>1, <4>1, ReturnDone DEF Refuse
    <3>3. CASE Is(Path[2], "arg") /\ ~IsPlace(Sel)
      <4>1. ArgPath /\ ~ArgsGo
        BY <3>1, <3>3, PartsMeant DEF ArgPath
      <4>2. Promised = NewArgs(old, Owner, st.args)
        BY <1>6, <1>8, <1>9, <3>3, <4>1
      <4> QED
        BY <1>2, <1>6, <2>1, <4>2, ReturnDone DEF Refuse
    <3>4. CASE (Is(Path[2], "@") \/ Is(Path[2], "binding")) /\ ~IsIndex(Sel) /\ ~IsSymbol(Sel)
      <4>1. ~ArgPath /\ ~ArgsGo /\ AttrsMeant
        BY <1>7, <1>10, <3>1, <3>4 DEF ArgPath, ArgsGo, Second
      <4>2. Promised = NewAttrs(old, Owner, st.attrs)
        BY <1>6, <1>8, <1>9, <3>4, <4>1
      <4> QED
        BY <1>2, <1>6, <2>1, <4>2, ReturnDone DEF Refuse
    <3> QED
      BY <1>2, <1>5, <1>14, <3>1, <3>2, <3>3, <3>4 DEF RefuseRemoval
  <2> QED
    BY <2>2, <2>3
<1>15. CASE RemovalFallsThrough
  BY <1>2, <1>15 DEF RemovalFallsThrough
<1> QED
  BY <1>11, <1>12, <1>13, <1>14, <1>15

LEMMA DispatchRefines ==
  ASSUME IInv, Dispatch, WellFormed(req, old)
  PROVE  Done \/ Begun
<1>1. pc = "dispatch"
  BY DispatchPc
<1>2. CASE RemoveArgs \/ RemoveArg \/ RemoveAttr \/ RefuseRemoval \/ RemovalFallsThrough
  <2>1. CASE Path # << >>
    BY <1>1, <1>2, <2>1, RemovalRefines
  <2>2. CASE Path = << >>
    <3>1. Val.kind = "null" /\ RefuseRemoval
      BY <1>2, <2>2 DEF RemoveArgs, RemoveArg, RemoveAttr, RefuseRemoval, RemovalFallsThrough,
         InRemoval, RemovalCall
    <3>2. Refuse /\ ~IsPlace(Sel) /\ ~Is(Sel, "loadstmts")
      BY <2>2, <3>1 DEF RefuseRemoval
    <3>3. Named(KeysOf(old), "str") = 0
      BY <3>2 DEF Named, IsPlace
    <3>4. Promised = Edited(old, 0, Val.kind, "load", Val.st, New)
      BY <2>2, <3>2, <3>3, PathFits, PromisedOfPackage
    <3>5. Promised = stmts
      BY <1>1, <3>4 DEF Edited, IInv, AtRest
    <3> QED
      BY <3>2, <3>5, ReturnDone DEF Refuse
  <2> QED
    BY <2>1, <2>2
<1> QED
  BY <1>1, <1>2, OnPackageRefines, SetArgRefines, SetAttrRefines DEF Dispatch

-----------------------------------------------------------------------------
(***************************************************************************)
(* What a splice comes to is what is promised.                             *)
(***************************************************************************)

\* A splice of a well-formed call inserts where it was told to.
SpliceAsPromised ==
  pc = "splice" /\ WellFormed(req, old) =>
    /\ at \in 0 .. Len(ListIn(old))
    /\ Promised = With(old, Around(ListIn(old), at, New))

\* The list a splice edits stays where it is.
LEMMA SpliceNextFrame ==
  ASSUME IInv, SpliceNext
  PROVE  /\ UNCHANGED <<pc, req, old, at>> /\ pc = "splice"
         /\ ListIn(old)' = ListIn(old)
         /\ \A l : With(old, l)' = With(old, l)
         /\ New' = New
<1>1. pc = "splice" /\ UNCHANGED <<pc, req, old, at>>
  BY DEF SpliceNext, Turn
<1>2. Level' = Level /\ Path' = Path /\ Elems' = Elems
  BY <1>1 DEF Level, ArgPath, Path, Elems, Val
<1>3. Level = "load" \/ StmtPlace' = StmtPlace
  <2>1. SUFFICES ASSUME Level # "load" PROVE StmtPlace' = StmtPlace
    OBVIOUS
  <2>2. stmts \in Seq(Stmt) /\ stmts' \in Seq(Stmt)
    BY SpliceNextKeeps DEF IInv, TypeOK
  <2>3. PICK l : stmts' = With(stmts, l)
    BY DEF SpliceNext
  <2>4. DOMAIN stmts' = DOMAIN stmts
    BY <2>1, <2>2, <2>3 DEF With
  <2>5. Len(stmts') = Len(stmts)
    BY <2>2, <2>4
  <2>6. IsIndex(Path[1])
    BY <1>1, <2>1, <2>2 DEF IInv, ListExists, StmtPlace, TypeOK
  <2>7. Len(KeysOf(stmts')) = Len(KeysOf(stmts))
    BY <2>2, <2>5, KeysType
  <2>8. PlaceIn(Path[1], KeysOf(stmts')) = PlaceIn(Path[1], KeysOf(stmts))
    BY <2>6, <2>7, PlaceByLength
  <2> QED
    BY <1>2, <2>6, <2>8 DEF StmtPlace
<1>4. ListIn(old)' = ListIn(old)
  BY <1>1, <1>2, <1>3 DEF ListIn
<1>5. ASSUME NEW l PROVE With(old, l)' = With(old, l)
  BY <1>1, <1>2, <1>3 DEF With
<1>6. New' = New
  BY <1>2 DEF New, Spliced, ContentOf
<1> QED
  BY <1>1, <1>4, <1>5, <1>6

\* The dispatch ends the call, or has changed nothing and goes on to a splice.
LEMMA DispatchEnds ==
  ASSUME Dispatch
  PROVE  \/ pc' \in {"idle", "crashed"}
         \/ pc' = "splice" /\ UNCHANGED <<stmts, req, old, n, outcome>>
<1>1. SUFFICES ASSUME pc' # "idle", pc' # "crashed"
               PROVE  pc' = "splice" /\ UNCHANGED <<stmts, req, old, n, outcome>>
  OBVIOUS
<1>2. ASSUME NEW s, NEW out, Return(s, out) PROVE FALSE
  BY <1>1, <1>2 DEF Return
<1>3. ASSUME Refuse PROVE FALSE
  BY <1>2, <1>3 DEF Refuse
<1>4. ASSUME NEW i, BeginSpliceAt(i)
      PROVE  pc' = "splice" /\ UNCHANGED <<stmts, req, old, n, outcome>>
  BY <1>3, <1>4 DEF BeginSpliceAt
<1>5. CASE BeginStmtSplice \/ BeginArgSplice \/ BeginAttrSplice
  BY <1>4, <1>5 DEF BeginStmtSplice, BeginArgSplice, BeginAttrSplice
<1>6. ~ReplaceStmt /\ ~ReplaceStmtByNode /\ ~RefuseOnPackage /\ ~RefuseStmtStep
  BY <1>2, <1>3 DEF ReplaceStmt, ReplaceStmtByNode, RefuseOnPackage, RefuseStmtStep
<1>7. ~ReplaceArg /\ ~RefuseArg /\ ~IgnoreSet /\ ~RefuseAttr
  BY <1>2, <1>3 DEF ReplaceArg, RefuseArg, IgnoreSet, RefuseAttr
<1>8. ~SetKeyOrValue /\ ~ReplaceAttr /\ ~ReplaceAttrByNode
  BY <1>2, <1>3 DEF SetKeyOrValue, ReplaceAttr, ReplaceAttrByNode, JudgedByErrno
<1>9. ~RemoveStmt /\ ~RemoveAllStmts /\ ~RemoveArgs /\ ~RemoveArg
  BY <1>2, <1>3 DEF RemoveStmt, RemoveAllStmts, RemoveArgs, RemoveArg
<1>10. ~RemoveAttr /\ ~RefuseRemoval /\ ~RemovalFallsThrough
  BY <1>1, <1>2, <1>3 DEF RemoveAttr, RefuseRemoval, RemovalFallsThrough
<1> QED
  BY <1>5, <1>6, <1>7, <1>8, <1>9, <1>10 DEF Dispatch

LEMMA NextAsPromised ==
  ASSUME IInv, SpliceAsPromised, [Next]_vars
  PROVE  SpliceAsPromised'
<1>1. CASE \E r \in Requests : Receive(r)
  BY <1>1 DEF Receive, SpliceAsPromised
<1>2. CASE Dispatch
  <2>1. SUFFICES ASSUME pc' = "splice", WellFormed(req, old)'
                 PROVE  /\ at' \in 0 .. Len(ListIn(old)')
                        /\ Promised' = With(old, Around(ListIn(old), at, New))'
    BY DEF SpliceAsPromised
  <2>2. UNCHANGED <<stmts, req, old, n, outcome>>
    BY <1>2, <2>1, DispatchEnds
  <2>3. WellFormed(req, old)
    BY <2>1, <2>2
  <2>4. Begun
    BY <1>2, <2>1, <2>3, DispatchRefines DEF Done
  <2>5. Promised' = Promised
    BY <2>2 DEF Promised
  <2>6. Level' = Level /\ StmtPlace' = StmtPlace /\ Elems' = Elems
    BY <2>2 DEF Level, StmtPlace, ArgPath, Elems, Val, Path
  <2>7. ListIn(old)' = ListIn(old) /\ New' = New
    BY <2>2, <2>6 DEF ListIn, New, Spliced, ContentOf
  <2>8. Around(ListIn(old), at, New)' = Around(ListIn(old), at', New)
    BY <2>7 DEF Around
  <2>9. With(old, Around(ListIn(old), at, New))' = With(old, Around(ListIn(old), at', New))
    BY <2>2, <2>6, <2>8 DEF With
  <2> QED
    BY <2>4, <2>5, <2>7, <2>9 DEF Begun
<1>3. CASE SpliceNext
  <2>1. /\ UNCHANGED <<pc, req, old, at>>
        /\ ListIn(old)' = ListIn(old) /\ New' = New
        /\ \A l : With(old, l)' = With(old, l)
    BY <1>3, SpliceNextFrame
  <2>2. Promised' = Promised /\ (WellFormed(req, old)' <=> WellFormed(req, old))
    BY <2>1 DEF Promised
  <2>3. Around(ListIn(old), at, New)' = Around(ListIn(old), at, New)
    BY <2>1 DEF Around
  <2>4. With(old, Around(ListIn(old), at, New))' = With(old, Around(ListIn(old), at, New))
    BY <2>1, <2>3 DEF With
  <2> QED
    BY <2>1, <2>2, <2>4 DEF SpliceAsPromised
<1>4. CASE SpliceFails \/ EndSplice
  BY <1>4 DEF SpliceFails, EndSplice, Return, SpliceAsPromised
<1>5. CASE UNCHANGED vars
  <2>1. UNCHANGED <<stmts, pc, req, old, n, at, outcome>>
    BY <1>5 DEF vars
  <2>2. Level' = Level /\ StmtPlace' = StmtPlace /\ Elems' = Elems
    BY <2>1 DEF Level, StmtPlace, ArgPath, Elems, Val, Path
  <2>3. ListIn(old)' = ListIn(old) /\ New' = New /\ Promised' = Promised
    BY <2>1, <2>2 DEF ListIn, New, Spliced, ContentOf, Promised
  <2>4. Around(ListIn(old), at, New)' = Around(ListIn(old), at, New)
    BY <2>1, <2>3 DEF Around
  <2>5. With(old, Around(ListIn(old), at, New))' = With(old, Around(ListIn(old), at, New))
    BY <2>1, <2>2, <2>4 DEF With
  <2> QED
    BY <2>1, <2>3, <2>5 DEF SpliceAsPromised
<1> QED
  BY <1>1, <1>2, <1>3, <1>4, <1>5 DEF Next, LoopTurn

\* A splice of a well-formed call ends when all elements are in.
LEMMA LoopRefines ==
  ASSUME IInv, SpliceAsPromised, WellFormed(req, old), SpliceFails \/ EndSplice
  PROVE  Done
<1>1. /\ pc = "splice" /\ stmts' = stmts /\ pc' = "idle"
      /\ n \in Nat /\ Len(Elems) \in Nat
  BY RequestType DEF SpliceFails, EndSplice, Turn, Return, IInv, TypeOK
<1> DEFINE l == ListIn(old)
<1>2. at \in 0 .. Len(l) /\ Promised = With(old, Around(l, at, New))
  BY <1>1 DEF SpliceAsPromised
<1>3. n > 0 \/ at \in 0 .. Len(ListIn(stmts))
  <2>1. n = 0 => stmts = old
    BY <1>1 DEF IInv, SpliceInPlace
  <2> QED
    BY <1>1, <1>2, <2>1
<1>4. /\ n <= Len(Elems) /\ l \in Seq(Entries(Level))
      /\ ListIn(stmts) = Around(l, at, Spliced(n)) /\ stmts = With(old, ListIn(stmts))
  BY <1>1, <1>3, SpliceState
<1>5. CASE EndSplice
  <2>1. Spliced(n) = New
    BY <1>5 DEF EndSplice, New
  <2> QED
    BY <1>1, <1>2, <1>4, <2>1 DEF Done
<1>6. CASE SpliceFails
  <2>1. n < Len(Elems) /\ (Elems[n + 1].kind # Level \/ at + n \notin 0 .. Len(ListIn(stmts)))
    BY <1>6 DEF SpliceFails, Turn
  <2>2. Elems[n + 1].kind = Level
    <3>1. n + 1 \in DOMAIN Elems
      BY <1>1, <2>1, RequestType DEF IInv
    <3>2. \A i \in DOMAIN Elems : Elems[i].kind = Level
      BY DEF WellFormed, Level, ArgPath, Elems, Val, Path
    <3> QED
      BY <3>1, <3>2
  <2>3. Spliced(n) \in Seq(Entries(Level)) /\ Len(Spliced(n)) = n
    BY <1>1, <1>4, SplicedInType DEF IInv
  <2> HIDE DEF l
  <2>4. Len(ListIn(stmts)) = Len(l) + n
    <3>1. Len(Around(l, at, Spliced(n))) = Len(l) + Len(Spliced(n))
      <4>1. PICK S : S = Entries(Level)
        OBVIOUS
      <4>2. l \in Seq(S) /\ at \in 0 .. Len(l) /\ Spliced(n) \in Seq(S)
        BY <1>2, <1>4, <2>3, <4>1
      <4> QED
        BY <4>2, AroundType
    <3> QED
      BY <1>4, <2>3, <3>1
  <2>5. Len(l) \in Nat
    BY <1>4
  <2> QED
    BY <1>1, <1>2, <2>1, <2>2, <2>4, <2>5
<1> QED
  BY <1>5, <1>6

-----------------------------------------------------------------------------
(***************************************************************************)
(* The step of ItemList a step of the code is.                             *)
(***************************************************************************)
LEMMA EditOps ==
  ASSUME NEW r, NEW s
  PROVE  EditOf(r, s).op \in {"refused", "replace", "before", "after", "drop", "assign"}
<1>1. ASSUME NEW k, NEW kind, NEW one, NEW many
      PROVE  EditAt(k, r, kind, one, many).op \in {"refused", "replace", "before", "after", "drop"}
  BY DEF EditAt
<1>2. CASE r.path = << >> /\ r.val.kind = "null" /\ Is(r.sel, "loadstmts")
  BY <1>2 DEF EditOf
<1>3. CASE r.path = << >> /\ ~(r.val.kind = "null" /\ Is(r.sel, "loadstmts"))
  <2>1. EditOf(r, s) = EditAt(Entry(r.sel, KeysOf(s), "str"), r, "load", r.val.st,
                              [i \in DOMAIN r.val.elems |-> r.val.elems[i].st])
    BY <1>3 DEF EditOf
  <2> QED
    BY <1>1, <2>1
<1>4. CASE r.path # << >>
  BY <1>4 DEF EditOf
<1> QED
  BY <1>2, <1>3, <1>4

\* The definitions ItemList has of its own.
LEMMA AbstractApplied ==
  ASSUME NEW e, NEW s PROVE Abstract!Applied(e, s) = Applied(e, s)
<1>c. \A S : Abstract!Cardinality(S) = Cardinality(S)
  BY DEF Abstract!Cardinality, Cardinality
<1>p. \A S, p : Abstract!CountTo(S, p) = CountTo(S, p)
  BY <1>c DEF Abstract!CountTo, CountTo
<1>n. \A S, k : Abstract!NthPlace(S, k) = NthPlace(S, k)
  BY <1>p, Zenon DEF Abstract!NthPlace, NthPlace
<1>1. \A t, S : Abstract!Selected(t, S) = Selected(t, S)
  BY <1>c, <1>n DEF Abstract!Selected, Selected
<1>2. \A D : Abstract!Without(s, D) = Without(s, D)
  BY <1>1 DEF Abstract!Without, Without
<1>3. \A k, new : Abstract!SpliceIn(s, k, new) = SpliceIn(s, k, new)
  BY DEF Abstract!SpliceIn, SpliceIn
<1> QED
  BY <1>2, <1>3 DEF Abstract!Applied, Applied

LEMMA EditedType ==
  ASSUME NEW X, NEW s \in Seq(X), NEW k \in 0 .. Len(s), NEW given, NEW kind,
         NEW one \in X, NEW many \in Seq(X)
  PROVE  Edited(s, k, given, kind, one, many) \in Seq(X)
<1>1. CASE k = 0
  BY <1>1 DEF Edited
<1>2. CASE k # 0
  <2>1. k \in 1 .. Len(s) /\ k - 1 \in 0 .. Len(s) /\ k \in 0 .. Len(s)
    BY <1>2
  <2>2. RemoveAt(s, k) \in Seq(X)
    BY <2>1, RemoveAtType
  <2>3. Around(s, k - 1, many) \in Seq(X) /\ Around(s, k, many) \in Seq(X)
    BY <2>1, AroundType
  <2>4. [s EXCEPT ![k] = one] \in Seq(X)
    BY <2>1
  <2> QED
    BY <1>2, <2>2, <2>3, <2>4 DEF Edited
<1> QED
  BY <1>1, <1>2

LEMMA EditedStmtType ==
  ASSUME IInv, WellFormed(req, old), Path # << >>, NEW st \in Stmt
  PROVE  EditedStmt(req, st) \in Stmt
<1>1. st.args \in Seq(Texts) /\ st.attrs \in Seq(Binding)
  BY DEF Stmt
<1>2. KeysOf(st.attrs) \in Seq(Texts) /\ Len(KeysOf(st.attrs)) = Len(st.attrs)
  BY <1>1, KeysType
<1>3. /\ Sel \in Step /\ Fits(Sel) /\ Val.s \in Texts /\ Val.b \in Binding
      /\ Len(Elems) \in Nat /\ New \in Seq(Entries(Level))
  BY PathFits, RequestType, SplicedInType DEF IInv, New
<1>4. /\ Named(st.args, "str") \in 0 .. Len(st.args)
      /\ Named(KeysOf(st.attrs), "sym") \in 0 .. Len(st.attrs)
  BY <1>1, <1>2, <1>3, PlaceType DEF Named
<1>5. ASSUME NEW l \in Seq(Texts) PROVE [st EXCEPT !.args = l] \in Stmt
  BY DEF Stmt
<1>6. ASSUME NEW l \in Seq(Binding) PROVE [st EXCEPT !.attrs = l] \in Stmt
  BY DEF Stmt
<1>7. CASE ArgsGo
  <2>1. EditedStmt(req, st) = [st EXCEPT !.args = << >>]
    BY <1>3, <1>7, EditedStmtIs
  <2>2. << >> \in Seq(Texts)
    OBVIOUS
  <2> QED
    BY <1>5, <2>1, <2>2
<1>8. CASE ~ArgsGo /\ ArgPath
  <2> DEFINE l == Edited(st.args, Named(st.args, "str"), Val.kind, "str", Val.s, New)
  <2>1. EditedStmt(req, st) = [st EXCEPT !.args = l]
    BY <1>3, <1>8, EditedStmtIs
  <2>2. New \in Seq(Texts)
    BY <1>3, <1>8, PartsMeant DEF Entries
  <2>3. l \in Seq(Texts)
    BY <1>1, <1>3, <1>4, <2>2, EditedType
  <2> HIDE DEF l
  <2> QED
    BY <1>5, <2>1, <2>3
<1>9. CASE ~ArgsGo /\ ~ArgPath /\ AttrsMeant
  <2> DEFINE l == Edited(st.attrs, Named(KeysOf(st.attrs), "sym"), Val.kind, "binding", Val.b, New)
  <2>1. EditedStmt(req, st) = [st EXCEPT !.attrs = l]
    BY <1>3, <1>9, EditedStmtIs
  <2>2. New \in Seq(Binding)
    BY <1>3, <1>9, PartsMeant DEF Entries
  <2>3. l \in Seq(Binding)
    BY <1>1, <1>3, <1>4, <2>2, EditedType
  <2> HIDE DEF l
  <2> QED
    BY <1>6, <2>1, <2>3
<1>10. CASE ~ArgsGo /\ ~ArgPath /\ ~AttrsMeant
  <2>1. PICK j : j = PartOwner(st)
    OBVIOUS
  <2>2. \/ EditedStmt(req, st) = st
        \/ /\ PartMeant /\ j # 0
           /\ \/ EditedStmt(req, st) = [st EXCEPT !.attrs[j].key = Val.s]
              \/ EditedStmt(req, st) = [st EXCEPT !.attrs[j].v = Val.s]
    BY <1>3, <1>10, <2>1, EditedStmtIs
  <2>3. CASE EditedStmt(req, st) # st
    <3>1. Len(Path) = 3
      BY <2>2, <2>3 DEF PartMeant
    <3>2. 3 \in 1 .. Len(Path)
      BY <3>1
    <3>3. Path[3] \in Step /\ Fits(Path[3])
      BY <3>2, PathFits, PathType
    <3>4. j \in 1 .. Len(st.attrs)
      BY <1>2, <2>1, <2>2, <2>3, <3>3, EntryIsPlace DEF PartOwner
    <3>5. /\ [st.attrs EXCEPT ![j].key = Val.s] \in Seq(Binding)
          /\ [st.attrs EXCEPT ![j].v = Val.s] \in Seq(Binding)
      BY <1>1, <1>3, <3>4, PartType
    <3>6. /\ [st EXCEPT !.attrs[j].key = Val.s] = [st EXCEPT !.attrs = [st.attrs EXCEPT ![j].key = Val.s]]
          /\ [st EXCEPT !.attrs[j].v = Val.s] = [st EXCEPT !.attrs = [st.attrs EXCEPT ![j].v = Val.s]]
      OBVIOUS
    <3> QED
      BY <1>6, <2>2, <2>3, <3>5, <3>6
  <2> QED
    BY <2>3
<1> QED
  BY <1>7, <1>8, <1>9, <1>10

\* The new entries of a call are load statements.
LEMMA EditType ==
  ASSUME IInv, pc = "dispatch", WellFormed(req, old)
  PROVE  EditOf(req, old) \in Abstract!Edit
<1> DEFINE e == EditOf(req, old)
           E(op, where, new) == [op |-> op, at |-> where, new |-> new]
<1>1. ASSUME NEW op \in {"refused", "replace", "before", "after", "drop", "assign"},
             NEW where \in SUBSET Nat, NEW new \in Seq(Stmt)
      PROVE  E(op, where, new) \in Abstract!Edit
  BY DEF Abstract!Edit, Abstract!Ops
<1>2. old \in Seq(Stmt) /\ Val.st \in Stmt /\ Sel \in Step
  BY RequestType DEF IInv, TypeOK
<1>e. << >> \in Seq(Stmt) /\ {} \in SUBSET Nat
  OBVIOUS
<1> HIDE DEF E
<1>3. CASE Path = << >>
  <2> DEFINE k == Entry(Sel, KeysOf(old), "str")
  <2>1. CASE Val.kind = "null" /\ Is(Sel, "loadstmts")
    <3>1. e = E("assign", {}, << >>)
      BY <1>3, <2>1 DEF EditOf, Path, Val, Sel, E
    <3> QED
      BY <1>1, <1>e, <3>1
  <2>2. CASE ~(Val.kind = "null" /\ Is(Sel, "loadstmts"))
    <3>1. Level = "load"
      BY <1>3 DEF Level
    <3>2. e = EditAt(k, req, "load", Val.st, New)
      BY <1>3, <2>2, <3>1, NewIs DEF EditOf, Path, Val, Sel, Elems
    <3>3. k \in Nat
      <4>1. KeysOf(old) \in Seq(Texts)
        BY <1>2, KeysType
      <4> QED
        BY <1>2, <4>1, PathFits, EntryIsPlace
    <3>4. New \in Seq(Stmt)
      <4>1. Entries(Level) = Stmt /\ Len(Elems) \in Nat
        BY <3>1, RequestType DEF Entries, IInv
      <4> QED
        BY <4>1, SplicedInType DEF New, IInv
    <3> HIDE DEF k, e
    <3>5. e \in {E("refused", {}, << >>)}
                \cup IF k = 0 THEN {}
                     ELSE {E("refused", {k - 1}, << >>), E("drop", {k - 1}, << >>),
                           E("replace", {k - 1}, <<Val.st>>), E("before", {k - 1}, New),
                           E("after", {k - 1}, New)}
      BY <3>2, <3>3 DEF EditAt, E
    <3>6. k # 0 => {k - 1} \in SUBSET Nat
      BY <3>3
    <3>7. << >> \in Seq(Stmt) /\ <<Val.st>> \in Seq(Stmt) /\ {} \in SUBSET Nat
      BY <1>2
    <3>8. E("refused", {}, << >>) \in Abstract!Edit
      BY <1>1, <3>7
    <3>9. k # 0 => /\ E("refused", {k - 1}, << >>) \in Abstract!Edit
                   /\ E("drop", {k - 1}, << >>) \in Abstract!Edit
                   /\ E("replace", {k - 1}, <<Val.st>>) \in Abstract!Edit
                   /\ E("before", {k - 1}, New) \in Abstract!Edit
                   /\ E("after", {k - 1}, New) \in Abstract!Edit
      BY <1>1, <3>4, <3>6, <3>7
    <3>10. e \in Abstract!Edit
      BY <3>5, <3>8, <3>9
    <3> QED
      BY <3>10 DEF e
  <2> QED
    BY <2>1, <2>2
<1>4. CASE Path # << >>
  <2>1. Owner \in 0 .. Len(old)
    BY <1>4, OwnerIs
  <2>2. CASE Owner = 0
    <3>1. e = E("refused", {}, << >>)
      BY <1>4, <2>2 DEF EditOf, Owner, Path, E
    <3> QED
      BY <1>1, <1>e, <3>1
  <2>3. CASE Owner # 0
    <3>1. e = E("replace", {Owner - 1}, <<EditedStmt(req, old[Owner])>>)
      BY <1>4, <2>3 DEF EditOf, Owner, Path, E
    <3>2. EditedStmt(req, old[Owner]) \in Stmt
      <4>1. old[Owner] \in Stmt
        BY <1>4, <2>3, PromisedOfStmt
      <4> QED
        BY <1>4, <4>1, EditedStmtType
    <3>3. {Owner - 1} \in SUBSET Nat /\ <<EditedStmt(req, old[Owner])>> \in Seq(Stmt)
      BY <1>2, <2>1, <2>3, <3>2
    <3> QED
      BY <1>1, <3>1, <3>3
  <2> QED
    BY <2>2, <2>3
<1> QED
  BY <1>3, <1>4

\* A call asks ItemList for an edit.
EditAsked == pc = "dispatch" /\ WellFormed(req, old) => EditOf(req, old) \in Abstract!Edit

LEMMA StepRefines ==
  ASSUME IInv, SpliceAsPromised, IInv', EditAsked', [Next]_vars
  PROVE  [Abstract!Begin \/ Abstract!Finish]_(Abstract!ivars)
<1> DEFINE items == IF IsRunning THEN old ELSE stmts
           edit  == IF ~IsRunning THEN [op |-> "none", at |-> {}, new |-> << >>]
                    ELSE IF WellFormed(req, old) THEN EditOf(req, old) ELSE Unspecified
<1>1. UNCHANGED <<items, edit>> => UNCHANGED Abstract!ivars
  BY DEF Abstract!ivars
<1>2. stmts' \in Seq(Stmt)
  BY DEF IInv, TypeOK
<1>3. CASE \E r \in Requests : Receive(r)
  <2>1. /\ pc = "idle" /\ pc' = "dispatch" /\ stmts' = stmts /\ old' = old
    BY <1>3 DEF Receive
  <2>2. old = stmts
    BY <2>1 DEF IInv, AtRest
  <2>3. /\ ~IsRunning /\ IsRunning' /\ items' = items /\ edit = Abstract!NoEdit
    BY <2>1, <2>2 DEF IsRunning, Abstract!NoEdit
  <2>4. edit' \in Abstract!Edit /\ edit' # Abstract!NoEdit
    <3>1. CASE WellFormed(req, old)'
      <4>1. edit' = EditOf(req', old') /\ EditOf(req', old') \in Abstract!Edit
        BY <2>1, <2>3, <3>1 DEF EditAsked, Abstract!Edit
      <4>2. EditOf(req', old').op # "none"
        BY EditOps
      <4> QED
        BY <4>1, <4>2 DEF Abstract!NoEdit
    <3>2. CASE ~WellFormed(req, old)'
      <4>1. edit' = [op |-> "unspecified", at |-> {}, new |-> << >>]
        BY <2>3, <3>2 DEF Unspecified
      <4>2. << >> \in Seq(Stmt) /\ {} \in SUBSET Nat
        OBVIOUS
      <4> DEFINE e == [op |-> "unspecified", at |-> {}, new |-> << >>]
      <4>3. e \in Abstract!Edit
        BY <4>2 DEF Abstract!Edit, Abstract!Ops
      <4>4. e.op = "unspecified" /\ Abstract!NoEdit.op = "none"
        BY DEF Abstract!NoEdit
      <4>5. e # Abstract!NoEdit
        BY <4>4
      <4> QED
        BY <4>1, <4>3, <4>5
    <3> QED
      BY <3>1, <3>2
  <2> QED
    BY <2>3, <2>4 DEF Abstract!Begin
<1>4. ASSUME IsRunning, pc' \in {"idle", "crashed"}, WellFormed(req, old) => stmts' = Promised
      PROVE  Abstract!Finish
  <2>1. items = old /\ items' = stmts' /\ edit' = Abstract!NoEdit
    BY <1>4 DEF IsRunning, Abstract!NoEdit
  <2>2. CASE WellFormed(req, old)
    <3>1. edit = EditOf(req, old)
      BY <1>4, <2>2
    <3>2. edit.op # "none" /\ edit.op # "unspecified"
      BY <3>1, EditOps
    <3>3. edit # Abstract!NoEdit
      BY <3>2 DEF Abstract!NoEdit
    <3>4. items' = Abstract!Applied(edit, items)
      BY <1>4, <2>1, <2>2, <3>1, AbstractApplied DEF Promised
    <3> HIDE DEF items, edit
    <3> QED
      BY <2>1, <3>2, <3>3, <3>4 DEF Abstract!Finish, items, edit
  <2>3. CASE ~WellFormed(req, old)
    <3>1. edit = [op |-> "unspecified", at |-> {}, new |-> << >>]
      BY <1>4, <2>3 DEF Unspecified
    <3>2. edit # Abstract!NoEdit /\ edit.op = "unspecified"
      BY <3>1 DEF Abstract!NoEdit
    <3> QED
      BY <1>2, <2>1, <3>2 DEF Abstract!Finish
  <2> QED
    BY <2>2, <2>3
<1>5. ASSUME IsRunning, IsRunning', req' = req, old' = old
      PROVE  UNCHANGED <<items, edit>>
  BY <1>5
<1>6. pc' \in {"idle", "dispatch", "splice", "crashed"}
  BY DEF IInv, TypeOK
<1>7. CASE Dispatch
  <2>1. IsRunning
    BY <1>7, DispatchPc DEF IsRunning
  <2>2. CASE pc' = "splice"
    <3>1. IsRunning' /\ req' = req /\ old' = old
      BY <1>7, <2>2, DispatchEnds DEF IsRunning
    <3> QED
      BY <1>1, <1>5, <2>1, <3>1
  <2>3. CASE pc' # "splice"
    <3>1. pc' \in {"idle", "crashed"}
      <4>1. Len(Path) > 2 => TRUE
        OBVIOUS
      <4>2. pc' # "dispatch"
        BY <1>7, <2>3, DispatchEnds
      <4> QED
        BY <1>6, <2>3, <4>2
    <3>2. WellFormed(req, old) => stmts' = Promised
      BY <1>7, <2>3, DispatchRefines DEF Done, Begun
    <3> QED
      BY <1>4, <2>1, <3>1, <3>2
  <2> QED
    BY <2>2, <2>3
<1>8. CASE SpliceNext
  <2>1. IsRunning /\ IsRunning' /\ req' = req /\ old' = old
    BY <1>8, SpliceNextFrame DEF IsRunning
  <2> QED
    BY <1>1, <1>5, <2>1
<1>9. CASE SpliceFails \/ EndSplice
  <2>1. IsRunning /\ pc' = "idle"
    BY <1>9 DEF SpliceFails, EndSplice, Turn, Return, IsRunning
  <2>2. WellFormed(req, old) => stmts' = Promised
    BY <1>9, LoopRefines DEF Done
  <2> QED
    BY <1>4, <2>1, <2>2
<1>10. CASE UNCHANGED vars
  <2>1. UNCHANGED <<stmts, pc, req, old>>
    BY <1>10 DEF vars
  <2>2. UNCHANGED <<items, edit>>
    BY <2>1 DEF IsRunning
  <2> QED
    BY <1>1, <2>2
<1> QED
  BY <1>3, <1>7, <1>8, <1>9, <1>10 DEF Next, LoopTurn

\* Each well-formed call of set! below :load does to the load statements, in
\* one step as far as the script can tell, what the README says of it, and a
\* call that is not well-formed leaves load statements.
THEOREM LoadEditsAreAtomic ==
  Spec => Abstract!ItemListInit /\ [][Abstract!Begin \/ Abstract!Finish]_(Abstract!ivars)
<1>1. Init => SpliceAsPromised
  BY DEF Init, SpliceAsPromised
<1>2. IInv /\ SpliceAsPromised /\ [Next]_vars => SpliceAsPromised'
  BY NextAsPromised
<1>3. Spec => []SpliceAsPromised
  BY <1>1, <1>2, Invariant, PTL DEF Spec
<1>4. IInv => EditAsked
  BY EditType DEF EditAsked
<1>5. Init => Abstract!ItemListInit
  <2>1. SUFFICES ASSUME Init PROVE Abstract!ItemListInit
    OBVIOUS
  <2>2. ~IsRunning /\ stmts \in Seq(Stmt)
    BY <2>1, ParsedAssumption DEF Init, IsRunning
  <2> QED
    BY <2>2 DEF Abstract!ItemListInit, Abstract!NoEdit
<1>6. IInv /\ SpliceAsPromised /\ IInv' /\ EditAsked' /\ [Next]_vars
        => [Abstract!Begin \/ Abstract!Finish]_(Abstract!ivars)
  BY StepRefines
<1> QED
  BY <1>3, <1>4, <1>5, <1>6, Invariant, PTL DEF Spec

\* The editing of load statements implements the list of the README.  That
\* every edit takes effect follows if every call returns, which is liveness.
THEOREM LoadImplementsItemList == Spec /\ CallReturns => ImplementsItemList
<1> DEFINE Mapped == (IF ~IsRunning THEN [op |-> "none", at |-> {}, new |-> << >>]
                      ELSE IF WellFormed(req, old) THEN EditOf(req, old) ELSE Unspecified)
                       = Abstract!NoEdit
<1>1. Init => pc \in {"idle", "crashed"}
  BY DEF Init
<1>2. [Next]_vars /\ pc \in {"idle", "crashed"} => (pc \in {"idle", "crashed"} \/ pc = "dispatch")'
  BY DispatchPc DEF Next, LoopTurn, Receive, SpliceNext, SpliceFails, EndSplice, Turn, vars
<1>3. pc \in {"idle", "crashed"} => Mapped
  BY DEF IsRunning, Abstract!NoEdit
<1> QED
  BY <1>1, <1>2, <1>3, LoadEditsAreAtomic, PTL
     DEF Spec, CallReturns, ImplementsItemList, Abstract!ItemListSpec
=============================================================================
