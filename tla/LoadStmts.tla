------------------------------ MODULE LoadStmts ------------------------------
(***************************************************************************)
(* Editing the load statements of a package:                               *)
(* (set! (pkg :load step ... selector) value).                             *)
(*                                                                         *)
(* sunlark_set_bang gives the path after :load to sunlark_loadstmts_remove *)
(* if the value is :null, else to sunlark_set_load, which edits a          *)
(* statement itself or passes it to sunlark_loadstmt_set_dispatcher.  An   *)
(* error is raised by handle_errno where it is met; which one it is makes  *)
(* no difference here.  A splice is one step per turn of its loop.         *)
(***************************************************************************)
EXTENDS KwIndex, SequencesExt

CONSTANTS
  Texts,      \* contents of strings, names of symbols
  Requests,   \* the calls a script may make
  Parsed      \* what the load statements of a parsed package may be

Keywords == {"arg", "args", "@", "attr", "binding", "key", "value", "loadstmts", "other"}

Binding == [key : Texts, v : Texts]

\* load("key", "arg", ..., name = "value", ...).  Sealark keeps the commas.
Stmt == [key : Texts, args : Seq(Texts), attrs : Seq(Binding)]

\* The parts of a new value: a string, a binding, a load statement, another
\* Sunlark node, anything else.
Elem == [kind : {"str", "binding", "load", "node", "other"},
         s : Texts, b : Binding, st : Stmt]

Value == [kind : {"null", "str", "binding", "load", "node", "list", "vector", "other"},
          s : Texts, b : Binding, st : Stmt, elems : Seq(Elem)]

\* A keyword is spelled with its colon, which no text of a build file has.
Step == {x \in [kind : StepKinds, n : Int, s : Texts \cup Keywords] :
           x.kind \in {"kw", "star"} => x.s \notin Texts}

Request == [path : Seq(Step), sel : Step, val : Value]

ASSUME RequestsAssumption == Requests \subseteq Request /\ Requests # {}

ASSUME ParsedAssumption == Parsed \subseteq Seq(Stmt)

VARIABLES
  stmts,      \* the load statements of the package, in order
  pc,         \* where the call is
  req,        \* the call being served
  old,        \* the statements when the call came in
  n,          \* elements spliced so far: i in the loops
  at,         \* where the splice inserts its first element, from 0
  outcome     \* how the last call ended for the script

vars == <<stmts, pc, req, old, n, at, outcome>>

AnyRequest == CHOOSE r \in Requests : TRUE

-----------------------------------------------------------------------------
Init ==
  /\ stmts \in Parsed
  /\ pc = "idle"
  /\ req = AnyRequest
  /\ old = stmts
  /\ n = 0
  /\ at = 0
  /\ outcome = "none"

Return(s, out) ==
  /\ stmts' = s
  /\ outcome' = out
  /\ pc' = "idle"
  /\ req' = AnyRequest
  /\ old' = s
  /\ n' = 0
  /\ at' = 0

Refuse == Return(stmts, "error")

-----------------------------------------------------------------------------
Path == req.path
Sel == req.sel
Val == req.val
Elems == Val.elems

Is(step, word) == step.kind = "kw" /\ step.s = word

\* A keyword is a symbol for s7, one that names nothing.
IsSymbol(step) == step.kind \in {"sym", "kw", "star"}

KeysOf(s) == [i \in 1 .. Len(s) |-> s[i].key]

\* Where, counted from 1, a step leads in a list whose entries have these
\* names: by number, or to the first entry of a name; 0 if nowhere.
PlaceIn(step, names) ==
  IF IsIndex(step)
    THEN LET k == Normalize(Len(names), KwIndex(step))
         IN  IF k \in 0 .. Len(names) - 1 THEN k + 1 ELSE 0
    ELSE SelectInSeq(names, LAMBDA name : name = step.s)

IsPlace(step) == IsIndex(step) \/ step.kind = "str"

\* The lists a call may edit, by the length of the path and its second step.
ArgPath == Len(Path) >= 2 /\ Is(Path[2], "arg")

AttrPath == Len(Path) >= 2 /\ \E w \in {"@", "attr", "binding"} : Is(Path[2], w)

\* The statement the path starts at; only a number is accepted by set!.
StmtPlace == IF IsIndex(Path[1]) THEN PlaceIn(Path[1], KeysOf(stmts)) ELSE 0

\* What the list the call edits holds, the list itself, and the statements
\* with l in its place.
Level == IF Path = << >> THEN "load" ELSE IF ArgPath THEN "str" ELSE "binding"

ListIn(s) ==
  CASE Level = "load" -> s
    [] Level = "str"  -> s[StmtPlace].args
    [] OTHER          -> s[StmtPlace].attrs

With(s, l) ==
  CASE Level = "load" -> l
    [] Level = "str"  -> [s EXCEPT ![StmtPlace].args = l]
    [] OTHER          -> [s EXCEPT ![StmtPlace].attrs = l]

\* Bound: one call is made.  Nothing but the statements outlives a call, and
\* what a call can leave behind a file can contain.
Receive(r) ==
  /\ pc = "idle"
  /\ stmts \in Parsed
  /\ pc' = "dispatch"
  /\ req' = r
  /\ outcome' = "none"
  /\ UNCHANGED <<stmts, old, n, at>>

SetCall == pc = "dispatch" /\ Val.kind # "null"

\* slip: the entry a vector goes in behind is counted from the other end
BeginSpliceUnnormalized(index) ==
  LET ct == Len(ListIn(stmts))
  IN  IF NormalizeFails(ct, index)
        THEN Refuse
        ELSE /\ pc' = "splice"
             /\ at' = index + (IF Val.kind = "list" THEN 0 ELSE 1)
             /\ UNCHANGED <<stmts, req, old, n, outcome>>

\* A splice normalizes the index it was given by itself; a vector goes in
\* behind the entry.
BeginSpliceAt(index) ==
  LET ct == Len(ListIn(stmts))
  IN  IF NormalizeFails(ct, index)
        THEN Refuse
        ELSE /\ pc' = "splice"
             /\ at' = Normalize(ct, index) + (IF Val.kind = "list" THEN 0 ELSE 1)
             /\ UNCHANGED <<stmts, req, old, n, outcome>>

IndexOf(place) == IF IsIndex(Sel) THEN KwIndex(Sel) ELSE place - 1

-----------------------------------------------------------------------------
(***************************************************************************)
(* (set! (pkg :load selector) value): a whole statement.                   *)
(***************************************************************************)
SetOnPackage == SetCall /\ Path = << >>

Place == PlaceIn(Sel, KeysOf(stmts))

PlaceFound == SetOnPackage /\ IsPlace(Sel) /\ Place # 0

ReplaceStmt ==
  /\ PlaceFound
  /\ Val.kind = "load"
  /\ Return([stmts EXCEPT ![Place] = Val.st], "ok")

\* Any C object is passed to Sealark: either it refuses a node that is no
\* load statement, silently, or the package has one statement less.
ReplaceStmtByNode ==
  /\ PlaceFound
  /\ Val.kind \in {"binding", "node"}
  /\ Return(stmts, "ok") \/ Return(RemoveAt(stmts, Place), "ok")

BeginStmtSplice ==
  /\ PlaceFound
  /\ Val.kind \in {"list", "vector"}
  /\ BeginSpliceAt(IndexOf(Place))

RefuseOnPackage ==
  /\ SetOnPackage
  /\ ~IsPlace(Sel) \/ Place = 0 \/ Val.kind \in {"str", "other"}
  /\ Refuse

-----------------------------------------------------------------------------
(***************************************************************************)
(* (set! (pkg :load k :arg selector) value): an argument.                  *)
(***************************************************************************)
RefuseStmtStep == SetCall /\ Path # << >> /\ StmtPlace = 0 /\ Refuse

InStmt == SetCall /\ Path # << >> /\ StmtPlace # 0

SetArg == InStmt /\ ArgPath

ArgPlace == PlaceIn(Sel, stmts[StmtPlace].args)

\* the first argument, if the selector is a string
ArgAddressed == SetArg /\ (IsIndex(Sel) \/ (Sel.kind = "str" /\ ArgPlace # 0))

ReplaceArg ==
  /\ ArgAddressed
  /\ Val.kind = "str"
  /\ IF ArgPlace # 0
       THEN Return([stmts EXCEPT ![StmtPlace].args[ArgPlace] = Val.s], "ok")
       ELSE Refuse

BeginArgSplice ==
  /\ ArgAddressed
  /\ Val.kind \in {"list", "vector"}
  /\ BeginSpliceAt(IndexOf(ArgPlace))

RefuseArg ==
  /\ SetArg
  /\ ~IsPlace(Sel) \/ (Sel.kind = "str" /\ ArgPlace = 0)
  /\ Refuse

\* A NULL from the dispatcher gets lost on the way back: set! succeeds.
IgnoreSet ==
  /\ \/ InStmt /\ ~ArgPath /\ ~AttrPath
     \/ ArgAddressed /\ Val.kind \notin {"str", "list", "vector"}
  /\ Return(stmts, "ok")

-----------------------------------------------------------------------------
(***************************************************************************)
(* (set! (pkg :load k :@ selector) value): an attribute, its key or value. *)
(***************************************************************************)
SetAttr == InStmt /\ AttrPath

AttrPlace(step) == PlaceIn(step, KeysOf(stmts[StmtPlace].attrs))

\* After a symbol errno still says that it was no keyword when the edit is
\* judged by it, unless Sealark has reset it.
JudgedByErrno(step, s) ==
  Return(s, "ok") \/ (~IsIndex(step) /\ Return(s, "error"))

Part == IF Is(Sel, "key") THEN "key" ELSE "v"

\* _loadstmt_binding_replace_k_or_v
SetKeyOrValue ==
  /\ SetAttr
  /\ Val.kind = "str"
  /\ Is(Sel, "key") \/ Is(Sel, "value")
  /\ IF Len(Path) = 3 /\ (IsIndex(Path[3]) \/ IsSymbol(Path[3])) /\ AttrPlace(Path[3]) # 0
       THEN JudgedByErrno(Path[3],
              [stmts EXCEPT ![StmtPlace].attrs[AttrPlace(Path[3])][Part] = Val.s])
       ELSE Refuse

ReplaceAttr ==
  /\ SetAttr
  /\ Val.kind = "binding"
  /\ IsIndex(Sel) \/ IsSymbol(Sel)
  /\ IF AttrPlace(Sel) # 0
       THEN JudgedByErrno(Sel, [stmts EXCEPT ![StmtPlace].attrs[AttrPlace(Sel)] = Val.b])
       ELSE Refuse

\* By name, any C object is passed to Sealark, which may refuse it.
ReplaceAttrByNode ==
  /\ SetAttr
  /\ Val.kind \in {"load", "node"}
  /\ IsSymbol(Sel) /\ AttrPlace(Sel) # 0
  /\ \/ Refuse
     \/ JudgedByErrno(Sel, [stmts EXCEPT ![StmtPlace].attrs = RemoveAt(@, AttrPlace(Sel))])

BeginAttrSplice ==
  /\ SetAttr
  /\ Val.kind \in {"list", "vector"}
  /\ IsIndex(Sel) \/ (IsSymbol(Sel) /\ AttrPlace(Sel) # 0)
  /\ BeginSpliceAt(IndexOf(AttrPlace(Sel)))

RefuseAttr ==
  /\ SetAttr
  /\ \/ Val.kind = "str" /\ ~Is(Sel, "key") /\ ~Is(Sel, "value")
     \/ Val.kind = "other"
     \/ Val.kind # "str" /\ ~IsIndex(Sel) /\ ~IsSymbol(Sel)
     \/ Val.kind \in {"load", "node"} /\ IsIndex(Sel)
     \/ Val.kind \in {"load", "node", "list", "vector"} /\ IsSymbol(Sel) /\ AttrPlace(Sel) = 0
  /\ Refuse

-----------------------------------------------------------------------------
(***************************************************************************)
(* The loops of the six splices, which differ in what they accept.         *)
(***************************************************************************)
ContentOf(e) ==
  CASE Level = "load" -> e.st
    [] Level = "str"  -> e.s
    [] OTHER          -> e.b

Turn == pc = "splice" /\ n < Len(Elems)

\* slip: the Scheme object is inserted, not what it wraps
SpliceNextWrapped ==
  /\ Turn
  /\ Elems[n + 1].kind = Level
  /\ at + n \in 0 .. Len(ListIn(stmts))
  /\ stmts' = With(stmts, InsertAt(ListIn(stmts), at + n + 1, Elems[n + 1]))
  /\ n' = n + 1
  /\ UNCHANGED <<pc, req, old, at, outcome>>

\* slip: each element is put at the place of the first
SpliceNextInFront ==
  /\ Turn
  /\ Elems[n + 1].kind = Level
  /\ at + n \in 0 .. Len(ListIn(stmts))
  /\ stmts' = With(stmts, InsertAt(ListIn(stmts), at + 1, ContentOf(Elems[n + 1])))
  /\ n' = n + 1
  /\ UNCHANGED <<pc, req, old, at, outcome>>

\* slip: the loop overwrites the entries behind the place
SpliceNextOver ==
  /\ Turn
  /\ Elems[n + 1].kind = Level
  /\ at + n \in 0 .. Len(ListIn(stmts))
  /\ stmts' = With(stmts, SubSeq(ListIn(stmts), 1, at + n) \o <<ContentOf(Elems[n + 1])>>
                            \o SubSeq(ListIn(stmts), at + n + 2, Len(ListIn(stmts))))
  /\ n' = n + 1
  /\ UNCHANGED <<pc, req, old, at, outcome>>

SpliceNext ==
  /\ Turn
  /\ Elems[n + 1].kind = Level
  /\ at + n \in 0 .. Len(ListIn(stmts))
  /\ stmts' = With(stmts, InsertAt(ListIn(stmts), at + n + 1, ContentOf(Elems[n + 1])))
  /\ n' = n + 1
  /\ UNCHANGED <<pc, req, old, at, outcome>>

\* slip: an element of another kind is passed over for ever
SpliceSkips ==
  /\ Turn
  /\ Elems[n + 1].kind # Level \/ at + n \notin 0 .. Len(ListIn(stmts))
  /\ UNCHANGED vars

\* An element of another kind, or an index Sealark does not accept, ends
\* the splice; what was inserted stays.  The error of a splice of whole
\* statements is never looked at.
SpliceFails ==
  /\ Turn
  /\ Elems[n + 1].kind # Level \/ at + n \notin 0 .. Len(ListIn(stmts))
  /\ Return(stmts, IF Level = "load" THEN "ok" ELSE "error")

EndSplice ==
  /\ pc = "splice"
  /\ n = Len(Elems)
  /\ Return(stmts, "ok")

-----------------------------------------------------------------------------
(***************************************************************************)
(* (set! (pkg :load ... selector) :null): sunlark_loadstmts_remove.        *)
(***************************************************************************)
RemovalCall == pc = "dispatch" /\ Val.kind = "null"

\* A path of one step that is no number is passed over.
OnWholeStmts == Path = << >> \/ (Len(Path) = 1 /\ ~IsIndex(Path[1]))

\* Here the statement may be named by its key.
RemovalPlace == IF IsPlace(Path[1]) THEN PlaceIn(Path[1], KeysOf(stmts)) ELSE 0

RemoveStmt ==
  /\ RemovalCall
  /\ OnWholeStmts
  /\ IsPlace(Sel)
  /\ IF Place # 0 THEN Return(RemoveAt(stmts, Place), "ok") ELSE Refuse

RemoveAllStmts ==
  /\ RemovalCall
  /\ \/ Path = << >> /\ Is(Sel, "loadstmts")
     \/ Path # << >> /\ OnWholeStmts /\ Sel.kind = "star"
  /\ Return(<< >>, "ok")

\* The arguments go, and then the function returns NULL all the same.
RemoveArgs ==
  /\ RemovalCall
  /\ \/ Len(Path) = 1 /\ IsIndex(Path[1]) /\ Is(Sel, "args")
     \/ Len(Path) = 2 /\ Is(Path[2], "args")
  /\ RemovalPlace # 0
  /\ Return([stmts EXCEPT ![RemovalPlace].args = << >>], "error")

InRemoval == RemovalCall /\ Len(Path) = 2 /\ RemovalPlace # 0

RemoveArg ==
  /\ InRemoval
  /\ Is(Path[2], "arg")
  /\ IsPlace(Sel)
  /\ LET k == PlaceIn(Sel, stmts[RemovalPlace].args)
     IN  IF k # 0
           THEN Return([stmts EXCEPT ![RemovalPlace].args = RemoveAt(@, k)], "ok")
           ELSE Refuse

\* "errno == 0;" stands where errno was meant to be reset, if the statement
\* was named by a number; by its key, it is reset.
RemoveAttr ==
  /\ InRemoval
  /\ Is(Path[2], "@") \/ Is(Path[2], "binding")
  /\ IsIndex(Sel) \/ IsSymbol(Sel)
  /\ LET k    == PlaceIn(Sel, KeysOf(stmts[RemovalPlace].attrs))
         left == [stmts EXCEPT ![RemovalPlace].attrs = RemoveAt(@, k)]
     IN  \/ k # 0 /\ Return(left, "ok")
         \/ k # 0 /\ IsIndex(Path[1]) /\ ~IsIndex(Sel) /\ Return(left, "error")
         \/ k = 0 /\ Refuse

RefuseRemoval ==
  /\ RemovalCall
  /\ \/ Path = << >> /\ ~IsPlace(Sel) /\ ~Is(Sel, "loadstmts")
     \/ Len(Path) = 1 /\ IsIndex(Path[1]) /\ ~(Is(Sel, "args") /\ RemovalPlace # 0)
     \/ Len(Path) = 1 /\ ~IsIndex(Path[1]) /\ ~IsPlace(Sel) /\ Sel.kind # "star"
     \/ /\ Len(Path) = 2
        /\ \/ RemovalPlace = 0
           \/ ~\E w \in {"arg", "args", "@", "binding"} : Is(Path[2], w)
           \/ Is(Path[2], "arg") /\ ~IsPlace(Sel)
           \/ (Is(Path[2], "@") \/ Is(Path[2], "binding")) /\ ~IsIndex(Sel) /\ ~IsSymbol(Sel)
  /\ Refuse

\* A longer path falls off the end of the function: what set_bang takes for
\* its result is NULL, or passed on to the interpreter.
RemovalFallsThrough ==
  /\ RemovalCall
  /\ Len(Path) > 2
  /\ \/ Refuse
     \/ Return(stmts, "ok")
     \/ pc' = "crashed" /\ UNCHANGED <<stmts, req, old, n, at, outcome>>

-----------------------------------------------------------------------------
Dispatch ==
  \/ ReplaceStmt \/ ReplaceStmtByNode \/ BeginStmtSplice \/ RefuseOnPackage
  \/ RefuseStmtStep \/ ReplaceArg \/ BeginArgSplice \/ RefuseArg \/ IgnoreSet
  \/ SetKeyOrValue \/ ReplaceAttr \/ ReplaceAttrByNode \/ BeginAttrSplice \/ RefuseAttr
  \/ RemoveStmt \/ RemoveAllStmts \/ RemoveArgs \/ RemoveArg \/ RemoveAttr
  \/ RefuseRemoval \/ RemovalFallsThrough

LoopTurn == SpliceNext \/ SpliceFails \/ EndSplice

Next == (\E r \in Requests : Receive(r)) \/ Dispatch \/ LoopTurn

\* Single threaded: a call once begun runs on; nothing makes a script call.
Spec == Init /\ [][Next]_vars /\ WF_vars(Dispatch \/ LoopTurn)

-----------------------------------------------------------------------------
(***************************************************************************)
(* Properties                                                              *)
(***************************************************************************)

\* The types of the variables.
TypeOK ==
  /\ stmts \in Seq(Stmt)
  /\ old \in Seq(Stmt)
  /\ pc \in {"idle", "dispatch", "splice", "crashed"}
  /\ req \in Requests
  /\ n \in Nat
  /\ at \in Int
  /\ outcome \in {"none", "ok", "error"}

\* At every turn of a splice the list it edits is the one the call found,
\* with the first n new entries, in their order, at the place the call named,
\* and nothing else in the package has changed.  Six functions each compute
\* that place anew, from an index that may be negative, a key or a symbol.
SpliceInPlace ==
  pc = "splice" =>
    /\ n <= Len(Elems)
    /\ n > 0 => at \in 0 .. Len(ListIn(old))
    /\ stmts = IF n = 0 THEN old
               ELSE With(old, SubSeq(ListIn(old), 1, at)
                                \o [k \in 1 .. n |-> ContentOf(Elems[k])]
                                \o SubSeq(ListIn(old), at + 1, Len(ListIn(old))))

\* The call names an attribute by a symbol.
AttrBySymbol == AttrPath /\ (Sel.kind = "sym" \/ \E i \in 3 .. Len(Path) : Path[i].kind = "sym")

\* A call with a new value that the script sees fail has lost nothing: the
\* statements, their arguments and attributes are all still there.  (By
\* symbol, an attribute may be replaced and an error be raised.)
RefusalLosesNothing ==
  [][outcome' = "error" /\ Val.kind # "null" /\ ~AttrBySymbol
       => /\ KeysOf(stmts') = KeysOf(old)
          /\ \A k \in 1 .. Len(old) :
               /\ Range(old[k].args) \subseteq Range(stmts'[k].args)
               /\ Range(old[k].attrs) \subseteq Range(stmts'[k].attrs)]_vars

\* Every call comes back to the script, unless it kills the program.
CallReturns == pc = "dispatch" ~> pc \in {"idle", "crashed"}
=============================================================================
