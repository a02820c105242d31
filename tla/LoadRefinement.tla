--------------------------- MODULE LoadRefinement ---------------------------
(***************************************************************************)
(* LoadStmts implements ItemList.  The items are the load statements: an   *)
(* edit of an argument or an attribute replaces its statement by one that  *)
(* differs in that.  Of a call that is not well-formed nothing is promised *)
(* but that it leaves load statements.                                     *)
(***************************************************************************)
EXTENDS LoadStmts, ListEdits

\* the entry, from 1, a number names in a list of ct entries; 0 if none
Nth(step, ct) ==
  CASE step.kind = "-kwnum" /\ step.n \in 1 .. ct                     -> ct - step.n + 1
    [] step.kind = "int" /\ step.n < 0 /\ -step.n <= ct              -> ct + step.n + 1
    [] step.kind \in {"int", "kwnum"} /\ step.n \in 0 .. ct - 1       -> step.n + 1
    [] step.kind = "-kwnum" /\ step.n = 0 /\ ct > 0                  -> 1
    [] OTHER                                                         -> 0

Entry(step, names, byName) ==
  LET found == {k \in 1 .. Len(names) : names[k] = step.s}
  IN  IF step.kind # byName      THEN Nth(step, Len(names))
      ELSE IF found = {}         THEN 0
      ELSE CHOOSE k \in found : \A j \in found : k <= j

\* the edit of a list, and what it does: k is the entry the selector names,
\* one is the new entry, many the new entries
EditAt(k, r, kind, one, many) ==
  LET E(op, items) == [op |-> op, at |-> {k - 1}, new |-> items]
  IN  CASE k = 0                   -> [op |-> "refused", at |-> {}, new |-> << >>]
        [] k # 0 /\ r.val.kind = "null"   -> E("drop", << >>)
        [] k # 0 /\ r.val.kind = kind     -> E("replace", <<one>>)
        [] k # 0 /\ r.val.kind = "list"   -> E("before", many)
        [] k # 0 /\ r.val.kind = "vector" -> E("after", many)
        [] OTHER                   -> E("refused", << >>)

\* Removal knows fewer names of the attributes.
AttrWords(r) == IF r.val.kind = "null" THEN {"@", "binding"} ELSE {"@", "attr", "binding"}

\* the statement st after the call r on a part of it
EditedStmt(r, st) ==
  LET elems == r.val.elems
      argEdit == EditAt(Entry(r.sel, st.args, "str"), r, "str", r.val.s,
                        [i \in DOMAIN elems |-> elems[i].s])
      attrEdit == EditAt(Entry(r.sel, KeysOf(st.attrs), "sym"), r, "binding", r.val.b,
                         [i \in DOMAIN elems |-> elems[i].b])
      owner == Entry(r.path[3], KeysOf(st.attrs), "sym")
      On(words) == Len(r.path) >= 2 /\ \E w \in words : Is(r.path[2], w)
      OfOwner == On(AttrWords(r)) /\ Len(r.path) = 3 /\ r.val.kind = "str"
  IN  CASE r.val.kind = "null" /\ (On({"args"}) \/ (Len(r.path) = 1 /\ Is(r.sel, "args")))
             -> [st EXCEPT !.args = << >>]
        [] On({"arg"})
             -> [st EXCEPT !.args = Applied(argEdit, @)]
        [] On(AttrWords(r)) /\ r.val.kind # "str"
             -> [st EXCEPT !.attrs = Applied(attrEdit, @)]
        [] OfOwner /\ owner # 0 /\ Is(r.sel, "key")
             -> [st EXCEPT !.attrs[owner].key = r.val.s]
        [] OfOwner /\ owner # 0 /\ Is(r.sel, "value")
             -> [st EXCEPT !.attrs[owner].v = r.val.s]
        [] OTHER
             -> st

\* set! finds a statement by number only, removal by its key too
StmtNamed(r, s) ==
  Entry(r.path[1], KeysOf(s), IF r.val.kind = "null" /\ Len(r.path) = 2 THEN "str" ELSE "none")

\* the edit of the list of load statements a call asks for
EditOf(r, s) ==
  LET k == StmtNamed(r, s)
      E(op, where, items) == [op |-> op, at |-> where, new |-> items]
  IN  CASE r.path = << >> /\ r.val.kind = "null" /\ Is(r.sel, "loadstmts")
             -> E("assign", {}, << >>)
        [] r.path = << >> /\ ~(r.val.kind = "null" /\ Is(r.sel, "loadstmts"))
             -> EditAt(Entry(r.sel, KeysOf(s), "str"), r, "load", r.val.st,
                       [i \in DOMAIN r.val.elems |-> r.val.elems[i].st])
        [] r.path # << >> /\ k # 0
             -> E("replace", {k - 1}, <<EditedStmt(r, s[k])>>)
        [] OTHER
             -> E("refused", {}, << >>)

\* A C int holds the number and its absolute value; one with a colon before
\* it has digits only.
Fits(step) ==
  /\ step.kind = "int" => step.n \in IntMin + 1 .. -IntMin - 1
  /\ step.kind \in {"kwnum", "-kwnum"} => step.n \in 0 .. -IntMin - 1

\* Not well-formed: a number that is cut off; a splice with an element its
\* list does not hold; a node of the wrong kind for a replacement; a removal
\* whose path passes through one step that is no number, or ends more than
\* two steps deep.
WellFormed(r, s) ==
  LET level == IF r.path = << >> THEN "load"
               ELSE IF Len(r.path) >= 2 /\ Is(r.path[2], "arg") THEN "str" ELSE "binding"
  IN  /\ Fits(r.sel) /\ \A i \in DOMAIN r.path : Fits(r.path[i])
      /\ \A i \in DOMAIN r.val.elems : r.val.elems[i].kind = level
      /\ r.path = << >> => r.val.kind \notin {"binding", "node"}
      /\ level = "binding" => r.val.kind \notin {"load", "node"}
      /\ r.val.kind = "null" => Len(r.path) <= 2 /\ (Len(r.path) = 1 => IsIndex(r.path[1]))

-----------------------------------------------------------------------------
Unspecified == [op |-> "unspecified", at |-> {}, new |-> << >>]

\* A call that ends the process has returned as far as the list is concerned.
IsRunning == pc \in {"dispatch", "splice"}

Abstract == INSTANCE ItemList WITH
  Item  <- Stmt,
  items <- IF IsRunning THEN old ELSE stmts,
  edit  <- IF ~IsRunning THEN [op |-> "none", at |-> {}, new |-> << >>]
           ELSE IF WellFormed(req, old) THEN EditOf(req, old) ELSE Unspecified

\* Each well-formed call does to the load statements exactly what README
\* says of set!, in one indivisible step as far as the script can tell.
ImplementsItemList == Abstract!ItemListSpec
=============================================================================
