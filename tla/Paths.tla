-------------------------------- MODULE Paths --------------------------------
(***************************************************************************)
(* Path expressions: (pkg :> "hello" :@ 'deps :value :0).                  *)
(*                                                                         *)
(* Applying a node to some steps calls sunlark_dispatch, which hands the   *)
(* steps to the dispatcher of the node's type, and that one to the next.   *)
(* A script may take the steps in one call or keep what a call returns and *)
(* go on from there: a call with some of the steps left is an action.      *)
(*                                                                         *)
(* The nodes are numbered; kids leaves brackets, commas and '=' out.       *)
(***************************************************************************)
EXTENDS KwIndex, Sequences, SequencesExt, Subsequences

CONSTANTS
  Tree,       \* the nodes of the package as parsed: [tid, s, kids]
  Texts,      \* contents of strings, names of symbols, keywords
  Kind,       \* the rules a filter symbol (cc_*) stands for
  Filters,    \* filter lists, a step of kind "list" holds the number of one
  Paths       \* the paths a script may use

Nodes == DOMAIN Tree
Root == 1

Tids == {"Package", "Load_Stmt", "Call_Expr", "Arg_List", "Binding", "ID", "STRING",
         "INT", "List_Expr", "Dict_Expr", "Dict_Entry"}

ASSUME TreeAssumption ==
  /\ Tree \in Seq([tid : Tids, s : Texts, kids : Seq(Nodes)])
  /\ Tree # << >> /\ \A n \in Nodes : Tree[n].tid = "Package" <=> n = Root
  /\ \A m, n \in Nodes : \A j \in DOMAIN Tree[m].kids, k \in DOMAIN Tree[n].kids :
       Tree[m].kids[j] = Tree[n].kids[k] => m = n /\ j = k
  /\ \A n \in Nodes : Len(Tree[n].kids) <= -IntMin    \* a C int counts the parts of a node

\* What the parser puts under a node.  A call may have arguments that are no
\* bindings, glob(["*.c"]), and be a value itself; a load statement names its
\* file first, and what it loads by strings.
Exprs == {"ID", "STRING", "INT", "List_Expr", "Dict_Expr", "Call_Expr"}

ASSUME GrammarAssumption ==
  \A n \in Nodes :
    LET kids == Tree[n].kids
        types == {Tree[kids[k]].tid : k \in DOMAIN kids}
    IN /\ Tree[n].tid = "Binding" => Len(kids) = 2 /\ Tree[kids[1]].tid = "ID"
       /\ Tree[n].tid = "Dict_Entry" => Len(kids) = 2
       /\ Tree[n].tid \in {"Binding", "Dict_Entry", "List_Expr"} => types \subseteq Exprs
       /\ Tree[n].tid = "Call_Expr" =>
            Len(kids) = 2 /\ Tree[kids[1]].tid = "ID" /\ Tree[kids[2]].tid = "Arg_List"
       /\ Tree[n].tid = "Arg_List" => types \subseteq Exprs \cup {"Binding"}
       /\ Tree[n].tid = "Dict_Expr" => types \subseteq {"Dict_Entry"}
       /\ Tree[n].tid = "Load_Stmt" =>
            /\ Len(kids) > 0 /\ Tree[kids[1]].tid = "STRING" /\ types \subseteq {"STRING", "Binding"}
            /\ \A k \in DOMAIN kids :
                 Tree[kids[k]].tid = "Binding" => Tree[Tree[kids[k]].kids[2]].tid = "STRING"

Step == [kind : StepKinds \cup {"list"}, n : Int, s : Texts]

ASSUME PathsAssumption ==
  /\ Paths \subseteq Seq(Step) \ {<< >>}
  /\ \A p \in Paths : \A k \in DOMAIN p : p[k].kind = "list" => p[k].n \in DOMAIN Filters

ASSUME FiltersAssumption == Filters \in Seq(Seq(Step)) /\ {">", "@"} \subseteq Texts

\* What a call gives the script: a node, a copy of a node, a wrapper around
\* NULL, a list of nodes or of copies, the Scheme value of a node, a
\* property, (), an error, a raw NULL, the end of the process, or anything;
\* and the nodes whose type it has changed.
Result == [is : {"node", "copy", "wrapped_NULL", "nodes", "copies", "value", "property",
                 "nil", "unspecified", "error", "NULL", "died", "undefined"},
           of : Seq(Nodes),
           retyped : SUBSET Nodes]

VARIABLES
  pc,       \* "idle", "walk"; "over" when the process has ended
  path,     \* the path the script follows
  done,     \* how many of its steps it has taken
  cur,      \* what the last call gave it
  tid       \* the types of the nodes

vars == <<pc, path, done, cur, tid>>

-----------------------------------------------------------------------------
R(is, of) == [is |-> is, of |-> of, retyped |-> {}]
Bare(is) == R(is, << >>)

\* The operators below give the set of results a call may have.
Error == {Bare("error")}
Null == {Bare("NULL")}
Died == {Bare("died")}
Undefined == {Bare("undefined")}
Property(n) == {R("property", <<n>>)}

\* slip: sunlark_new_node given whatever the lookup returned
WrapAny(n) == {R("node", <<n>>)}
Wrap(n) == IF n = 0 THEN {Bare("wrapped_NULL")} ELSE {R("node", <<n>>)}

OrError(results) == {IF r.is = "NULL" THEN [r EXCEPT !.is = "error"] ELSE r : r \in results}
Retype(nodes, results) == {[r EXCEPT !.retyped = nodes] : r \in results}

Kids(n) == Tree[n].kids
Str(n) == Tree[n].s
OfType(seq, t) == Selected(seq, {k \in DOMAIN seq : tid[seq[k]] = t})
FirstOf(seq) == IF seq = << >> THEN 0 ELSE seq[1]

\* Lookup by index, from the end if it is negative, and by key: 0 is NULL.
At(seq, index) ==
  LET k == Normalize(Len(seq), index) + 1 IN IF k \in DOMAIN seq THEN seq[k] ELSE 0
Keyed(seq, key) == FirstOf(Selected(seq, {k \in DOMAIN seq : Str(Kids(seq[k])[1]) = key}))
WithText(seq, t, text) ==
  Selected(seq, {k \in DOMAIN seq : tid[seq[k]] = t /\ Str(seq[k]) = text})

Key(b) == Kids(b)[1]
Val(b) == Kids(b)[2]
Rule(t) == Kids(t)[1]
ArgList(t) == Kids(t)[2]
BindingsOf(al) == OfType(Kids(al), "Binding")
Bindings(t) == BindingsOf(ArgList(t))
NameOf(t) == LET b == Keyed(Bindings(t), "name") IN IF b = 0 THEN 0 ELSE Val(b)

Loads == OfType(Kids(Root), "Load_Stmt")
LoadArgs(l) == OfType(Tail(Kids(l)), "STRING")
LoadBindings(l) == OfType(Kids(l), "Binding")
Calls == OfType(Kids(Root), "Call_Expr")
Targets == Selected(Calls, {k \in DOMAIN Calls : NameOf(Calls[k]) # 0})
WithRule(name) == Selected(Calls, {k \in DOMAIN Calls : Str(Rule(Calls[k])) = name})
TargetNamed(name) ==
  FirstOf(Selected(Targets, {k \in DOMAIN Targets : Str(NameOf(Targets[k])) = name}))

IsKw(st) == st.kind \in {"kw", "kwnum", "-kwnum", "star"}
IsKwIndex(st) == st.kind \in {"kwnum", "-kwnum"}
Is(st, words) == st.kind = "kw" /\ st.s \in words

OneBinding == {"@", "binding", "attr"}
AllBindings == {"@@", "bindings", "attrs"}
ValueOps == {"value", "$"}
Predicates == {"node?", "string?", "bindings?", "list-expr?"}
CommonProps == {"tid", "line", "s", "length"}

-----------------------------------------------------------------------------
(***************************************************************************)
(* Properties, and the value of a node                                     *)
(***************************************************************************)
\* node_to_scheme: for other types it returns what it never assigned.
NodeToScheme(n) ==
  CASE tid[n] \in {"STRING", "ID", "INT"} -> {R("value", <<n>>)}
    [] tid[n] = "Binding"                 -> Wrap(Val(n))
    [] OTHER                              -> Undefined

\* The object value of what is no node is whatever its memory holds.
ToScheme(results) ==
  UNION {Retype(r.retyped,
           CASE r.is \in {"node", "copy"}          -> NodeToScheme(r.of[1])
             [] r.is \in {"error", "died"}         -> {r}
             [] r.is \in {"NULL", "wrapped_NULL"}  -> Died
             [] OTHER                              -> Undefined) : r \in results}

CommonProperty(n, op) ==
  IF n = 0 THEN Died ELSE
  CASE Is(op, {"$"}) -> IF tid[n] \in {"STRING", "ID", "INT"} THEN {R("value", <<n>>)} ELSE Undefined
    [] Is(op, {"subnodes"}) -> IF Kids(n) = << >> THEN {Bare("nil")} ELSE {R("nodes", Kids(n))}
    [] Is(op, CommonProps \cup Predicates) -> Property(n)
    [] OTHER -> Error

-----------------------------------------------------------------------------
(***************************************************************************)
(* Vectors and dictionaries                                                *)
(***************************************************************************)
\* The item Sealark finds in a dictionary or a call that a lookup has made a
\* vector: a part of it, or what is none of the nodes here.
Misread(v) == {R("node", <<k>>) : k \in Range(Kids(v))} \cup Undefined

\* What has no array of nodes to look into.
Leaves == {"ID", "STRING", "INT"}

\* Steps after the first are ignored.
Vector(v, args) ==
  IF Is(args[1], {"list-expr?"}) THEN Property(v)
  ELSE IF Tree[v].tid \in Leaves THEN Died
  ELSE IF ~IsIndex(args[1]) THEN Null
  ELSE IF Tree[v].tid = "List_Expr" THEN Wrap(At(Kids(v), KwIndex(args[1])))
  ELSE Misread(v) \cup Wrap(0)

\* What comes of the third step after the value of an entry.
EntryItem(v, st) ==
  LET item == At(Kids(v), KwIndex(st))
  IN IF ~IsKwIndex(st) THEN Null
     ELSE IF Tree[v].tid \in Leaves THEN Undefined
     ELSE IF Tree[v].tid # "List_Expr" THEN Misread(v) \cup Null
     ELSE IF item = 0 THEN Null ELSE Wrap(item)

\* slip: the assignment in the assert made to the entry
EntryPartRetypes(d, args) ==
  LET entry == Keyed(Kids(d), args[1].s)
  IN IF entry = 0 THEN Error ELSE Retype({entry}, Wrap(entry))

\* The entry is looked up by a string.  assert(val->tid = TK_List_Expr) is an
\* assignment: it makes the value a vector, whatever it was.
EntryPart(d, args) ==
  LET entry == Keyed(Kids(d), args[1].s)
  IN CASE entry = 0 -> Error
       [] entry # 0 /\ Len(args) = 1 -> Wrap(entry)
       [] entry # 0 /\ Len(args) = 2 /\ Is(args[2], {"key"}) -> Wrap(Key(entry))
       [] entry # 0 /\ Len(args) = 2 /\ Is(args[2], ValueOps) -> Wrap(Val(entry))
       [] entry # 0 /\ Len(args) = 3 /\ Is(args[2], ValueOps) ->
            Retype({Val(entry)}, EntryItem(Val(entry), args[3]))
       [] OTHER -> Null

\* the entry was looked up by its position; steps after the second are ignored
EntryPartAt(d, args) ==
  LET entry == At(Kids(d), KwIndex(args[1]))
  IN IF Len(args) = 1 THEN IF entry = 0 THEN Null ELSE Wrap(entry) ELSE
     CASE Is(args[2], {"key"}) -> IF entry = 0 THEN Died ELSE Wrap(Key(entry))
       [] Is(args[2], ValueOps) -> IF entry = 0 THEN Died ELSE Wrap(Val(entry))
       [] OTHER -> Null

DictExpr(d, args) ==
  CASE args[1].kind = "int"    -> Null
    [] args[1].kind = "str"    -> EntryPart(d, args)
    [] IsKwIndex(args[1])      -> EntryPartAt(d, args)
    [] OTHER                   -> CommonProperty(d, args[1])

DictEntry(e, args) ==
  CASE Is(args[1], {"key"}) -> Wrap(Key(e))
    [] Is(args[1], ValueOps) /\ Len(args) = 1 -> Wrap(Val(e))
    [] Is(args[1], ValueOps) /\ Len(args) > 1 ->
         IF Len(args) > 2 \/ tid[Val(e)] \notin {"List_Expr", "Dict_Expr"} THEN Error
         ELSE IF tid[Val(e)] = "List_Expr" THEN Vector(Val(e), Tail(args))
         ELSE Null
    [] OTHER -> Null

-----------------------------------------------------------------------------
(***************************************************************************)
(* Bindings                                                                *)
(***************************************************************************)
\* slip: the value of an attribute is always indexed by number
BindingNoDict(b, args) ==
  CASE args = << >> -> Wrap(b)
    [] Is(args[1], {"key"}) -> Wrap(Key(b))
    [] Is(args[1], ValueOps) ->
         IF Len(args) = 1 THEN Wrap(Val(b))
         ELSE IF ~IsKwIndex(args[2]) THEN Died ELSE Wrap(At(Kids(Val(b)), KwIndex(args[2])))
    [] OTHER -> Error

\* sunlark_binding_dispatcher: a binding in hand.  Steps after :key, and
\* after an index, are ignored.
Binding(b, args) ==
  LET v == Val(b)
      rest == Tail(args)
  IN IF args = << >> THEN Wrap(b) ELSE
     CASE Is(args[1], {"key"}) -> Wrap(Key(b))
       [] Is(args[1], ValueOps) /\ rest = << >> -> Wrap(v)
       [] Is(args[1], ValueOps) /\ rest # << >> /\ tid[v] = "Dict_Expr" -> DictExpr(v, rest)
       [] Is(args[1], ValueOps) /\ rest # << >> /\ tid[v] # "Dict_Expr" ->
            IF ~IsKwIndex(rest[1]) THEN Died
            ELSE IF tid[v] = "List_Expr" THEN Wrap(At(Kids(v), KwIndex(rest[1])))
            ELSE Null
       [] OTHER -> Error

\* slip: the parts of a binding swapped
ComponentSwapped(b, args) ==
  CASE Is(args[1], {"key"}) -> IF Len(args) > 1 THEN Null ELSE Wrap(Val(b))
    [] Is(args[1], ValueOps) /\ Len(args) = 1 -> Wrap(Key(b))
    [] OTHER -> Error

\* sunlark_binding_component: a binding found on the way from a target.  An
\* integer or a string asks for the items equal to it.
Component(b, args) ==
  LET v == Val(b)
      rest == Tail(args)
  IN CASE Is(args[1], {"key"}) -> IF rest = << >> THEN Wrap(Key(b)) ELSE Null
       [] Is(args[1], ValueOps) /\ rest = << >> -> Wrap(v)
       [] Is(args[1], ValueOps) /\ rest # << >> /\ tid[v] = "Dict_Expr" -> DictExpr(v, rest)
       [] Is(args[1], ValueOps) /\ rest # << >> /\ tid[v] = "List_Expr" ->
            CASE IsKwIndex(rest[1]) -> Wrap(At(Kids(v), KwIndex(rest[1])))
              [] rest[1].kind = "str" -> {R("copies", WithText(Kids(v), "STRING", rest[1].s))}
              [] rest[1].kind = "int" -> {R("copies", WithText(Kids(v), "INT", rest[1].s))}
              [] OTHER -> Error
       [] OTHER -> Error

\* sunlark_bindings_list_dispatcher: a keyword, :0 too, is a property.
BindingsList(al, args) ==
  LET found == IF args[1].kind = "sym" THEN Keyed(BindingsOf(al), args[1].s)
               ELSE At(BindingsOf(al), KwIndex(args[1]))
  IN CASE IsKw(args[1]) -> CommonProperty(al, args[1])
       [] args[1].kind \in {"sym", "int"} ->
            IF found = 0 THEN Died ELSE Binding(found, Tail(args))
       [] OTHER -> Died

-----------------------------------------------------------------------------
(***************************************************************************)
(* Targets                                                                 *)
(***************************************************************************)
\* slip: the position looked for by sunlark_is_nbr_kw, which knows no int
TargetBindingKw(t, args) ==
  LET b == At(Bindings(t), KwIndex(args[1]))
  IN IF IsKwIndex(args[1]) /\ b # 0 /\ Len(args) = 1 THEN Wrap(b) ELSE Error

\* _target_binding_dispatcher.  What a lookup past the end leaves in errno
\* decides between an error and a raw NULL; a name not found is ().
TargetBinding(t, args) ==
  LET found == IF args[1].kind = "sym" THEN Keyed(Bindings(t), args[1].s)
               ELSE At(Bindings(t), KwIndex(args[1]))
  IN CASE ~IsIndex(args[1]) /\ args[1].kind # "sym" -> Error
       [] IsIndex(args[1]) /\ found = 0 -> Error \cup Null
       [] args[1].kind = "sym" /\ found = 0 -> {Bare("nil")}
       [] OTHER -> IF Len(args) = 1 THEN Wrap(found) ELSE Component(found, Tail(args))

\* sunlark_target_dispatcher
Target(t, args) ==
  CASE t = 0 -> Died
    [] t # 0 /\ Is(args[1], AllBindings) /\ Len(args) = 1 -> Wrap(ArgList(t))
    [] t # 0 /\ Is(args[1], OneBinding) ->
         IF Len(args) = 1 THEN Wrap(ArgList(t)) ELSE TargetBinding(t, Tail(args))
    [] t # 0 /\ Is(args[1], {"name", "key"}) -> Wrap(NameOf(t))
    [] t # 0 /\ Is(args[1], {"rule"}) -> Wrap(Rule(t))
    [] t # 0 /\ Is(args[1], {"arg-list"}) -> {R("nodes", Kids(ArgList(t)))}
    [] OTHER -> CommonProperty(t, args[1])

\* slip: the target not found is not noticed
PkgTargetUnchecked(args) ==
  LET t == IF args[1].kind = "str" THEN TargetNamed(args[1].s)
           ELSE At(Targets, KwIndex(args[1]))
  IN IF Len(args) = 1 THEN Wrap(t) ELSE Target(t, Tail(args))

\* _pkg_target_dispatcher: a name not found is an error, an index past the
\* end goes on with no target.
PkgTarget(args) ==
  LET t == IF args[1].kind = "str" THEN TargetNamed(args[1].s)
           ELSE At(Targets, KwIndex(args[1]))
  IN IF (args[1].kind = "str" /\ t = 0) \/ (args[1].kind # "str" /\ ~IsIndex(args[1]))
     THEN Error
     ELSE IF Len(args) = 1 THEN Wrap(t) ELSE Target(t, Tail(args))

\* _target_satisfies_filter_criteria: any criterion will do; an integer is a
\* position among the targets.
Satisfies(t, filter) ==
  \E k \in DOMAIN filter :
    \/ filter[k].kind = "sym" /\ Str(Rule(t)) \in Kind[filter[k].s]
    \/ filter[k].kind = "str" /\ Str(NameOf(t)) = filter[k].s
    \/ filter[k].kind = "int" /\ filter[k].n + 1 \in DOMAIN Targets /\ Targets[filter[k].n + 1] = t

\* slip: the position counted among all calls, targets or not
FilteredByCall(filter) ==
  LET Sat(t) == \E k \in DOMAIN filter : filter[k].kind = "int" /\ filter[k].n + 1 \in DOMAIN Calls
                         /\ Calls[filter[k].n + 1] = t
  IN SelectSeq(Calls, Sat)

\* sunlark_targets_from_filterlist
Filtered(filter) == Selected(Targets, {k \in DOMAIN Targets : Satisfies(Targets[k], filter)})

\* A second step after a filter list selects one of the targets found.  What
\* is no index counts as -1, and INT_MIN, with no abs, passes for a position.
FilteredAt(found, st) ==
  LET index == KwIndex(st)
      t == At(found, index)
  IN CASE IsIndex(st) /\ index < 0 /\ CAbs(index) > Len(found) -> Null
       [] IsIndex(st) /\ index >= Len(found) -> Error
       [] ~IsIndex(st) \/ index = IntMin -> {Bare("wrapped_NULL")}
       [] OTHER -> {R("copy", <<t>>)}

\* the targets with an attribute of that name
Holders(name) ==
  Selected(Targets, {k \in DOMAIN Targets : Keyed(Bindings(Targets[k]), name) # 0})

\* slip: :value takes the first part of the binding too
AllNamedSwapped(name, part) ==
  LET holders == Holders(name)
  IN [k \in DOMAIN holders |-> Key(Keyed(Bindings(holders[k]), name))]

\* The bindings of a name, or their keys or values.
AllNamed(name, part) ==
  LET holders == Holders(name)
      b(k) == Keyed(Bindings(holders[k]), name)
  IN [k \in DOMAIN holders |->
        CASE part = "key" -> Key(b(k)) [] part = "value" -> Val(b(k)) [] OTHER -> b(k)]

\* With no second step op2 was never assigned: it may hold either keyword.
ForAllBindings(args) ==
  LET Named(part) == R("copies", AllNamed(args[1].s, part))
  IN CASE args = << >> -> {R("copies", FlattenSeq([k \in DOMAIN Targets |-> Bindings(Targets[k])]))}
       [] Len(args) \in {1, 2} /\ IsKw(args[1]) -> {R("copies", << >>)}
       [] Len(args) = 1 /\ args[1].kind = "sym" -> {Named(p) : p \in {"key", "value", "binding"}}
       [] Len(args) = 2 /\ args[1].kind = "sym" ->
            {Named(IF Is(args[2], {"key"}) THEN "key"
                   ELSE IF Is(args[2], ValueOps) THEN "value" ELSE "binding")}
       [] OTHER -> {Bare("unspecified")}

\* sunlark_forall_targets
ForAllTargets(args) ==
  CASE args = << >> -> {R("copies", Targets)}
    [] args # << >> /\ Is(args[1], AllBindings) -> ForAllBindings(Tail(args))
    [] args # << >> /\ args[1].kind = "sym" ->
         {R("copies", Filtered(<<args[1]>>))}
    [] args # << >> /\ args[1].kind = "list" ->
         IF Len(args) = 2 THEN FilteredAt(Filtered(Filters[args[1].n]), args[2])
         ELSE {R("copies", Filtered(Filters[args[1].n]))}
    [] OTHER -> Error

-----------------------------------------------------------------------------
(***************************************************************************)
(* Load statements                                                         *)
(***************************************************************************)
LoadArg(l, args) ==
  LET arg == IF args[1].kind = "str"
             THEN FirstOf(WithText(LoadArgs(l), "STRING", args[1].s))
             ELSE At(LoadArgs(l), KwIndex(args[1]))
  IN CASE args[1].kind = "str" \/ IsIndex(args[1]) ->
            CASE Len(args) = 1 -> IF arg = 0 THEN Null ELSE Wrap(arg)
              [] Len(args) = 2 /\ IsKw(args[2]) -> CommonProperty(arg, args[2])
              [] OTHER -> Null
       [] IsKw(args[1]) /\ ~IsKwIndex(args[1]) -> CommonProperty(l, args[1])
       [] OTHER -> Null

\* A keyword is a symbol too, with no binding of its name.  After a symbol,
\* :key is passed on where a list is expected, and no step is seen.
LoadBinding(l, args) ==
  LET b == CASE IsIndex(args[1])        -> At(LoadBindings(l), KwIndex(args[1]))
             [] args[1].kind = "sym"    -> Keyed(LoadBindings(l), args[1].s)
             [] OTHER                   -> 0
  IN CASE b = 0 -> Null
       [] b # 0 /\ Len(args) = 1 -> Wrap(b)
       [] b # 0 /\ Len(args) = 2 /\ IsIndex(args[1]) /\ Is(args[2], {"key", "value"}) ->
            Binding(b, <<args[2]>>)
       [] b # 0 /\ Len(args) = 2 /\ args[1].kind = "sym" /\ Is(args[2], {"key"}) -> Binding(b, << >>)
       [] b # 0 /\ Len(args) = 2 /\ IsKw(args[2]) /\ ~Is(args[2], {"key"})
            /\ ~(IsIndex(args[1]) /\ Is(args[2], {"value"})) ->
            CommonProperty(b, args[2])
       [] OTHER -> Null

\* _loadstmt_dispatch
Load(l, args) ==
  CASE Is(args[1], {"arg"}) ->
         IF Len(args) = 1 THEN {R("copies", LoadArgs(l))} ELSE LoadArg(l, Tail(args))
    [] Is(args[1], {"args"}) -> IF Len(args) = 1 THEN {R("copies", LoadArgs(l))} ELSE Null
    [] Is(args[1], AllBindings) -> IF Len(args) = 1 THEN {R("copies", LoadBindings(l))} ELSE Null
    [] Is(args[1], OneBinding) -> IF Len(args) = 1 THEN Null ELSE LoadBinding(l, Tail(args))
    [] Is(args[1], {"key"}) -> IF Len(args) = 1 THEN Wrap(Key(l)) ELSE Error
    [] IsKw(args[1]) /\ ~Is(args[1], {"arg", "args", "key"} \cup OneBinding \cup AllBindings) ->
         CommonProperty(l, args[1])
    [] OTHER -> Null

\* sunlark_pkg_loadstmt_dispatch
PkgLoad(args) ==
  LET l == IF args = << >> THEN 0
           ELSE IF args[1].kind = "str" THEN Keyed(Loads, args[1].s)
           ELSE IF IsIndex(args[1]) THEN At(Loads, KwIndex(args[1])) ELSE 0
  IN IF l = 0 THEN Null ELSE IF Len(args) = 1 THEN Wrap(l) ELSE Load(l, Tail(args))

-----------------------------------------------------------------------------
(***************************************************************************)
(* sunlark_dispatch                                                        *)
(***************************************************************************)
\* :directives, :definitions, :vardefs and :procedures are left out.
Package(args) ==
  CASE ~IsKw(args[1]) -> Died
    [] Is(args[1], {">>", "targets"}) -> ForAllTargets(Tail(args))
    [] Is(args[1], {">", "target"}) -> IF Len(args) = 1 THEN Error ELSE PkgTarget(Tail(args))
    [] Is(args[1], {"load"}) -> OrError(PkgLoad(Tail(args)))
    [] Is(args[1], {"loadstmts"}) -> {R("copies", Loads)}
    [] Is(args[1], {"package"}) ->
         LET procs == WithRule("package")
         IN IF Len(procs) = 1 THEN {R("copy", procs)} ELSE {Bare("nil")}
    [] Is(args[1], {"format"}) -> {Bare("unspecified")}
    [] Is(args[1], {"filename"}) -> Property(Root)
    [] Is(args[1], {"save"}) -> Error \cup {Bare("unspecified")}
    [] OTHER -> CommonProperty(Root, args[1])

IsPredicate(op) == Is(op, Predicates)

\* Strings, integers and identifiers; steps after the first are ignored.
Leaf(n, args) ==
  IF tid[n] = "STRING" /\ Is(args[1], {"q", "qqq", "t"}) THEN Property(n)
  ELSE CommonProperty(n, args[1])

\* The dispatcher of the type of the node; a NULL from it is an error, of a
\* property, or NULL.
ByType(n, args) ==
  LET OrCommon(results) ==
        UNION {IF r.is = "NULL" THEN CommonProperty(n, args[1]) ELSE {r} : r \in results}
      IfPredicate(results) == IF IsPredicate(args[1]) THEN Property(n) ELSE results
  IN CASE tid[n] = "Package"    -> Package(args)
       [] tid[n] = "Load_Stmt"  -> Load(n, args)
       [] tid[n] = "Call_Expr"  -> IfPredicate(Target(n, args))
       [] tid[n] = "Arg_List"   -> BindingsList(n, args)
       [] tid[n] = "Binding"    -> IfPredicate(OrError(Binding(n, args)))
       [] tid[n] = "Dict_Entry" -> OrCommon(DictEntry(n, args))
       [] tid[n] = "Dict_Expr"  -> DictExpr(n, args)
       [] tid[n] = "List_Expr"  -> OrCommon(Vector(n, args))
       [] OTHER                 -> Leaf(n, args)

\* What a call of the node n with these steps may give.  The last step :$ is
\* taken off; packages, load statements and targets apply it to the result.
Dispatch(n, steps) ==
  LET dollar == Is(Last(steps), {"$"})
      args == IF dollar THEN Front(steps) ELSE steps
      applied == \/ tid[n] \in {"Package", "Load_Stmt"}
                 \/ tid[n] = "Call_Expr" /\ ~IsPredicate(args[1])
      Converted(r) == CASE dollar /\ applied                -> ToScheme({r})
                        [] ~dollar /\ tid[n] = "Call_Expr" -> OrError({r})
                        [] OTHER                           -> {r}
  IN IF args = << >> THEN NodeToScheme(n) ELSE UNION {Converted(r) : r \in ByType(n, args)}

-----------------------------------------------------------------------------
(***************************************************************************)
(* A script                                                                *)
(***************************************************************************)
Init ==
  /\ pc = "idle" /\ path = << >> /\ done = 0
  /\ cur = R("node", <<Root>>)
  /\ tid = [n \in Nodes |-> Tree[n].tid]

\* The script sets out from the package.
Ask(p) ==
  /\ pc = "idle"
  /\ pc' = "walk" /\ path' = p /\ done' = 0
  /\ cur' = R("node", <<Root>>)
  /\ UNCHANGED tid

GoesOn(r) ==
  \/ r.is \in {"node", "copy", "wrapped_NULL"}
  \/ r.is \in {"nodes", "copies"} /\ r.of # << >>

Becomes(r, taken) ==
  /\ cur' = r
  /\ done' = taken
  /\ tid' = [n \in Nodes |-> IF n \in r.retyped THEN "List_Expr" ELSE tid[n]]
  /\ pc' = IF r.is \in {"died", "undefined", "NULL"} THEN "over"
           ELSE IF GoesOn(r) /\ taken < Len(path) THEN "walk"
           ELSE "idle"
  /\ UNCHANGED path

\* It applies the node it holds to one or more of the steps left.
Apply ==
  /\ pc = "walk" /\ cur.is \in {"node", "copy"}
  /\ \E taken \in done + 1 .. Len(path) :
       \E r \in Dispatch(cur.of[1], SubSeq(path, done + 1, taken)) : Becomes(r, taken)

\* The type of what is no node is read.
ApplyToNothing ==
  /\ pc = "walk" /\ cur.is = "wrapped_NULL"
  /\ Becomes(Bare("died"), Len(path))

\* It goes on from an element of the list it holds.
Pick ==
  /\ pc = "walk" /\ cur.is \in {"nodes", "copies"}
  /\ \E k \in DOMAIN cur.of :
       cur' = R(IF cur.is = "nodes" THEN "node" ELSE "copy", <<cur.of[k]>>)
  /\ UNCHANGED <<pc, path, done, tid>>

Next == (\E p \in Paths : Ask(p)) \/ Apply \/ ApplyToNothing \/ Pick

Spec == Init /\ [][Next]_vars

-----------------------------------------------------------------------------
(***************************************************************************)
(* What a path means: each step selects from what the step before it did.  *)
(* A place is a node, or the targets, the load statements, the arguments   *)
(* or the attributes a node holds.                                         *)
(***************************************************************************)
Self(n) == [node |-> n, as |-> "self"]
As(n, facet) == {[node |-> n, as |-> facet]}
Found(n) == IF n = 0 THEN {} ELSE {Self(n)}
ByIndex(seq, st) == IF IsIndex(st) THEN Found(At(seq, KwIndex(st))) ELSE {}
ByKey(seq, st, kind) == IF st.kind = kind THEN Found(Keyed(seq, st.s)) ELSE {}

SelectSelf(n, st) ==
  CASE Tree[n].tid = "Package" ->
         IF Is(st, {">", "target"}) THEN As(n, "targets")
         ELSE IF Is(st, {"load"}) THEN As(n, "loads") ELSE {}
    [] Tree[n].tid = "Call_Expr" ->
         IF Is(st, OneBinding \cup AllBindings) THEN Found(ArgList(n))
         ELSE IF Is(st, {"name", "key"}) THEN Found(NameOf(n))
         ELSE IF Is(st, {"rule"}) THEN Found(Rule(n)) ELSE {}
    [] Tree[n].tid = "Load_Stmt" ->
         IF Is(st, OneBinding) THEN As(n, "bindings")
         ELSE IF Is(st, {"arg"}) THEN As(n, "args")
         ELSE IF Is(st, {"key"}) THEN Found(Key(n)) ELSE {}
    [] Tree[n].tid = "Arg_List" -> ByIndex(BindingsOf(n), st) \cup ByKey(BindingsOf(n), st, "sym")
    [] Tree[n].tid \in {"Binding", "Dict_Entry"} ->
         IF Is(st, {"key"}) THEN Found(Key(n))
         ELSE IF Is(st, ValueOps) THEN Found(Val(n)) ELSE {}
    [] Tree[n].tid = "List_Expr" -> ByIndex(Kids(n), st)
    [] Tree[n].tid = "Dict_Expr" ->
         (IF IsKwIndex(st) THEN ByIndex(Kids(n), st) ELSE {}) \cup ByKey(Kids(n), st, "str")
    [] OTHER -> {}

Select(place, st) ==
  CASE place.as = "self"     -> SelectSelf(place.node, st)
    [] place.as = "targets"  ->
         ByIndex(Targets, st) \cup IF st.kind = "str" THEN Found(TargetNamed(st.s)) ELSE {}
    [] place.as = "loads"    -> ByIndex(Loads, st) \cup ByKey(Loads, st, "str")
    [] place.as = "args"     ->
         LET args == LoadArgs(place.node)
         IN ByIndex(args, st)
            \cup IF st.kind = "str" THEN Found(FirstOf(WithText(args, "STRING", st.s))) ELSE {}
    [] place.as = "bindings" ->
         ByIndex(LoadBindings(place.node), st) \cup ByKey(LoadBindings(place.node), st, "sym")

Meaning(n, steps) ==
  LET places[k \in 0 .. Len(steps)] ==
        IF k = 0 THEN {Self(n)} ELSE UNION {Select(place, steps[k]) : place \in places[k - 1]}
  IN places[Len(steps)]

-----------------------------------------------------------------------------
(***************************************************************************)
(* Properties                                                              *)
(***************************************************************************)
TypeOK ==
  /\ pc \in {"idle", "walk", "over"}
  /\ path \in Paths \cup {<< >>} /\ done \in 0 .. Len(path)
  /\ cur \in Result
  /\ tid \in [Nodes -> Tids]

\* The steps of the call that is being made, and the node they are applied to.
Chunk == SubSeq(path, done + 1, done')
IsCall == done' > done /\ cur.is \in {"node", "copy"}
Origin == cur.of[1]

\* An index follows what a read, this one or one before, has made a vector.
Misled ==
  \E k \in DOMAIN Chunk : IsIndex(Chunk[k]) /\
    \E place \in Meaning(Origin, SubSeq(Chunk, 1, k - 1)) :
      place.as = "self" /\ tid'[place.node] # Tree[place.node].tid

\* A node a call returns is what its steps mean, or what the first of them
\* mean, with or without the :$ at the end: a dispatcher may ignore steps,
\* but it never leaves the path, unless it is misled by a changed type.
NeverAstray ==
  [][IsCall /\ cur'.is = "node" =>
       \/ Misled
       \/ \E k \in 1 .. Len(Chunk) :
            LET first == SubSeq(Chunk, 1, k)
                ends == {first} \cup IF Is(Last(Chunk), {"$"}) THEN {Append(first, Last(Chunk))} ELSE {}
            IN \E steps \in ends : Self(cur'.of[1]) \in Meaning(Origin, steps)]_vars

\* Nodes the dispatchers give but do not look into on their way to another:
\* an item of a list, a key, or a value that is a call, or in a dictionary
\* anything but a list.
OutOfReach ==
  {n \in Nodes : \E m \in Nodes :
     /\ n \in Range(Kids(m))
     /\ \/ Tree[m].tid = "List_Expr"
        \/ Tree[m].tid = "Dict_Entry" /\ (n = Key(m) \/ Tree[n].tid # "List_Expr")
        \/ Tree[m].tid = "Binding" /\ Tree[n].tid = "Call_Expr"}

GoesDeeper(n, steps) ==
  \E k \in 1 .. Len(steps) - 1 : \E place \in Meaning(n, SubSeq(steps, 1, k)) :
    place.as = "self" /\ place.node \in OutOfReach

\* What else the dispatchers have no case for: an integer, a string or a
\* symbol after the value of an attribute that is no dictionary; the parts of
\* an attribute of a load statement; anything after :@@ or after a name; an
\* item of the value of an entry found by position.
Unsupported(p) ==
  \/ \E k \in 2 .. Len(p) : Is(p[k - 1], ValueOps) /\ p[k].kind = "int"
  \/ \E k \in 1 .. Len(p) - 1 : Is(p[k], AllBindings \cup {"name", "key"})
  \/ \E k \in 2 .. Len(p) - 1 :
       Is(p[k - 1], OneBinding) /\ Is(p[1], {"load"})
  \/ \E k \in 2 .. Len(p) - 2 : Is(p[k - 1], ValueOps) /\ IsKwIndex(p[k]) /\ Is(p[k + 1], ValueOps)
  \/ Is(Last(p), {"$"})

\* A path from the package to a node, asked in one call, gives that node,
\* unless it is one of those the dispatchers have no case for.
ReachesNode ==
  [][IsCall /\ Origin = Root =>
       \/ \A place \in Meaning(Root, Chunk) :
            place.as = "self" => cur'.is = "node" /\ cur'.of = <<place.node>>
       \/ Unsupported(Chunk)
       \/ GoesDeeper(Root, Chunk)]_vars

\* A wrapper around NULL comes of an index past the end, of the name of a call
\* that has none, of a selector after a filter list that is no index or is
\* INT_MIN, or of an index after a changed type; a string or a symbol that
\* names nothing never gives one.
NullFromIndex ==
  [][IsCall /\ cur'.is = "wrapped_NULL" =>
       \/ Misled
       \/ \E k \in DOMAIN Chunk :
            /\ IsIndex(Chunk[k])
            /\ Meaning(Origin, SubSeq(Chunk, 1, k - 1)) # {}
            /\ Meaning(Origin, SubSeq(Chunk, 1, k)) = {}
       \/ \E k \in 2 .. Len(Chunk) :
            Chunk[k - 1].kind = "list" /\ (~IsIndex(Chunk[k]) \/ KwIndex(Chunk[k]) = IntMin)
       \/ Is(Chunk[1], {"name", "key"}) /\ tid[Origin] = "Call_Expr" /\ NameOf(Origin) = 0]_vars

\* A path that leads to a node never ends the process on the way, unless an
\* integer follows the value of an attribute, the path goes deeper than the
\* dispatchers do, or it sets out from a node whose type a read has changed.
Survives ==
  [][IsCall /\ cur'.is = "died" =>
       \/ Meaning(Origin, Chunk) = {}
       \/ GoesDeeper(Origin, Chunk)
       \/ tid[Origin] # Tree[Origin].tid
       \/ \E k \in 2 .. Len(Chunk) : Is(Chunk[k - 1], ValueOps) /\ Chunk[k].kind = "int"]_vars

StepOf(kind, s, n) == [kind |-> kind, s |-> s, n |-> n]
Kw(s) == StepOf("kw", s, 0)
NodesOf(places) == {place.node : place \in places}

\* What (pkg :> criterion) gives.
AfterTarget(criterion) == NodesOf(Meaning(Root, <<Kw(">"), criterion>>))

\* A criterion of a filter chooses the targets of a rule, those with the name
\* of the one that the same step chooses after :>, or the very one it chooses;
\* but it does not count from the end, and is not cut down to an int.
Chosen(criterion) ==
  CASE criterion.kind = "sym" -> {t \in Range(Targets) : Str(Rule(t)) \in Kind[criterion.s]}
    [] criterion.kind = "str" ->
         {t \in Range(Targets) : \E u \in AfterTarget(criterion) : Str(NameOf(t)) = Str(NameOf(u))}
    [] criterion.kind = "int" /\ criterion.n >= 0 /\ FitsInt(criterion) -> AfterTarget(criterion)
    [] OTHER -> {}

InPackageOrder(seq) ==
  \A j, k \in DOMAIN seq : j < k =>
    \E x, y \in DOMAIN Targets : x < y /\ Targets[x] = seq[j] /\ Targets[y] = seq[k]

\* (pkg :>> '(...)) gives the targets that its criteria choose, each once
\* and in the order of the package, one of them if a position follows.
FilterAgrees ==
  [][IsCall /\ Is(Chunk[1], {">>"}) /\ Len(Chunk) > 1 /\ Chunk[2].kind = "list"
       /\ cur'.is \in {"copies", "copy"} =>
       LET chosen == UNION {Chosen(c) : c \in Range(Filters[Chunk[2].n])}
       IN /\ cur'.is = "copies" => Range(cur'.of) = chosen /\ InPackageOrder(cur'.of)
          /\ cur'.is = "copy" => Range(cur'.of) \subseteq chosen]_vars

\* (pkg :>> :@@ 'name :value) gives, target by target, what
\* (pkg :> i :@ 'name :value) gives for those that have the attribute.
BulkAgrees ==
  [][IsCall /\ Is(Chunk[1], {">>"}) /\ Len(Chunk) = 4 /\ Is(Chunk[2], AllBindings)
       /\ cur'.is = "copies" /\ Chunk[3].kind = "sym" /\ Is(Chunk[4], {"key", "value"}) =>
       LET One(i) == Meaning(Root, <<Kw(">"), StepOf("int", Chunk[3].s, i - 1), Kw("@"),
                                     Chunk[3], Chunk[4]>>)
           holders == Selected([i \in DOMAIN Targets |-> i], {i \in DOMAIN Targets : One(i) # {}})
       IN /\ DOMAIN cur'.of = DOMAIN holders
          /\ \A k \in DOMAIN holders : {cur'.of[k]} = NodesOf(One(holders[k]))]_vars

\* A read changes no type but that of the value of a dictionary entry.
OnlyEntryValuesRetyped ==
  [][\A n \in Nodes : tid'[n] # tid[n] =>
       \E e \in Nodes : Tree[e].tid = "Dict_Entry" /\ Val(e) = n]_vars
=============================================================================
