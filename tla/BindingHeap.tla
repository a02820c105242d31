----------------------------- MODULE BindingHeap -----------------------------
(***************************************************************************)
(* Bindings in memory: which node structs exist, which arrays they point   *)
(* to, and which Scheme objects (wrappers) point to them.                  *)
(*                                                                         *)
(* A target's arg_list holds its bindings by value.  A binding points to   *)
(* an array of three nodes, key, "=" and value; the value node may point   *)
(* to the items of a list.  A wrapper points to a struct: into the         *)
(* arg_list, or to a binding made by make-binding.  The edits of one       *)
(* binding (set! with the context TK_Binding), copy and the collector work *)
(* on these pointers; insertion and removal move the structs.              *)
(*                                                                         *)
(* Each action is one call of the script, or one object the collector      *)
(* frees.  A call that uses what was freed leads to pc = "undefined",      *)
(* where the model ends.                                                   *)
(***************************************************************************)
EXTENDS Naturals, Sequences, FiniteSets, SequencesExt

CONSTANTS
  Texts,        \* keys and the texts of values
  EmptyText,    \* the empty string, one of them; also a node without text
  Names,        \* the script's variables, strings
  Parsed,       \* contents of the bindings of a parsed target
  MadeFrom,     \* contents make-binding is called with
  NewValues,    \* what :value is set to
  NewPairs,     \* the (key value) lists a binding is set to
  MaxCalls      \* bound on the calls and collections of a run

Atom == [tid : {"STRING", "ID", "INT", "blank"}, s : Texts]

\* A value node: one atom; a list and its items; a list with a comma in front
\* of each item, and one with a last comma behind them besides; a list node
\* that has lost its expr_list, or all its subnodes; a node that was freed.
Content == [tid : {"atom", "list", "fronted", "ragged", "emptied", "hollow", "freed"},
            items : Seq(Atom)]

\* What the script gives as an atom, or as the element of a list.  An integer
\* is one that C's int holds.  Elements of other types, and the :remove! list,
\* are VectorMutators'.
Element == {e \in Atom : e.tid # "blank" /\ (e.s = EmptyText => e.tid = "STRING")}

NewValue == [kind : {"null", "list", "vector", "atom", "cobj", "other"}, items : Seq(Element)]

\* valid is whether sunlark_new_binding_is_valid accepts the list
NewPair == [valid : BOOLEAN, key : Texts, val : [kind : {"list", "atom"}, items : Seq(Element)]]

\* _list_is_valid
ListIsValid(items) ==
  /\ items # << >>
  /\ items[1].tid # "ID"
  /\ \A i \in DOMAIN items : items[i].tid \in {items[1].tid, "ID"}

\* The subnodes of a binding.
Array == [live : BOOLEAN, key : Texts, val : Content]

\* A binding's struct.  id tells bindings apart; the code has no such field.
Struct == [id : Nat, sub : Nat]

\* Where a wrapper points.
Pointer == [in : {"none", "tree", "made", "lost"}, k : Nat]
Nowhere == [in |-> "none", k |-> 0]

Contents == [key : Texts, val : [tid : {"atom", "list"}, items : Seq(Atom)]]

ASSUME ParsedAssumption == Parsed \subseteq Seq(Contents) /\ MadeFrom \subseteq Contents

ASSUME TextsAssumption == EmptyText \in Texts

ASSUME InputAssumption ==
  /\ NewValues \subseteq NewValue /\ NewPairs \subseteq NewPair
  /\ \A p \in NewPairs : p.valid /\ p.val.kind = "list" => ListIsValid(p.val.items)

ASSUME MaxCallsAssumption == MaxCalls \in Nat

VARIABLES
  heap,        \* the arrays, by address
  tree,        \* the structs in the arg_list
  made,        \* the structs made by make-binding, by address
  w,           \* the wrapper each variable of the script holds
  garbage,     \* where wrappers point that the script has let go of
  pc,          \* "running", or how the program ended
  call,        \* the last call and what the script saw of it
  calls,       \* number of calls so far
  taken,       \* the binding a wrapper was made for, and the edition then
  edition,     \* number of insertions and removals so far
  joined,      \* bindings that were assigned, copied or inserted from another
  collected    \* bindings a wrapper of which was collected

memory == <<heap, tree, made>>
script == <<w, garbage, taken>>
history == <<edition, joined, collected>>
vars == <<heap, tree, made, w, garbage, pc, call, calls, taken, edition, joined, collected>>

NoValue == [kind |-> "none", items |-> << >>]
NoCall == [op |-> "none", by |-> "", key |-> "", val |-> NoValue, out |-> "ok"]

Init ==
  /\ \E p \in Parsed :
       /\ heap = [i \in DOMAIN p |-> [live |-> TRUE, key |-> p[i].key, val |-> p[i].val]]
       /\ tree = [i \in DOMAIN p |-> [id |-> i, sub |-> i]]
  /\ made = << >>
  /\ w = [x \in Names |-> Nowhere]
  /\ garbage = {}
  /\ pc = "running"
  /\ call = NoCall
  /\ calls = 0
  /\ taken = [x \in Names |-> [id |-> 0, edition |-> 0]]
  /\ edition = 0
  /\ joined = {}
  /\ collected = {}

-----------------------------------------------------------------------------
(***************************************************************************)
(* Structs and wrappers                                                    *)
(***************************************************************************)
\* p points to a struct that exists
Valid(p) == p.in \in {"tree", "made"} /\ p.k \in DOMAIN (IF p.in = "tree" THEN tree ELSE made)

StructAt(p) == IF p.in = "tree" THEN tree[p.k] ELSE made[p.k]

PutStruct(p, sub) ==
  /\ tree' = IF p.in = "tree" THEN [tree EXCEPT ![p.k].sub = sub] ELSE tree
  /\ made' = IF p.in = "made" THEN [made EXCEPT ![p.k].sub = sub] ELSE made

Live(p) == Valid(p) /\ heap[StructAt(p).sub].live /\ heap[StructAt(p).sub].val.tid # "freed"

\* x's binding, its array's address
Sub(x) == StructAt(w[x]).sub

\* an id no binding has had
NewId == Len(heap) + calls + 1

\* The call through x, with a key and a value, has returned.
Returns(op, x, key, val, out) ==
  /\ calls' = calls + 1
  /\ call' = [op |-> op, by |-> x, key |-> key, val |-> val, out |-> out]

Done(op, x) == Returns(op, x, "", NoValue, "ok")

CanCall == pc = "running" /\ calls < MaxCalls
Holds(x) == CanCall /\ w[x] # Nowhere

\* undefined behaviour, a failed process
Ends(how) ==
  /\ pc' = how
  /\ calls' = calls + 1
  /\ call' = NoCall
  /\ UNCHANGED <<memory, script, history>>

(***************************************************************************)
(* (define x (target :@ k)): a new wrapper, each time.                     *)
(***************************************************************************)
Hold(x, p, id) ==
  /\ w' = [w EXCEPT ![x] = p]
  /\ garbage' = garbage \cup ({w[x]} \ {Nowhere})
  /\ taken' = [taken EXCEPT ![x] = [id |-> id, edition |-> edition]]

Take(x, k) ==
  /\ CanCall
  /\ Hold(x, [in |-> "tree", k |-> k], tree[k].id)
  /\ Done("take", x)
  /\ UNCHANGED <<memory, history, pc>>

\* (define x (make-binding key value))
Make(x, c) ==
  /\ CanCall
  /\ Hold(x, [in |-> "made", k |-> Len(made) + 1], NewId)
  /\ made' = Append(made, [id |-> NewId, sub |-> Len(heap) + 1])
  /\ heap' = Append(heap, [live |-> TRUE, key |-> c.key, val |-> c.val])
  /\ Done("make", x)
  /\ UNCHANGED <<tree, history, pc>>

\* x goes out of scope
Drop(x) ==
  /\ Holds(x)
  /\ Hold(x, Nowhere, 0)
  /\ Done("drop", x)
  /\ UNCHANGED <<memory, history, pc>>

-----------------------------------------------------------------------------
(***************************************************************************)
(* Editing one binding: sunlark_set_bang, TK_Binding.                      *)
(***************************************************************************)
\* the array of x becomes a
Writes(x, op, key, val, a) ==
  /\ heap' = [heap EXCEPT ![Sub(x)] = a]
  /\ Returns(op, x, key, val, "ok")
  /\ UNCHANGED <<tree, made, script, history, pc>>

Refuses(x, op, key, val, out) ==
  /\ Returns(op, x, key, val, out)
  /\ UNCHANGED <<memory, script, history, pc>>

\* every edit reads the binding, its array and its value first
Edits(x) == Holds(x) /\ Live(w[x])

EditDead(x) == Holds(x) /\ ~Live(w[x]) /\ Ends("undefined")

\* slip: the key of the first attribute is set
SetKeyOfFirst(x, key) ==
  /\ Edits(x)
  /\ heap' = [heap EXCEPT ![tree[1].sub].key = key]
  /\ Returns("key", x, key, NoValue, "ok")
  /\ UNCHANGED <<tree, made, script, history, pc>>

\* (set! (x :key) key); anything but a symbol or :null exits, and no symbol
\* has an empty name
SetKey(x, key) ==
  /\ Edits(x)
  /\ Writes(x, "key", key, NoValue, [heap[Sub(x)] EXCEPT !.key = key])

RefuseKey(x) ==
  /\ Edits(x)
  /\ Refuses(x, "key", "", NoValue, "error") \/ Ends("exited")

Inferred(items) ==
  \E i \in DOMAIN items : items[i].tid # "ID" /\ \A j \in 1 .. i - 1 : items[j].tid = "ID"

IsListExpr(c) == c.tid \notin {"atom", "freed"}

\* a list expression whose expr_list is there
HasItems(c) == c.tid \in {"list", "fronted", "ragged"}

\* sunlark_mutate_vector gets to its end.  A list grows by empty strings
\* alone: copying any other text into the new node goes wrong.  Where a last
\* comma counts as an item, there is none behind it to replace.
Replaceable(old, items) ==
  /\ HasItems(old)
  /\ items = << >> \/ Inferred(items)
  /\ IF old.tid = "ragged" THEN Len(items) <= Len(old.items)
     ELSE \A i \in DOMAIN items :
            i > Len(old.items) => items[i] = [tid |-> "STRING", s |-> EmptyText]

\* it finds neither a string nor an integer, and says so
Uninferred(old, items) == HasItems(old) /\ items # << >> /\ ~Inferred(items)

\* What it leaves.  '() takes the expr_list away.  Each new item goes in
\* behind a comma, the first one too; what is more than asked for is cut off
\* as if no comma was in front.
Replaced(old, items) ==
  CASE items = << >> -> [tid |-> "emptied", items |-> << >>]
    [] items # << >> /\ old.tid = "list" ->
         [tid |-> IF old.items = << >> THEN "fronted" ELSE "list", items |-> items]
    [] items # << >> /\ old.tid = "fronted" /\ Len(items) >= Len(old.items) ->
         [tid |-> "fronted", items |-> items]
    [] OTHER -> [tid |-> "ragged", items |-> Front(items)]

\* slip: a symbol's node keeps the type it was made for
ConvertedToList(items) ==
  [i \in DOMAIN items |-> IF items[i].tid = "ID" THEN [items[i] EXCEPT !.tid = "list"] ELSE items[i]]

\* _new_vec_from_list and _new_vec_from_vector leave out symbols
Converted(items) ==
  [i \in DOMAIN items |-> IF items[i].tid = "ID" THEN [items[i] EXCEPT !.tid = "blank"] ELSE items[i]]

\* The edited binding, in a new wrapper, is the value of the set! unless the
\* value became a list: then it is the value's node, which is not followed.
ReturnsBinding(v) == v.kind \notin {"list", "vector"}

\* sunlark_mutate_binding_value: the old items are freed before the new
\* value is looked at; a foreign object or a value of another type leaves
\* the node without them.
NewContent(old, v) ==
  CASE v.kind = "list" /\ IsListExpr(old)     -> Replaced(old, v.items)
    [] v.kind = "list" /\ ~IsListExpr(old)    -> [tid |-> "list", items |-> Converted(v.items)]
    [] v.kind = "vector"                      -> [tid |-> "list", items |-> Converted(v.items)]
    [] v.kind = "atom"                        -> [tid |-> "atom", items |-> v.items]
    [] OTHER -> IF IsListExpr(old) THEN [tid |-> "hollow", items |-> << >>] ELSE old

SetValue(x, v) ==
  /\ Edits(x)
  /\ LET old == heap[Sub(x)].val
         onList == v.kind = "list" /\ IsListExpr(old)
     IN  \/ /\ v.kind # "null"
            /\ onList => Replaceable(old, v.items)
            /\ heap' = [heap EXCEPT ![Sub(x)].val = NewContent(old, v)]
            /\ garbage' = garbage \cup (IF ReturnsBinding(v) THEN {w[x]} ELSE {})
            /\ Returns("value", x, "", v, "ok")
            /\ UNCHANGED <<tree, made, w, taken, history, pc>>
         \/ /\ v.kind = "null" \/ (onList /\ Uninferred(old, v.items))
            /\ Refuses(x, "value", "", v, "error")
         \/ /\ onList /\ ~Replaceable(old, v.items) /\ ~Uninferred(old, v.items)
            /\ Ends("undefined")

\* slip: the array is freed before the donor is looked at
RefuseDonorFreed(x) ==
  /\ Edits(x)
  /\ \/ /\ heap' = [heap EXCEPT ![Sub(x)].live = FALSE]
        /\ Done("whole", x)
        /\ UNCHANGED <<tree, made, script, history, pc>>
     \/ Refuses(x, "whole", "", NoValue, "error")
     \/ Ends("undefined")

\* (set! (x) v): v is no binding and no list, or :null, which alone is an
\* error the script sees.  Refusing a node prints a number as a string.
RefuseDonor(x) ==
  /\ Edits(x)
  /\ \/ Refuses(x, "whole", "", NoValue, "ok")
     \/ Refuses(x, "whole", "", NoValue, "error")
     \/ Ends("undefined")

\* (set! (x) y): y's struct is copied over x's, after x's array was freed.
AssignBinding(x, y) ==
  /\ Edits(x)
  /\ w[y] # Nowhere
  /\ IF Valid(w[y])
       THEN /\ heap' = [heap EXCEPT ![Sub(x)].live = FALSE]
            /\ PutStruct(w[x], StructAt(w[y]).sub)
            /\ joined' = joined \cup {StructAt(w[x]).id, StructAt(w[y]).id}
            /\ Done("assign", x)
            /\ UNCHANGED <<script, edition, collected, pc>>
       ELSE Ends("undefined")

\* slip: what the old list has more is not cut off
AssignPairKeepsTail(x, p) ==
  /\ Edits(x)
  /\ LET a   == heap[Sub(x)]
         new == p.val.items
         keep == SubSeq(a.val.items, Len(new) + 1, Len(a.val.items))
     IN  IF p.valid /\ p.val.kind = "list" /\ Replaceable(a.val, new)
           THEN Writes(x, "pair", p.key, p.val,
                       [a EXCEPT !.key = p.key, !.val.items = new \o keep])
           ELSE p.valid /\ Writes(x, "pair", p.key, p.val, [a EXCEPT !.key = p.key])

\* (set! (x) '(key value)): the key is set, and then the value only if both
\* values are lists.  A list for another value frees that node, a part of
\* the array, and goes no further; any other new value is not looked at.
AssignPair(x, p) ==
  /\ Edits(x)
  /\ LET a   == heap[Sub(x)]
         old == a.val
         new == [a EXCEPT !.key = p.key]
         isList == p.val.kind = "list"
         Becomes(c) == Writes(x, "pair", p.key, p.val, [new EXCEPT !.val = c])
     IN  \/ ~p.valid /\ Ends("exited")
         \/ p.valid /\ ~isList /\ Becomes(old)
         \/ /\ p.valid /\ isList /\ Replaceable(old, p.val.items)
            /\ Becomes(Replaced(old, p.val.items))
         \/ /\ p.valid /\ isList /\ IsListExpr(old) /\ ~Replaceable(old, p.val.items)
            /\ Ends("undefined")
         \/ /\ p.valid /\ isList /\ ~IsListExpr(old)
            /\ Ends("undefined") \/ Becomes([tid |-> "freed", items |-> << >>])

-----------------------------------------------------------------------------
(***************************************************************************)
(* Copying                                                                 *)
(***************************************************************************)
\* (copy x y): sealark_alias_node, which way is not to be seen here, lets
\* one struct point where the other does.
CopyTo(x, y) ==
  /\ Edits(x)
  /\ w[y] # Nowhere
  /\ IF ~Valid(w[y])
       THEN Ends("undefined")
       ELSE /\ \/ PutStruct(w[y], Sub(x))
               \/ PutStruct(w[x], Sub(y))
            /\ joined' = joined \cup {StructAt(w[x]).id, StructAt(w[y]).id}
            /\ Done("copy", x)
            /\ UNCHANGED <<heap, script, edition, collected, pc>>

\* (copy x) works with a pointer nobody has set
CopyOne(x) == Edits(x) /\ Ends("undefined")

-----------------------------------------------------------------------------
(***************************************************************************)
(* The arg_list around the bindings (ArglistMutators)                      *)
(***************************************************************************)
\* wrappers after the arg_list's memory has moved
Lost(p) == IF p.in = "tree" THEN [p EXCEPT !.in = "lost"] ELSE p

Stays == UNCHANGED <<w, garbage>>
Moves ==
  /\ w' = [x \in Names |-> Lost(w[x])]
  /\ garbage' = {Lost(p) : p \in garbage}

\* x's struct goes in behind the first k bindings, as it is or with a copy
\* of its array; the arg_list may be moved to where there is more room.
InsertBinding(x, k) ==
  /\ Edits(x)
  /\ \/ /\ tree' = InsertAt(tree, k + 1, [id |-> NewId, sub |-> Len(heap) + 1])
        /\ heap' = Append(heap, heap[Sub(x)])
        /\ UNCHANGED joined
     \/ /\ tree' = InsertAt(tree, k + 1, [id |-> NewId, sub |-> Sub(x)])
        /\ UNCHANGED heap
        /\ joined' = joined \cup {NewId, StructAt(w[x]).id}
  /\ Stays \/ Moves
  /\ edition' = edition + 1
  /\ Done("insert", x)
  /\ UNCHANGED <<made, taken, collected, pc>>

\* What the binding pointed to is freed with it, or left.
RemoveBinding(k) ==
  /\ CanCall
  /\ tree' = RemoveAt(tree, k)
  /\ heap' = heap \/ heap' = [heap EXCEPT ![tree[k].sub].live = FALSE]
  /\ edition' = edition + 1
  /\ Done("remove", "")
  /\ UNCHANGED <<made, script, joined, collected, pc>>

-----------------------------------------------------------------------------
(***************************************************************************)
(* The collector: sunlark_destroy_ast_node frees the node of every wrapper *)
(* it collects, whatever else points to it.                                *)
(***************************************************************************)
Collect(p) ==
  /\ CanCall
  /\ IF Valid(p) /\ heap[StructAt(p).sub].live
       THEN \/ /\ heap' = [heap EXCEPT ![StructAt(p).sub].live = FALSE]
               /\ garbage' = garbage \ {p}
               /\ collected' = collected \cup {StructAt(p).id}
               /\ Done("collect", "")
               /\ UNCHANGED <<tree, made, w, taken, edition, joined, pc>>
            \/ p.in = "tree" /\ Ends("undefined")
       ELSE Ends("undefined")

-----------------------------------------------------------------------------
Edit ==
  \E x \in Names :
    \/ \E key \in Texts \ {EmptyText} : SetKey(x, key)
    \/ RefuseKey(x)
    \/ \E v \in NewValues : SetValue(x, v)
    \/ RefuseDonor(x)
    \/ \E y \in Names : AssignBinding(x, y)
    \/ \E p \in NewPairs : AssignPair(x, p)
    \/ \E y \in Names : CopyTo(x, y)
    \/ CopyOne(x)
    \/ EditDead(x)

Next ==
  \/ \E x \in Names, k \in DOMAIN tree : Take(x, k)
  \/ \E x \in Names, c \in MadeFrom : Make(x, c)
  \/ \E x \in Names : Drop(x)
  \/ Edit
  \/ \E x \in Names, k \in 0 .. Len(tree) : InsertBinding(x, k)
  \/ \E k \in DOMAIN tree : RemoveBinding(k)
  \/ \E p \in garbage : Collect(p)

Spec == Init /\ [][Next]_vars

-----------------------------------------------------------------------------
(***************************************************************************)
(* Properties                                                              *)
(***************************************************************************)

\* The types of the variables.
TypeOK ==
  /\ heap \in Seq(Array)
  /\ tree \in Seq(Struct)
  /\ made \in Seq(Struct)
  /\ w \in [Names -> Pointer]
  /\ garbage \subseteq Pointer \ {Nowhere}
  /\ pc \in {"running", "undefined", "exited"}
  /\ call.out \in {"ok", "error"}
  /\ calls \in 0 .. MaxCalls
  /\ edition \in Nat

\* A binding in the tree has a key and a value of its own: nothing frees them
\* under it, and no other binding in the tree has the same, unless an edit has
\* joined it to another binding or a wrapper of it was collected.
PartsAreOwn ==
  \A i \in DOMAIN tree :
    \/ tree[i].id \in joined \cup collected
    \/ /\ heap[tree[i].sub].live
       /\ \A j \in DOMAIN tree : tree[j].sub = tree[i].sub => i = j

EditOps == {"key", "value", "whole", "assign", "pair", "copy"}

\* the key and the value of the binding in struct s
PartsOf(h, s) == [key |-> h[s.sub].key, val |-> h[s.sub].val]

\* An edit made through a wrapper changes the binding the wrapper was made
\* for, and no other: unless bindings were joined, or the arg_list has been
\* inserted into or removed from since, and the wrapper points to what is now
\* in that place.
EditReachesItsBinding ==
  [][calls' # calls /\ call'.op \in EditOps /\ taken[call'.by].edition = edition
       => \A i \in DOMAIN tree :
            \/ tree[i].id = taken[call'.by].id
            \/ tree[i].id \in joined'
            \/ PartsOf(heap', tree'[i]) = PartsOf(heap, tree[i])]_vars

\* What the script asked the value to be.
Asked(c) ==
  [tid |-> IF c.val.kind = "atom" THEN "atom" ELSE "list", items |-> c.val.items]

\* What a value is to the script: for a list its items, whatever commas stand
\* between them (VectorMutators is about those).
Shown(c) ==
  [tid |-> IF c.tid \in {"fronted", "ragged", "emptied"} THEN "list" ELSE c.tid,
   items |-> c.items]

\* Calls that do less than they say: a foreign object or a value of a type
\* that is not looked at; variables in a list that replaces no list; fewer
\* items for a list that a comma stands in front of; and in an assignment of
\* key and value any value but a list for a list.
Unheeded(c, old) ==
  \/ c.op = "value" /\ c.val.kind \in {"cobj", "other"}
  \/ /\ c.op = "value"
     /\ c.val.kind = "vector" \/ (c.val.kind = "list" /\ old.tid = "atom")
     /\ \E i \in DOMAIN c.val.items : c.val.items[i].tid = "ID"
  \/ /\ c.val.kind = "list" /\ c.val.items # << >>
     /\ \/ old.tid = "fronted" /\ Len(c.val.items) < Len(old.items)
        \/ old.tid = "ragged"
  \/ c.op = "pair" /\ ~(c.val.kind = "list" /\ IsListExpr(old))

\* An edit of the key, the value or both that the script sees succeed has been
\* made in full, and one it sees fail has changed nothing.
TellsTheTruth ==
  [][calls' # calls /\ call'.op \in {"key", "value", "pair"}
       => LET a   == heap[Sub(call'.by)]
              new == heap'[Sub(call'.by)]
          IN  \/ call'.out = "error" /\ heap' = heap
              \/ /\ call'.out = "ok"
                 /\ new.key = IF call'.op = "value" THEN a.key ELSE call'.key
                 /\ \/ Unheeded(call', a.val)
                    \/ IF call'.op = "key" THEN new.val = a.val
                                           ELSE Shown(new.val) = Asked(call')]_vars

\* What the comment in sunlark_new_node wants of the wrappers, "all c-object
\* nodes should just point to the AST": that one is collected changes nothing
\* in the tree.
CollectionKeepsTree ==
  [][call'.op = "collect" /\ calls' # calls
       => \A i \in DOMAIN tree : heap'[tree[i].sub] = heap[tree[i].sub]]_vars
=============================================================================
