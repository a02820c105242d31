# Sunlark: specifications, model checking and proofs

Sunlark lets Scheme scripts read and edit Starlark build files. A file is
parsed by the external C library Sealark into a syntax tree; Sunlark (the C code
in `src/src`) binds the tree to the s7 Scheme interpreter. A script reads the
tree by applying a node to a path, `(pkg :> "hello" :@ 'deps)`, and edits it in
place with `set!`: `(set! (pkg :> "hello" :@ 'deps :value :0) "//foo")`.

This directory models the editing, checks it with TLC and proves the properties
that matter most with TLAPS.

## 1. The system

### Components

| component | state | operations | what makes it correct | modelled |
|---|---|---|---|---|
| set! dispatch (`sunlark_mutators.c`) | `errno` | splits the arguments into path, last step (*selector*) and new value; resolves the path to a *context* node; calls the editor for its type | reaches the editor for the right node; a script learns whether its edit was made | partly |
| list value editing (`sunlark_vector_mutators.c`, `sunlark_vectors.c`) | the flat array of items and commas of a list | replace, remove, splice before or after an item, assign the list, empty it, `(:remove! i j ...)` | items and commas alternate; the edit made is the edit asked for; a refused edit changes nothing | yes |
| attribute list editing (`sunlark_bindings_mutators.c`, `sunlark_target_mutators.c`) | the flat array of bindings and commas of a rule call; the rule's name | replace or remove a binding by number or name, splice, remove all, change the rule | the same, and a failing edit loses no binding | yes |
| one binding (`sunlark_bindings_mutators.c`) | its key and value nodes | rename, replace value, overwrite by a binding or a pair | owns what it points to; does what it says | yes |
| index resolution (`sunlark_utils.c`) | `errno` | integer or keyword to C int, negative index to position | every index names the item the script means, or is refused | yes |
| load statements (`sunlark_loadstmts_set.c`, `_remove.c`) | the package's load statements, each with string arguments and bindings | the same edits on statements, arguments and bindings | each splice at its place in its list; a refused call loses nothing | yes |
| constructors (`sunlark_ctors.c`) | a new node | `make-load`, `make-target`, `make-binding`, `sunlark-make-string`, lists from Scheme values | nothing lost or reordered; commas between all parts | yes |
| path dispatch and lookup (`sunlark_dispatcher.c`, `sunlark_package.c`, `_loadstmts.c`, `_targets.c`, `_bindings.c`, `_vectors.c`, `_dictionaries.c`) | none (and yet one lookup retypes a node) | apply a node to steps, in one call or several | returns the node the path names and never another | partly |
| target filters (`sunlark_filters.c`) | none | `(pkg :>> '(...))` | the targets its criteria choose, once, in order | yes |
| node wrappers (`sunlark_node.c`) | Scheme objects pointing into the tree | wrap, copy, compare, free | no live wrapper points to a freed node | those of bindings |
| properties, predicates, macros | none | reading | - | which step is one |
| error reporting (`sunlark_errors.c`) | none | an errno becomes a Scheme error | every errno does | yes, but for the wording |
| dictionary editing | entries of a dict value | mostly unimplemented | - | no |
| serializers, formatting, debugging | none | text | prints what is in the tree | no |
| parsing and start-up, `edit`, `repl` | none | glue | - | no |
| Sealark, s7, uthash, linenoise, unity, log.c | external or vendored | | | the calls used |

### How they interact

Everything runs in one thread. `sunlark_set_bang` is the only way in for edits:
it calls an editor, the editor works directly on the UT_array of the node, and
the result or `errno` is what remains. Reading is `sunlark_dispatch`, by the
type of the node applied, and each dispatcher hands what is left of the path to
the next. Four facts shape the models:

* Lists, argument lists and load statements are all *flat arrays in which
  commas are nodes*. Editing code converts between item numbers and array
  places by hand (`2*i`, `2*i - 1`, `(n+1)/2`), in loops that change the array
  they index.
* Errors travel through the global `errno` and `NULL` results, and different
  contexts treat them differently: `set!` raises an error for attribute lists,
  but drops every error of a list value and every result of a binding.
* What a script holds is a *pointer* to a node, which may be inside an array
  that an edit moves, and which the collector frees.
* A script may take the steps of a path in one call or several. Each dispatcher
  has cases of its own for each number of steps, so the two need not agree.

### What is hard

There is no concurrency, no persistence and no message. What is hard to test is
in the arithmetic and in long sequences of calls: edits that fail half way and
keep what they did; indices normalized twice or used unchecked; positions that
shift while a loop removes items; a list that was emptied one way and is edited
another way; results that a function forgets to return; structs copied together
with the pointers in them; a collector that runs between any two calls.
`PROJECT.json` lists each hazard at its line.

## 2. The modules

| module | what it is |
|---|---|
| `CommaList` | the flat arrays: uthash operations, item-level edits of Sealark, `Alternating` |
| `KwIndex` | path steps that are indices: `sunlark_kwindex_to_int`, `sealark_normalize_index`, with the width of a C int; what the README means by an index |
| `Subsequences` | the entries of a sequence in given places, by counting places |
| `ListEdits` | what an edit does to a sequence |
| `VectorMutators` | editing a list value |
| `ArglistMutators` | editing a target's attributes and rule |
| `LoadStmts` | editing load statements, their arguments and bindings |
| `ItemList` | the abstract specification: a list is a sequence, an edit is one indivisible change |
| `VectorRefinement`, `ArglistRefinement`, `LoadRefinement` | what is asked of the abstract list by each call; that the three editors implement it |
| `Ctors` | the constructors, loop by loop |
| `BindingHeap` | bindings in memory: structs, arrays, wrappers, edits of one binding, copies, the collector |
| `Paths` | applying nodes to paths, filters and bulk lookups |
| `MCVector`, `MCArglist`, `MCLoad`, `MCCtors`, `MCBindingHeap`, `MCPaths` | instances for TLC |
| `CommaListLemmas` | theorems about the operators of `CommaList`: what they do to commas and to items |
| `SequenceLemmas` | theorems about sequences: inserting, removing, splicing, selecting the entries in given places; what each edit of `ListEdits` does |
| `VectorProofs`, `ArglistProofs`, `LoadProofs`, `CtorProofs`, `HeapProofs`, `PathProofs` | theorems about the components |

### VectorMutators

`sub` is `expr_list->subnodes`; `exprList` whether the list still has that
child (assigning `'()` removes it, line 158); `errno` is errno. A call is
`Receive` (set_bang reaches the TK_List_Expr context), one dispatching action,
and one action per turn of whichever loop runs. `req`, `n`, `at`, `last` and
`old` stand for the locals of the running call:

| locals in the code | variable |
|---|---|
| `i` of the splices, `new_idx`, `remove_ct / 2` | `n` |
| `index` (splice), `i` (replace), `idx` (remove) | `at` |
| `new_item_type`, `new_str` | `last` |
| `old_ct`, `attr_ct` | `Len(old)`, `AttrCount` |

| code | actions |
|---|---|
| `sunlark_vector_mutate_dispatch` | `ClearAll`, `RefuseStep`, `StringNotFound`, `NoExprList`, `LookupAstray` |
| a step that is a list (`sunlark_vector_dispatcher`) | `CarCrash`, `CarIgnored`, `CarSetInt` |
| `sunlark_vector_mutate_item`, `_vector_mutate_item_at_index` | `RefuseProcedure`, `ItemMissing`, `RefuseValue`, `ReplaceItem`, `ExitOnStringNode`, `DeleteItem`, `IgnoreValue`, `BeginSplice`, `SpliceInsert`, `SpliceSkip`, `EndSplice` |
| `sunlark_mutate_vector` | `AssignNonList`, `AssignEmpty`, `RefuseAssign`, `BeginReplace`, `ReplaceNext`, `ReplaceMissing`, `ReplacePastEnd`, `Extend`, `EndReplace` |
| `sunlark_remove_attr_list_items` | `RefuseRemoval`, `BeginRemoval`, `RemoveNext`, `RefuseLocation`, `EndRemoval` |

A NULL dereference or failed assertion is `pc = "crashed"`, `exit` is
`pc = "exited"`. Undefined results are choices: `s7_car` of a value that is no
list (`AssignNonList`), `s7_integer` of an element that is no integer
(`RefuseRemoval`, `BeginRemoval`).

What is done depends on the step in ways one would not guess. A step that is
no list, no index, no string, no symbol and no keyword has length 0 for `s7_list_length`, so that
`sunlark_vector_dispatcher` returns the list itself and the call assigns the whole
list, as with no step at all (kind `"other"`, `AssignCall`). A step that is a list goes
by its first element: an index finds an item, which is then set to the
integer given (0 for anything else), or left alone if it is a string or a variable.

By assignment a list grows in one way only. Past the last item the replacing loop pushes a comma and
copies the text into a node that has no buffer: the program crashes
(`ReplacePastEnd`), unless the text is empty, since then nothing is copied. The item, a
string without text (`NoText`), is pushed and the loop goes on (`Extend`). In a list that had no items,
after `:*` say, the array then starts with a comma, `CommaInFront`. The code
counts items as `(len + 1) / 2`, which for such an array also counts a last comma
that has no item behind it; `Slots` is what it counts, and `ReplaceMissing` the crash when it
replaces the item that is not there. How Sealark's lookups go about a comma in
front, or a string without text, cannot be told from this repository: where one of them is
needed (`Untold`) the model ends, with `pc = "astray"`. That can be so after
an over-long assignment of empty strings only.

### ArglistMutators

`args` is `arg_list->subnodes`, `rule` the name node of the call expression. A
call ends with `ReturnWith`: `outcome` is what the script sees, since `set!`
raises an error when the editor returns NULL. `sunlark_arglist_mutate` dispatches
on the step (`StringStep`, `ClearAll`, `ExitOnKeyword`, `InvalidStep`,
`KeyNotFound`, `RemoveNamed`, `ReplaceNamed`, `RefuseForNamed`),
`sunlark_mutate_arglist_at_int` on the new value (`RemoveAtIndex`, `ReplaceAtIndex`,
`RefuseAtIndex`, `BeginSplice`); the turns of the two splices are `SpliceNext`,
`SpliceOutside`, `SpliceRefused` and `EndSplice`; `sunlark_target_mutate` is
`ClearTarget`, `SetRule`, `RefuseRule` and `IgnoreStep`. Where the code falls off
the end of a function with a result, the outcome is a choice (`EndSplice`,
`IgnoreStep`). A number printed with `%s` may crash (`RefuseForNamed`).

### LoadStmts

`stmts` is the package's load statements, each a record of key, arguments and
bindings; `old` what a call found. Sealark keeps the commas of a load statement
(`sealark_loadstmt_insert_arg...`), so none are modelled here. A call is
`Receive`, one dispatching action, and a turn of a splice per element. Six
functions splice: statements, arguments and attributes, each before (a list)
or after (a vector) an entry, and each computes its place by itself.

| code | actions |
|---|---|
| `sunlark_loadstmts_set.c`: on `:load` itself | `ReplaceStmt`, `ReplaceStmtByNode`, `BeginStmtSplice`, `RefuseOnPackage` |
| the statement a longer path goes through | `RefuseStmtStep` |
| on `:arg` | `ReplaceArg`, `BeginArgSplice`, `RefuseArg`, `IgnoreSet` |
| on `:@` | `SetKeyOrValue`, `ReplaceAttr`, `ReplaceAttrByNode`, `BeginAttrSplice`, `RefuseAttr` |
| the six splicing loops | `SpliceNext`, `SpliceFails`, `EndSplice` |
| `sunlark_loadstmts_remove.c` | `RemoveStmt`, `RemoveAllStmts`, `RemoveArgs`, `RemoveArg`, `RemoveAttr`, `RefuseRemoval`, `RemovalFallsThrough` |

After an edit under a symbol the code tests an errno that may still say that the
symbol is no index, and an error may be raised although the edit was made
(`JudgedByErrno`).

### Ctors

`out` is the array under construction, `i` the loop counter, `pc` the loop. Each
push is an action, with the comma the code pushes or does not push by counting
(`PushArg`, `PushAttr`, `PushBinding`, `PushItem`). Elements that are
passed over have actions of their own (`PushNoString`, `SkipElement`,
`SkipElementStuck`, `SkipItem`, `PushBlank`). A text is a model value; `Cut` is
what remains of one copied into a buffer of 64 bytes.

### BindingHeap

`heap` holds the subnode arrays by address, `tree` the binding structs of an
arg_list, `made` those of `make-binding`, `w` the pointer behind each variable
of the script. `taken` remembers which binding a wrapper was taken for, and
`edition` how often the arg_list moved: the properties need them, the code has
neither.

| code | actions |
|---|---|
| looking a binding up, `make-binding`, forgetting a variable | `Take`, `Make`, `Drop` |
| `set!` `:key` | `SetKey`, `RefuseKey` |
| `set!` `:value` and without selector (`sunlark_mutate_binding_value`) | `SetValue` |
| `sunlark_mutate_binding` | `AssignBinding`, `RefuseDonor`, `RefuseDonorFreed`, `AssignPair`, `AssignPairKeepsTail` |
| `copy` (`sunlark_node.c`) | `CopyTo`, `CopyOne` |
| `utarray_insert`, `utarray_erase` on the arg_list | `InsertBinding`, `RemoveBinding` |
| `sunlark_destroy_ast_node` | `Collect` |

A use of freed or moved memory is `pc = "undefined"`, where the model ends
(`EditDead`, `CopyOne`): nothing can be said of what follows.

A list value is assigned by `sunlark_mutate_vector`, and its content says in what
state that function left it: a `list`; `emptied` by `'()`, without expression
list, which the script is told succeeded; `fronted`, with a comma in front, after items
were assigned to a list that had none; `ragged`, when fewer items were assigned to one of those,
with a dangling comma besides. `Replaceable` says which lists can be assigned to each, and
`Replaced` what comes of it: what `VectorMutators` does in turns is one step here.

### Paths

`Tree` is the package, `path` the path the script follows, `done` how many steps
it has taken, `cur` what the last call returned. `Apply` takes any number of
further steps in one call and asks `Dispatch`, which is `sunlark_dispatch` and
under it one operator per dispatcher, each with the cases of the code:
`Package`, `PkgLoad`, `Load`, `PkgTarget`, `Target`, `TargetBinding`,
`BindingsList`, `Binding`, `Vector`, `DictExpr`, `DictEntry`, `ForAllTargets`,
`ForAllBindings`, `Leaf`. An operator gives a set of results, of more than one
where the build decides (an uninitialized variable). `Meaning` is the reference:
what a path means, step by step, independently of where it is cut. `tid` is a
variable because one lookup writes it: an assertion that assigns
(`sunlark_dictionaries.c:108`). It makes a dictionary or a call that is the value of
an entry a list, and a later index, in the same call or another, is then looked up
among its subnodes as if they were items. Which of them Sealark finds is not in
this repository: `Misread` is any of its parts, or something that is no node
of the model. The tree is assumed to be one (`TreeAssumption`:
the first node is the package, no node has two parents) and to be what the
grammar allows (`GrammarAssumption`: a binding has a name and a value, a
call a rule and an arg_list, whose items are bindings or, as in `glob(["*.c"])`,
expressions, and so on); TLC checks both of the package of the run.

The dispatchers do not support every path, and `Unsupported` and `OutOfReach`
list what they leave out; the properties except those paths and no others.
`OutOfReach` is about the tree: an item of a list is given but not looked into,
and so are a key, a value that is a call, and the value of a dictionary entry unless it
is a list. `Unsupported` is about the steps: an integer, a string or a symbol
after the value of an attribute, anything after `:@@` or a name, the parts of
an attribute of a load statement, the items of an entry found by position.

### Subsequences

Filters, lookups and lists of accepted elements are all subsequences: the entries of
a sequence whose places satisfy a condition. `Selected(s, S)` defines them without
recursion, its `k`-th entry being the one in that place of `S` up to which `S`
has `k` places, so that its laws can be proved; `Without` of `ListEdits`,
`OfType` and `Keyed` of `Paths` and `Kept` of `Ctors` are all made from it.

### External code

Sealark is not in the repository. The item-level edits it offers are modelled
from their calls: they are given an item number and leave the list with one item
more or less and its commas right (`InsertItem`, `RemoveItem`, `SetItem`).
`sealark_binding_index_for_key` returns an array index, commas counted: the code
that calls it says so (`sunlark_bindings_mutators.c:675`), and
`sealark_remove_binding_at_index` takes it that way; the test of removal by name
(`test_binding_rm.c`) agrees. The collector of s7 may free any object no
variable holds. `sealark_arglist_replace_binding_at_int` takes a
binding number: `sunlark_mutate_arglist_at_int` calls it with a normalized one.

## 3. What is checked

| run | question | result |
|---|---|---|
| `vector_any_call` | any sequence of calls, well-formed or not, on lists of up to 4 items | types; `CommaDiscipline` and `LoopPosition` at every turn; `CommaInFrontFromNothing`; `RefusalChangesNothing`; `CallReturns` |
| `vector_implements` | well-formed calls on distinguishable items | implements `ItemList` |
| `vector_splice_order` | is a list spliced before the splice point? | **no**, if it has an element that is not inserted |
| `vector_emptied` | does an item edit find its expression list? | **no**, after `'()` was assigned |
| `vector_removal_order` | does `:remove!` take the positions it is given? | **no**, unless they come from left to right |
| `arglist_any_call` | any sequence of calls on a target's attributes | types; `CommaDiscipline`; `SpliceIsContiguous`; `FailureLosesNothing`; `CallReturns`; implements `ItemList` |
| `arglist_replace_named` | does a binding set under a name replace that attribute? | **no**, unless it is the first |
| `load_any_call` | any call below `:load`, on two packages of two statements | types; `SpliceInPlace` at every turn; `RefusalLosesNothing`; `CallReturns`; implements `ItemList` |
| `ctors_any_call` | any call of a constructor, on lists of up to 3 elements | types; `ItemsInOrder` and `CommaBehindItem` at every turn; `WellMade`: the commas come out right for the calls `CommasCountOut` names, and for no other; `CallReturns` |
| `paths_any_call` | any path, cut into calls in every way | types; `NeverAstray`; `ReachesNode`; `NullFromIndex`; `Survives`; `FilterAgrees`; `BulkAgrees`; `OnlyEntryValuesRetyped` |
| `heap_any_call` | five calls and collections in any order | types; `PartsAreOwn`; `EditReachesItsBinding`; `TellsTheTruth` |
| `heap_collection` | does the tree survive the collection of a wrapper? | **no**: the node it points to is freed |

The five violations are findings, described in `PROJECT.json`.

### Calls the properties leave out, by name

The refinements promise something of the *well-formed* calls only
(`WellFormed` in each refinement module); for the others the abstract edit is
`unspecified`, which may leave any list, but a list (attributes and load
statements), or the run does not make them (`WellFormedSpec` for a list value,
where they may end the process). Nothing in the actions is restricted. What is
excluded is what the findings show, what is ill-formed for any editor, and the
following, all of which the models contain and some other property bounds:

| operator | the code it stands for |
|---|---|
| `FitsInt` of `KwIndex`, `Fits` of `LoadRefinement`; the ranges in `WellFormedList` and `RemovalInOrder` | an `s7_int` is cut to an `int` (`sunlark_utils.c`), so that a number too large names some item; `abs(INT_MIN)` overflows |
| `Len(elems) <= Len(s)` in `WellFormedList` | assigning more items than the list has crashes, or, with empty strings, adds strings without text (`sunlark_vector_mutators.c:213`) |
| `ListKinds \cup {"other"}` in `WellFormedItem` | a step that is a list or no step at all sets something else than an item, or the whole list (`sunlark_vector_mutators.c:84`) |
| `s[k].s # NoText` in `WellFormedItem` | what a string step finds among items without text cannot be told |
| `r.val.kind # "strnode"` in `WellFormedItem` | a string node ends the process unless the list is one of strings (`sunlark_vector_mutators.c:937`) |
| `WellFormed` of `LoadRefinement` | a splice with an element its list does not hold stops half way, and a splice of statements is reported done (`sunlark_loadstmts_set.c:54`); removal through one step that is no number, as below a statement named by key (`sunlark_loadstmts_remove.c:86`) |
| `Val.kind # "null"` in `RefusalLosesNothing` | `(set! (pkg :load 2 :args) :null)` removes the arguments and reports an error (`sunlark_loadstmts_remove.c:83`) |
| `AttrBySymbol` | replacing an attribute of a load statement by name is judged by an old errno |
| `CommasCountOut` | `make-load` counts arguments and attributes together (`sunlark_ctors.c:119`); `make-target` ignores a vector of bindings (line 268), and puts no comma before a single attribute |
| `Unsupported` | paths the dispatchers have no case for: steps after `:@@`, the parts of a load statement's attribute, an integer after `:value` (`sunlark_bindings.c:617` selects by value), an item of an item |
| `Unheeded` | values `set!` of a binding accepts and does not store, among them fewer items for a list that starts with a comma |
| `CommaInFront` in `CommaDiscipline` | a list assigned to when it had no items starts with a comma; how it can come to that is `CommaInFrontFromNothing` |
| `Misled` in `NeverAstray` and `NullFromIndex` | an index after a dictionary or call that a lookup has made a list (`sunlark_dictionaries.c:108`) |
| `joined`, `collected` | bindings that were assigned one to another share their arrays; bindings a wrapper of which was collected are freed |

A target built by `make-target` with one attribute does not alternate, so
`ParsedAssumption` of `ArglistMutators` does not hold of it: that model starts
from parsed targets.

Two divergences from the README of Sunlark have no run, because the code
does nothing at all in them: an append with `(set! (pkg :> "hello" :@ 'deps :-1)
(vector ...))` (`src/README.md:172`) reaches `sunlark_mutate_binding`, whose
result `sunlark_mutators.c:354` drops; and replacing or splicing targets of the package
(`src/README.md:181`) is code without a caller (`sunlark_package.c:383`).

### Bounds

* `MaxItems = 4`. Edits treat the first, an inner and the last item differently,
  and the empty and one-item lists; 4 items have all of them twice over, and a
  splice of 2 fits into a list of 2.
* New lists have at most 3 elements (assignment) or 2 (splice, removal
  positions): a first, a last and, for assignment, one between.
* `IntMin` is -8, -16 or -128: `2^31` scaled down so that INT_MIN is still more than the
  length of any list. The requests contain `IntMin` itself, whose absolute value
  overflows.
* The shape run of list values has lists whose strings are all empty and whose
  numbers are all 0, because only the shape of the array matters, and an empty string is what lets a
  list grow; the other texts crash and are met under the name of a variable.
  Lists of up to 3 items, plus those that are assigned to them, make every
  combination of a comma in front or behind with each loop. The other runs of list values have
  distinguishable items, and fewer calls.
* Lists of a parsed file have items (`ParsedAssumption`): an empty list parses
  to a list without expression list, in which no edit is possible.
* Load statements: one call per package, since nothing but the statements
  outlives a call and the packages stand for what calls may leave: a
  statement with two arguments and two attributes, one with none, two with the
  same key.
* Constructors: fewer than two, two and more than two elements is all the
  counting can tell apart; hence lists of up to 3.
* Paths: a package of 74 nodes with two load statements, a call that is no
  target and three targets, two of them of one name, with a list, a dictionary in which a list, another
  dictionary and a dictionary in a list are values, and a call as a value. Each
  exception of `Unsupported`, `OutOfReach`, `Survives` and `Misled` is met by some path: without
  it TLC finds a violation. Modelled is the build with assertions.
* Bindings: `MaxCalls = 5` calls and collections, 2 bindings, 2 variables, one content
  for made bindings. Joining two bindings and losing the parts of one takes
  three calls, one collection more makes them dangle, and the edit that shows
  it is the fifth.
* The bounded runs, and those whose calls may end the process, say
  `CHECK_DEADLOCK FALSE`.

### Fairness

`WF_vars(Dispatch \/ LoopTurn)`, for the constructors `WF_vars(Turn)`: the
interpreter is single threaded and a C function, once entered, runs on.
`Receive` has no fairness: nothing makes a script issue another call.
`CallReturns` needs no more than that, since every loop advances over a finite
value. `BindingHeap` and `Paths` state no fairness: each of their actions is a
whole call.

## 4. What is proved

For every set of texts or names, every set of calls, every parsed list, target
or package, every width of int, every `MaxItems` and every `MaxCalls`:

| theorem | module | property |
|---|---|---|
| `TypeCorrect` | `VectorProofs`, `ArglistProofs`, `LoadProofs`, `CtorProofs`, `HeapProofs`, `PathProofs` | `TypeOK` |
| `CommasAlternate` | `VectorProofs`, `ArglistProofs` | `CommaDiscipline` |
| `CommasComeInFrontOnce` | `VectorProofs` | `CommaInFrontFromNothing` |
| `LoopsKeepPosition` | `VectorProofs` | `LoopPosition` |
| `RefusalsAreAtomic` | `VectorProofs` | `RefusalChangesNothing` |
| `VectorEditsAreAtomic` | `VectorProofs` | a well-formed call makes one edit of `ItemList`, the one it was asked for |
| `VectorImplementsItemList` | `VectorProofs` | `ImplementsItemList`, for well-formed calls, if `CallReturns` |
| `SplicesAreContiguous` | `ArglistProofs` | `SpliceIsContiguous` |
| `FailuresLoseNothing` | `ArglistProofs` | `FailureLosesNothing` |
| `ArglistEditsAreAtomic` | `ArglistProofs` | a call makes one edit of `ItemList`, the one it was asked for |
| `ArglistImplementsItemList` | `ArglistProofs` | `ImplementsItemList`, if `CallReturns` |
| `SplicesStayInPlace` | `LoadProofs` | `SpliceInPlace` |
| `RefusalsLoseNothing` | `LoadProofs` | `RefusalLosesNothing` |
| `LoadEditsAreAtomic` | `LoadProofs` | a call makes one edit of `ItemList`, the one it was asked for |
| `LoadImplementsItemList` | `LoadProofs` | `ImplementsItemList`, if `CallReturns` |
| `CommasFollowItems` | `CtorProofs` | `CommaBehindItem` |
| `NothingLost` | `CtorProofs` | `ItemsInOrder` |
| `CommasRightForThese` | `CtorProofs` | `WellMade` |
| `PartsStayOwn` | `HeapProofs` | `PartsAreOwn` |
| `EditsReachTheirBinding` | `HeapProofs` | `EditReachesItsBinding` |
| `EditsTellTheTruth` | `HeapProofs` | `TellsTheTruth` |
| `CallsStayOnPath` | `PathProofs` | `NeverAstray` |
| `OnlyValuesRetyped` | `PathProofs` | `OnlyEntryValuesRetyped` |
| `PathsSurvive` | `PathProofs` | `Survives` |
| `NullsExplained` | `PathProofs` | `NullFromIndex` |
| `PathsReachNodes` | `PathProofs` | `ReachesNode` |
| `FiltersAgree` | `PathProofs` | `FilterAgrees` |
| `BulksAgree` | `PathProofs` | `BulkAgrees` |

The assumptions are the named ASSUMEs of the modules: requests and parsed data
have their types, the parser delivers alternating arrays, the comma node is no
item, INT_MIN is less than -1, `MaxCalls` is a number, the package is a tree that
the grammar allows, a C int counts the parts of every node, a list step of a path names one
of the filters, and the criteria of a filter are steps.

Each component with theorems has an inductive invariant `IInv`, which `Init` implies
and every step of `Next` keeps.

*Lists and attributes.* `Alternating` alone is not inductive: a turn of the replacing
loop overwrites the array at its counter, and a turn of the removing loop erases
at a computed index. The invariant of `VectorProofs` adds `LoopPosition` (the
counter of the replacing loop stands just behind item `n`, the removing
loop has taken one item per position), `CallState` (a call in a loop is one that
can be in that loop: its value is a list, its elements have been inspected) and
the range of `errno` while a loop runs. It holds of every array a list can have, those that grew
and start with a comma included, and is what the theorems about any call rest on. The
refinement is about well-formed calls, which never get there: for it, `Regular` adds that
no comma is in front and no loop has gone past the items the call found. Every
action but `Extend` keeps both (`Kept`), and `Extend`, which is where a list
grows, has a lemma of its own; `CommasComeInFrontOnce` says that apart from it no action
puts a comma in front. That of `ArglistProofs` adds
`SpliceIsContiguous` and `AtRest`. That each array operation keeps the alternation
is proved once, in `CommaListLemmas`, by parity: erasing a pair shifts what is
behind it by two places.

*Load statements.* `SpliceInPlace` needs to know that between dispatch and the
first insertion the statements are those the call found (`AtRest`), and that the
list being spliced exists: its statement was found (`ListExists`). Which statement
that is, is computed from the number of statements only, so that it stays the same
while one of its lists grows. A turn reads a list out of a package, inserts and
puts it back; the lemmas say that this changes that list only, and
`SequenceLemmas` what inserting behind the entries already inserted does
(`Around`).

*Implementing the list.* `ImplementsItemList` says that a call, however many
turns its splice takes, is for a script one edit of a sequence that knows no
commas. `Promised` is what the edit asked for makes of the list the call found. A
call that ends in its first step has made it (`Done`). For one that splices, it
is what is around the place the call computed, with all new elements in between
(`Begun`); this stays true while the loop runs (`SpliceAsPromised`), the
invariant says that the list holds the first `n` of them there, and when the loop
ends `n` is their number. For a list value there are three such loops, and the
invariant of well-formed calls (`AsAsked`) has one clause for each. A splice has put in the
first `n` new items (`Splicing`). A replacement has written the first `n` new items over the
old ones, and shrinks the array to them at the end (`Replacing`). A removal has
spared all items but those at the first `n` positions given (`Removing`): since
positions come from left to right, an item that is still to go has moved by exactly `n`, so
that the index computed from its old position, less `2*n`, is its own or that of
the comma before it (`NextRemoved`). The conditions of `RemovalInOrder` are what this step needs,
and `vector_removal_order` shows what happens without them. `AsAsked` also says that
a well-formed call never ends the process and never loses the expression list, so
that this refinement needs no case for it. Three sets of lemmas carry this: that the position the code
computes, normalized once or twice, of a number that fits an int, is the entry
the number names (`FittingInt`, `NumberNames`, `NameNames`, `PositionNames`); what the array
operations do to the items (`RemoveItemItems`, `SetItemItems`, `ErasedItems`,
`ShrinkItems`, `InSplice`); and what the
edits of `ListEdits` come to (`DropEdit`, `BeforeEdit`, ...). The step of `ItemList`
is then shown action by action (`StepRefines`). The last conjunct of
`ItemListSpec`, that every edit ends, is liveness; the theorem takes it from
`CallReturns`, which TLC checks.

*Constructors.* The comma before the attributes of a load statement follows an
item only if the arguments were left without an open comma (`ArgsClosed`); which
loop a constructor can be in is `LoopOwner`. That nothing is lost
(`ItemsInOrder`) is an induction over the turns: accepting an element extends the
subsequence of accepted ones by its last, passing one over leaves it
(`SelectedLast`). `CommasRightForThese` is proved in both directions: the calls of which
`CommasCountOut` holds give an alternating array, and no other does.

*Bindings.* That no two bindings share their parts is not inductive over the tree
alone, since made bindings are inserted into it: `Ownership` states it over all
*slots*, in the tree or made, except the ones joined or collected, and
`SubsExist` that every slot points to an array. An edit then changes one array,
which by `Ownership` belongs to the one binding that the wrapper was taken for. `EditsTellTheTruth`
is about every value, `'()` and lists that grow included: it has a case for each state
in which `Replaced` can leave a list. Edits that move
structs (insertion, removal, copies) are described by a map from the slots after
the step to those before it, and `Ownership` carries over along any such map
(`Carries`, `Transfer`).

*Paths.* Each dispatcher is shown to give *allowed* results only: of a type, with
nodes of the package, and, if a node comes back, one that some of the first
steps lead to. The proof follows the call tree of the code, from `Vector` and
`DictEntry` up to `Package`, one lemma per dispatcher. Where a dispatcher hands the rest of
its steps on, what the rest leads to is shifted by the steps already taken; a
*trail* is the sequence of places passed, and what a trail leads to is in
`Meaning` of its steps (`TrailMeans`). `Meaning` is a recursive function; that it
is a sequence of sets of places is shown from the least counterexample
(`PlacesExist`), since induction is out of reach. Only the lookups
by key or index of a dictionary can retype a node, and only the value
of an entry: `TypesKept` says which types can ever differ from the parsed ones, and
without it the lookups by type (`OfType`) would mean something else after a read.
A result that is not on the path comes of an index after a changed type only: the step that
strays (`Strays`) is in the path that was asked, and is what `Misled` says.

The other three properties of paths say what must be found. For these
the meaning of steps is taken one step at a time (`After`: the places that a chain of `Select` leads
to; `MeaningIsAfter` shows that it is `Meaning`), so that a dispatcher
that hands the rest of its steps on is at the place after the first of them. Each dispatcher gets two
more lemmas. Its results are *explained*: when the process ends, or NULL comes
back, the steps lead nowhere from its place, or one of them goes where no
dispatcher looks (`Off`); when NULL is wrapped, some index in the steps is where they stop leading
anywhere. Its results are *reached*: if the steps lead to a node, that is
the only result, unless the steps are of a form (`Odd`) that
it has no case for. `sunlark_dispatch` and the `:$` at the end then add the cases that the
properties name: what follows a filter list, a call without a name, and an
origin whose type a read has changed.

*Filters and bulk lookups.* These go through the targets in loops of their own, and the
properties compare what they pick with what `Meaning` says of single targets. The
targets that a filter keeps are entries of `Targets` in certain places
(`SelectedIs`: all of them, in their order); one entry is kept exactly when a criterion
chooses it, by rule, name or number. `AfterTargetOf` says what a criterion means
after `:>`, `PartMeant` what the path to an attribute of target `i` leads to, and
`AllNamedMeant` that `AllNamed` has these, target by target. An earlier form of
`FilterAgrees`, which the package of the run satisfied, could not be proved: of two
targets with one name a filter gives both and `:>` the first; and `:>` cuts an
integer down to an int, while a filter compares all 64 bits. The property now says
so, and the package and the filters of the run contain both cases.

Only model-checked: liveness (`CallReturns`) and with it the last conjunct of the
refinements.

## 5. What is not modelled

* The text of strings and names, and how it is copied (`calloc(len)` without room
  for a terminator, `strncpy`), except the truncation in constructors. Texts are
  model values.
* Lines and columns, and the formatting that uses them; the serializers. Neither
  keeps state.
* Editing of dictionaries: nearly all of `sunlark_mutate_dict_expr` reports that
  it is not implemented. The contexts string and identifier of `set!`, which
  overwrite one field.
* Removal of targets and load statements from the package itself: one call of
  Sealark each, followed by nothing.
* Wrappers of nodes other than bindings. They have the same collector and the
  same hazard (`CollectionKeepsTree`); lists and atoms are never assigned one to
  another as bindings are.
* The value of a property and the truth value of a predicate; `:directives`,
  `:definitions`, `:vardefs`, `:procedures`, `:ast`, `:starlark`.
* Parsing, start-up, `edit`, `repl`: glue around external code, without state.
* Functions that no compiled code calls, among them half of
  `sunlark_vector_mutators.c` and the second filter function.

## 6. Plan

1. *(done)* `CommaList`, `KwIndex`, `VectorMutators` with `ItemList`, runs and proofs.
2. *(done)* `ArglistMutators`, the same abstract list, runs and proofs.
3. *(done)* `LoadStmts`: the same abstract list, run and proofs.
4. *(done)* `Ctors`, `BindingHeap`, their runs and proofs; `Paths` and its run.
5. *(done)* The step refinement of `ItemList` by `LoadStmts`, `ArglistMutators` and,
   for well-formed calls, `VectorMutators`, as theorems.
6. *(done)* `ItemsInOrder` and `WellMade` of the constructors, as theorems.
7. *(done)* `Paths`: that `Dispatch` returns results of their type, `NeverAstray` and
   `OnlyEntryValuesRetyped`, as theorems.
8. *(done)* `NullFromIndex`, `Survives` and `ReachesNode`, as theorems.
9. *(done)* `FilterAgrees` and `BulkAgrees`, as theorems.
