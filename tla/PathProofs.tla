----------------------------- MODULE PathProofs -----------------------------
(***************************************************************************)
(* Theorems about Paths: that its state is well typed, that a read retypes *)
(* nothing but the values of dictionary entries, that no call returns a    *)
(* node off the path it was given, that a call of steps that mean          *)
(* something ends the process or wraps NULL only where Survives and        *)
(* NullFromIndex say, that a path from the package reaches its node, and   *)
(* that filters and bulk lookups give what single lookups give.            *)
(*                                                                         *)
(* The results a call may have are shown to be "allowed", dispatcher by    *)
(* dispatcher: of the right type, and when a node is returned, some of the *)
(* first steps lead to it.  A trail, one place after each step, is how a   *)
(* dispatcher that hands the rest of its steps to the next one reaches a   *)
(* node; what a trail leads to is in the meaning of its steps.             *)
(*                                                                         *)
(* The other way round, every result is "explained" when a call that gives *)
(* no node has a step at which its path stops meaning anything, and        *)
(* "reached" when the node is the only place the path ends in.  Both go    *)
(* through the dispatchers once more, with what steps lead to taken one    *)
(* step at a time from the place a dispatcher is at (After, Ends).         *)
(*                                                                         *)
(* A filter and a bulk lookup go through the targets themselves.  What     *)
(* they pick is compared with the places that the path to each single      *)
(* target, or to its attribute, ends in (AfterTargetOf, PartMeant).        *)
(***************************************************************************)
EXTENDS Paths, SequenceLemmas

-----------------------------------------------------------------------------
(***************************************************************************)
(* The tree                                                                *)
(***************************************************************************)
EntryValues == {Val(e) : e \in {n \in Nodes : Tree[n].tid = "Dict_Entry"}}

\* A node has the type it was parsed with, or has been made a vector.
TypesKept ==
  /\ tid \in [Nodes -> Tids]
  /\ \A n \in Nodes : tid[n] # Tree[n].tid => tid[n] = "List_Expr" /\ n \in EntryValues

\* The package holds nodes, and the parts of a node are nodes.
LEMMA NodeFacts ==
  /\ Nodes = 1 .. Len(Tree) /\ Root \in Nodes
  /\ \A n \in Nodes : Kids(n) \in Seq(Nodes) /\ Tree[n].tid \in Tids /\ Str(n) \in Texts
<1>1. Tree \in Seq([tid : Tids, s : Texts, kids : Seq(Nodes)])
  BY TreeAssumption
<1>2. Nodes = 1 .. Len(Tree)
  BY <1>1 DEF Nodes
<1>3. Len(Tree) > 0
  BY <1>1, TreeAssumption
<1> DEFINE Records == [tid : Tids, s : Texts, kids : Seq(Nodes)]
<1>4. \A n \in Nodes : Tree[n] \in Records
  <2>1. Tree \in Seq(Records)
    BY <1>1
  <2> HIDE DEF Records
  <2> QED
    BY <2>1, <1>2
<1> QED
  BY <1>2, <1>3, <1>4 DEF Root, Kids, Str

\* What the grammar puts under a node of each type.
LEMMA Grammar ==
  ASSUME NEW n \in Nodes
  PROVE  /\ Tree[n].tid \in {"Binding", "Dict_Entry"} => Key(n) \in Nodes /\ Val(n) \in Nodes
         /\ Tree[n].tid = "Load_Stmt" =>
              Key(n) \in Nodes /\ Tail(Kids(n)) \in Seq(Nodes)
         /\ Tree[n].tid = "Call_Expr" =>
              Rule(n) \in Nodes /\ ArgList(n) \in Nodes /\ Tree[ArgList(n)].tid = "Arg_List"
         /\ Tree[n].tid = "Dict_Expr" =>
              \A k \in DOMAIN Kids(n) : Kids(n)[k] \in Nodes /\ Tree[Kids(n)[k]].tid = "Dict_Entry"
<1>1. Kids(n) \in Seq(Nodes)
  BY NodeFacts
<1>2. PICK kids : kids = Tree[n].kids
  OBVIOUS
<1>3. kids = Kids(n) /\ kids \in Seq(Nodes) /\ \A k \in DOMAIN kids : kids[k] \in Nodes
  BY <1>1, <1>2 DEF Kids
<1>4. /\ Tree[n].tid \in {"Binding", "Dict_Entry"} => Len(kids) = 2
      /\ Tree[n].tid = "Load_Stmt" => Len(kids) > 0
      /\ Tree[n].tid = "Call_Expr" => Len(kids) = 2 /\ Tree[kids[2]].tid = "Arg_List"
      /\ Tree[n].tid = "Dict_Expr" => \A k \in DOMAIN kids : Tree[kids[k]].tid = "Dict_Entry"
  BY <1>2, GrammarAssumption
<1>5. Len(kids) = 2 => kids[1] \in Nodes /\ kids[2] \in Nodes
  BY <1>3
<1>6. Len(kids) > 0 => kids[1] \in Nodes /\ Tail(kids) \in Seq(Nodes)
  BY <1>3
<1> QED
  BY <1>3, <1>4, <1>5, <1>6 DEF Key, Val, Rule, ArgList

\* The value of a binding is not that of a dictionary entry.
LEMMA ValueKeepsType ==
  ASSUME TypesKept, NEW b \in Nodes, Tree[b].tid = "Binding"
  PROVE  tid[Val(b)] = Tree[Val(b)].tid
<1> SUFFICES ASSUME tid[Val(b)] # Tree[Val(b)].tid PROVE FALSE
  OBVIOUS
<1>1. Val(b) \in EntryValues
  BY Grammar DEF TypesKept
<1>2. PICK e \in Nodes : Tree[e].tid = "Dict_Entry" /\ Val(b) = Val(e)
  BY <1>1 DEF EntryValues
<1>3. Len(Tree[b].kids) = 2 /\ Len(Tree[e].kids) = 2
  <2>1. ASSUME NEW n \in Nodes, Tree[n].tid \in {"Binding", "Dict_Entry"} PROVE Len(Tree[n].kids) = 2
    <3>1. PICK kids : kids = Tree[n].kids
      OBVIOUS
    <3>2. Len(kids) = 2
      BY <2>1, <3>1, GrammarAssumption
    <3> QED
      BY <3>1, <3>2
  <2> QED
    BY <1>2, <2>1
<1>4. 2 \in DOMAIN Tree[b].kids /\ 2 \in DOMAIN Tree[e].kids
  BY <1>3, NodeFacts DEF Kids
<1>5. Tree[b].kids[2] = Tree[e].kids[2]
  BY <1>2 DEF Val, Kids
<1>6. b = e
  <2>1. \A j \in DOMAIN Tree[b].kids, k \in DOMAIN Tree[e].kids :
          Tree[b].kids[j] = Tree[e].kids[k] => b = e /\ j = k
    BY TreeAssumption
  <2> QED
    BY <2>1, <1>4, <1>5
<1> QED
  BY <1>2, <1>6

-----------------------------------------------------------------------------
(***************************************************************************)
(* Looking nodes up in lists                                               *)
(***************************************************************************)
\* The index of a step is a number.
LEMMA KwIndexInt == ASSUME NEW st \in Step PROVE KwIndex(st) \in Int
<1>1. st.n \in Int /\ CInt(st.n) \in Int
  BY IntMinAssumption DEF CInt, Step
<1> QED
  BY <1>1 DEF KwIndex

\* A lookup by index gives an item, or 0.
LEMMA AtIs ==
  ASSUME NEW X, NEW seq \in Seq(X), NEW index \in Int
  PROVE  At(seq, index) = 0 \/ \E k \in DOMAIN seq : At(seq, index) = seq[k]
  BY DEF At

\* What is selected from a list of nodes is one, and each of them passed.
LEMMA PickIs ==
  ASSUME NEW X, NEW seq \in Seq(X), NEW S \in SUBSET DOMAIN seq
  PROVE  /\ Selected(seq, S) \in Seq(X)
         /\ \A k \in DOMAIN Selected(seq, S) : \E j \in S : Selected(seq, S)[k] = seq[j]
         /\ FirstOf(Selected(seq, S)) = 0 \/ \E j \in S : FirstOf(Selected(seq, S)) = seq[j]
<1> DEFINE t == Selected(seq, S)
<1>1. S \in SUBSET (1 .. Len(seq))
  OBVIOUS
<1>2. /\ t \in Seq(X)
      /\ Len(t) = Cardinality(S) /\ Cardinality(S) \in Nat
      /\ \A k \in 1 .. Cardinality(S) : NthPlace(S, k) \in S /\ t[k] = seq[NthPlace(S, k)]
  BY <1>1, SelectedType
<1> HIDE DEF t
<1>3. \A k \in DOMAIN t : \E j \in S : t[k] = seq[j]
  BY <1>2
<1>4. t = << >> \/ 1 \in DOMAIN t
  BY <1>2
<1>5. FirstOf(t) = 0 \/ \E j \in S : FirstOf(t) = seq[j]
  BY <1>3, <1>4 DEF FirstOf
<1> QED
  BY <1>2, <1>3, <1>5 DEF t

LEMMA KeyedIs ==
  ASSUME NEW seq \in Seq(Nodes), NEW key
  PROVE  Keyed(seq, key) = 0 \/ \E k \in DOMAIN seq : Keyed(seq, key) = seq[k]
<1> DEFINE S == {k \in DOMAIN seq : Str(Kids(seq[k])[1]) = key}
<1>1. S \in SUBSET DOMAIN seq
  OBVIOUS
<1>2. FirstOf(Selected(seq, S)) = 0 \/ \E j \in S : FirstOf(Selected(seq, S)) = seq[j]
  BY <1>1, PickIs
<1> QED
  BY <1>2 DEF Keyed

LEMMA OfTypeIs ==
  ASSUME NEW seq \in Seq(Nodes), NEW t
  PROVE  /\ OfType(seq, t) \in Seq(Nodes)
         /\ \A k \in DOMAIN OfType(seq, t) :
              OfType(seq, t)[k] \in Nodes /\ tid[OfType(seq, t)[k]] = t
<1>1. PICK S \in SUBSET DOMAIN seq : S = {k \in DOMAIN seq : tid[seq[k]] = t}
  OBVIOUS
<1>2. PICK u : u = Selected(seq, S)
  OBVIOUS
<1>3. u \in Seq(Nodes) /\ \A k \in DOMAIN u : \E j \in S : u[k] = seq[j]
  BY <1>2, PickIs
<1>4. \A k \in DOMAIN u : u[k] \in Nodes /\ tid[u[k]] = t
  BY <1>1, <1>3
<1>5. u = OfType(seq, t)
  BY <1>1, <1>2 DEF OfType
<1> QED
  BY <1>3, <1>4, <1>5

LEMMA WithTextIs ==
  ASSUME NEW seq \in Seq(Nodes), NEW t, NEW text
  PROVE  /\ WithText(seq, t, text) \in Seq(Nodes)
         /\ \/ FirstOf(WithText(seq, t, text)) = 0
            \/ \E k \in DOMAIN seq : FirstOf(WithText(seq, t, text)) = seq[k]
<1> DEFINE S == {k \in DOMAIN seq : tid[seq[k]] = t /\ Str(seq[k]) = text}
<1>1. S \in SUBSET DOMAIN seq
  OBVIOUS
<1>2. /\ Selected(seq, S) \in Seq(Nodes)
      /\ FirstOf(Selected(seq, S)) = 0 \/ \E j \in S : FirstOf(Selected(seq, S)) = seq[j]
  BY <1>1, PickIs
<1> QED
  BY <1>2 DEF WithText

\* The lists of the package and of its load statements.
LEMMA ListsOfPackage ==
  ASSUME TypesKept
  PROVE  /\ Loads \in Seq(Nodes) /\ Calls \in Seq(Nodes) /\ Targets \in Seq(Nodes)
         /\ \A k \in DOMAIN Loads : Loads[k] \in Nodes /\ Tree[Loads[k]].tid = "Load_Stmt"
         /\ \A k \in DOMAIN Calls : /\ Calls[k] \in Nodes /\ Tree[Calls[k]].tid = "Call_Expr"
                                    /\ tid[Calls[k]] = "Call_Expr"
         /\ \A k \in DOMAIN Targets : /\ Targets[k] \in Nodes /\ NameOf(Targets[k]) # 0
                                      /\ Tree[Targets[k]].tid = "Call_Expr"
                                      /\ tid[Targets[k]] = "Call_Expr"
         /\ \A name : \/ TargetNamed(name) = 0
                      \/ \E k \in DOMAIN Targets : TargetNamed(name) = Targets[k]
<1>1. Kids(Root) \in Seq(Nodes)
  BY NodeFacts
<1>2. /\ Loads \in Seq(Nodes)
      /\ \A k \in DOMAIN Loads : Loads[k] \in Nodes /\ tid[Loads[k]] = "Load_Stmt"
  BY <1>1, OfTypeIs DEF Loads
<1>3. \A k \in DOMAIN Loads : Tree[Loads[k]].tid = "Load_Stmt"
  BY <1>2 DEF TypesKept
<1>4. /\ Calls \in Seq(Nodes)
      /\ \A k \in DOMAIN Calls : Calls[k] \in Nodes /\ tid[Calls[k]] = "Call_Expr"
  BY <1>1, OfTypeIs DEF Calls
<1>5. \A k \in DOMAIN Calls : Tree[Calls[k]].tid = "Call_Expr"
  BY <1>4 DEF TypesKept
<1>6. PICK S \in SUBSET DOMAIN Calls : S = {k \in DOMAIN Calls : NameOf(Calls[k]) # 0}
  OBVIOUS
<1>7. /\ Targets \in Seq(Nodes)
      /\ \A k \in DOMAIN Targets : \E j \in S : Targets[k] = Calls[j]
  <2>1. /\ Selected(Calls, S) \in Seq(Nodes)
        /\ \A k \in DOMAIN Selected(Calls, S) : \E j \in S : Selected(Calls, S)[k] = Calls[j]
    BY <1>4, PickIs
  <2>2. Targets = Selected(Calls, S)
    BY <1>6 DEF Targets
  <2> QED
    BY <2>1, <2>2
<1>8. \A k \in DOMAIN Targets : /\ Targets[k] \in Nodes /\ NameOf(Targets[k]) # 0
                                /\ Tree[Targets[k]].tid = "Call_Expr"
                                /\ tid[Targets[k]] = "Call_Expr"
  BY <1>4, <1>5, <1>6, <1>7
<1>9. ASSUME NEW name
      PROVE  TargetNamed(name) = 0 \/ \E k \in DOMAIN Targets : TargetNamed(name) = Targets[k]
  <2> DEFINE T == {k \in DOMAIN Targets : Str(NameOf(Targets[k])) = name}
  <2>1. T \in SUBSET DOMAIN Targets
    OBVIOUS
  <2>2. FirstOf(Selected(Targets, T)) = 0 \/ \E j \in T : FirstOf(Selected(Targets, T)) = Targets[j]
    BY <1>7, <2>1, PickIs
  <2> QED
    BY <2>2 DEF TargetNamed
<1> QED
  BY <1>2, <1>3, <1>4, <1>5, <1>7, <1>8, <1>9

LEMMA BindingsOfIs ==
  ASSUME TypesKept, NEW al \in Nodes
  PROVE  /\ BindingsOf(al) \in Seq(Nodes)
         /\ \A k \in DOMAIN BindingsOf(al) : /\ BindingsOf(al)[k] \in Nodes
                                             /\ Tree[BindingsOf(al)[k]].tid = "Binding"
<1>1. Kids(al) \in Seq(Nodes)
  BY NodeFacts
<1>2. /\ BindingsOf(al) \in Seq(Nodes)
      /\ \A k \in DOMAIN BindingsOf(al) : /\ BindingsOf(al)[k] \in Nodes
                                          /\ tid[BindingsOf(al)[k]] = "Binding"
  BY <1>1, OfTypeIs DEF BindingsOf
<1> QED
  BY <1>2 DEF TypesKept

\* The attributes of a call are bindings, and so is the one named "name".
LEMMA Attributes ==
  ASSUME TypesKept, NEW t \in Nodes, Tree[t].tid = "Call_Expr"
  PROVE  /\ Bindings(t) = BindingsOf(ArgList(t)) /\ Bindings(t) \in Seq(Nodes)
         /\ \A k \in DOMAIN Bindings(t) : /\ Bindings(t)[k] \in Nodes
                                          /\ Tree[Bindings(t)[k]].tid = "Binding"
         /\ NameOf(t) \in Nodes \cup {0}
<1>1. ArgList(t) \in Nodes /\ Tree[ArgList(t)].tid = "Arg_List"
  BY Grammar
<1>2. Bindings(t) = BindingsOf(ArgList(t)) /\ Bindings(t) \in Seq(Nodes)
  BY <1>1, BindingsOfIs DEF Bindings
<1>3. \A k \in DOMAIN Bindings(t) : Bindings(t)[k] \in Nodes /\ Tree[Bindings(t)[k]].tid = "Binding"
  BY <1>1, BindingsOfIs DEF Bindings
<1>4. \/ Keyed(Bindings(t), "name") = 0
      \/ \E k \in DOMAIN Bindings(t) : Keyed(Bindings(t), "name") = Bindings(t)[k]
  BY <1>2, KeyedIs
<1>5. \/ Keyed(Bindings(t), "name") = 0
      \/ Keyed(Bindings(t), "name") \in Nodes /\ Val(Keyed(Bindings(t), "name")) \in Nodes
  BY <1>3, <1>4, Grammar
<1> QED
  BY <1>2, <1>3, <1>5 DEF NameOf

LEMMA ListsOfLoad ==
  ASSUME TypesKept, NEW l \in Nodes, Tree[l].tid = "Load_Stmt"
  PROVE  /\ LoadArgs(l) \in Seq(Nodes) /\ LoadBindings(l) \in Seq(Nodes)
         /\ \A k \in DOMAIN LoadArgs(l) : LoadArgs(l)[k] \in Nodes
         /\ \A k \in DOMAIN LoadBindings(l) : /\ LoadBindings(l)[k] \in Nodes
                                              /\ Tree[LoadBindings(l)[k]].tid = "Binding"
<1>1. Tail(Kids(l)) \in Seq(Nodes) /\ Kids(l) \in Seq(Nodes)
  BY Grammar, NodeFacts
<1>2. /\ LoadArgs(l) \in Seq(Nodes)
      /\ \A k \in DOMAIN LoadArgs(l) : LoadArgs(l)[k] \in Nodes
  BY <1>1, OfTypeIs DEF LoadArgs
<1>3. /\ LoadBindings(l) \in Seq(Nodes)
      /\ \A k \in DOMAIN LoadBindings(l) : LoadBindings(l)[k] \in Nodes /\ tid[LoadBindings(l)[k]] = "Binding"
  BY <1>1, OfTypeIs DEF LoadBindings
<1>4. \A k \in DOMAIN LoadBindings(l) : Tree[LoadBindings(l)[k]].tid = "Binding"
  BY <1>3 DEF TypesKept
<1> QED
  BY <1>2, <1>3, <1>4

-----------------------------------------------------------------------------
(***************************************************************************)
(* Trails                                                                  *)
(***************************************************************************)
Places == [node : Nodes, as : {"self", "targets", "loads", "args", "bindings"}]

\* From the place p, some of the first steps lead to the node m.
Leads(p, steps, m) ==
  \E k \in 1 .. Len(steps) : \E f \in [0 .. k -> Places] :
    /\ f[0] = p /\ f[k] = Self(m)
    /\ \A i \in 1 .. k : f[i] \in Select(f[i - 1], steps[i])

\* g gives the places that the steps mean, after each of them
ArePlaces(g, n, steps) ==
  g = [k \in 0 .. Len(steps) |->
         IF k = 0 THEN {Self(n)}
         ELSE UNION {Select(place, steps[k]) : place \in g[k - 1]}]

\* The places after each of the steps are well defined.
LEMMA PlacesExist ==
  ASSUME NEW n, NEW steps \in Seq(Step)
  PROVE  \E g : ArePlaces(g, n, steps)
<1> DEFINE Further(P, k) == UNION {Select(place, steps[k]) : place \in P}
           Is_(g, L) == g = [k \in 0 .. L |-> IF k = 0 THEN {Self(n)} ELSE Further(g[k - 1], k)]
           Bad == {L \in Nat : ~ \E g : Is_(g, L)}
<1>1. Bad = {}
  <2> SUFFICES ASSUME Bad # {} PROVE FALSE
    OBVIOUS
  <2> HIDE DEF Further
  <2>1. Bad \in SUBSET Nat
    OBVIOUS
  <2>2. PICK L \in Bad : \A j \in Bad : L <= j
    BY <2>1, LeastElement
  <2>3. L \in Nat /\ ~ \E g : Is_(g, L)
    BY <2>2
  <2>4. CASE L = 0
    <3>1. Is_([k \in 0 .. 0 |-> {Self(n)}], 0)
      OBVIOUS
    <3> QED
      BY <2>3, <2>4, <3>1
  <2>5. CASE L # 0
    <3>1. L - 1 \in Nat /\ ~ L <= L - 1
      BY <2>3, <2>5
    <3>2. L - 1 \notin Bad
      BY <2>2, <3>1
    <3>3. PICK g : Is_(g, L - 1)
      BY <3>1, <3>2
    <3> DEFINE h == [k \in 0 .. L |-> IF k < L THEN g[k] ELSE Further(g[L - 1], L)]
    <3>4. ASSUME NEW k \in 0 .. L
          PROVE  h[k] = IF k = 0 THEN {Self(n)} ELSE Further(h[k - 1], k)
      <4>1. CASE k = 0
        BY <2>3, <2>5, <3>1, <3>3, <4>1
      <4>2. CASE k # 0 /\ k < L
        <5>1. k \in 0 .. L - 1 /\ k - 1 \in 0 .. L /\ k - 1 < L
          BY <2>3, <4>2
        <5>2. g[k] = Further(g[k - 1], k)
          BY <3>3, <4>2, <5>1
        <5> QED
          BY <4>2, <5>1, <5>2
      <4>3. CASE k = L
        <5>1. k - 1 \in 0 .. L /\ k - 1 < L /\ ~ k < L
          BY <2>3, <2>5, <4>3
        <5> QED
          BY <2>5, <4>3, <5>1
      <4> QED
        BY <2>3, <4>1, <4>2, <4>3
    <3>5. Is_(h, L)
      BY <3>4
    <3> QED
      BY <2>3, <3>5
  <2> QED
    BY <2>4, <2>5
<1>2. Len(steps) \in Nat /\ Len(steps) \notin Bad
  <2> HIDE DEF Bad
  <2> QED
    BY <1>1
<1>3. \E g : Is_(g, Len(steps))
  BY <1>2
<1> QED
  BY <1>3 DEF ArePlaces

\* What a trail leads to is what its steps mean.
LEMMA TrailMeans ==
  ASSUME NEW n \in Nodes, NEW steps \in Seq(Step), NEW f,
         f[0] = Self(n),
         \A i \in 1 .. Len(steps) : f[i] \in Select(f[i - 1], steps[i])
  PROVE  f[Len(steps)] \in Meaning(n, steps)
<1> DEFINE g == CHOOSE g : ArePlaces(g, n, steps)
<1>0. ArePlaces(g, n, steps)
  BY PlacesExist
<1>1. g = [k \in 0 .. Len(steps) |->
             IF k = 0 THEN {Self(n)}
             ELSE UNION {Select(place, steps[k]) : place \in g[k - 1]}]
  BY <1>0 DEF ArePlaces
<1>2. Meaning(n, steps) = g[Len(steps)]
  BY DEF Meaning, ArePlaces
<1> HIDE DEF g
<1> DEFINE Bad == {k \in 0 .. Len(steps) : f[k] \notin g[k]}
<1>3. Bad = {}
  <2> SUFFICES ASSUME Bad # {} PROVE FALSE
    OBVIOUS
  <2>1. Bad \in SUBSET Nat
    OBVIOUS
  <2>2. PICK k \in Bad : \A j \in Bad : k <= j
    BY <2>1, LeastElement
  <2>3. k \in 0 .. Len(steps) /\ f[k] \notin g[k] /\ Len(steps) \in Nat
    BY <2>2
  <2>4. k # 0
    BY <1>1, <2>3
  <2>5. k - 1 \in 0 .. Len(steps) /\ k \in 1 .. Len(steps) /\ ~ k <= k - 1
    BY <2>3, <2>4
  <2>6. f[k - 1] \in g[k - 1]
    BY <2>2, <2>5
  <2>7. f[k] \in Select(f[k - 1], steps[k])
    BY <2>5
  <2>8. g[k] = UNION {Select(place, steps[k]) : place \in g[k - 1]}
    BY <1>1, <2>4, <2>5
  <2> QED
    BY <2>3, <2>6, <2>7, <2>8
<1>4. Len(steps) \in 0 .. Len(steps)
  OBVIOUS
<1> QED
  BY <1>2, <1>3, <1>4

\* One step leads to a node it selects.
LEMMA OneStepLeads ==
  ASSUME NEW p \in Places, NEW steps \in Seq(Step), steps # << >>, NEW m \in Nodes,
         Self(m) \in Select(p, steps[1])
  PROVE  Leads(p, steps, m)
<1> DEFINE f == [i \in 0 .. 1 |-> IF i = 0 THEN p ELSE Self(m)]
<1>1. Self(m) \in Places
  BY DEF Self, Places
<1>2. f \in [0 .. 1 -> Places] /\ f[0] = p /\ f[1] = Self(m)
  BY <1>1
<1>3. \A i \in 1 .. 1 : f[i] \in Select(f[i - 1], steps[i])
  BY <1>2
<1>4. 1 \in 1 .. Len(steps)
  OBVIOUS
<1> HIDE DEF f
<1> QED
  BY <1>2, <1>3, <1>4 DEF Leads

\* What the rest of the steps lead to from a place the first one selects,
\* all of them lead to.
LEMMA FurtherLeads ==
  ASSUME NEW p \in Places, NEW q \in Places, NEW steps \in Seq(Step), steps # << >>,
         NEW m, q \in Select(p, steps[1]), Leads(q, Tail(steps), m)
  PROVE  Leads(p, steps, m)
<1>1. Len(Tail(steps)) = Len(steps) - 1 /\ \A i \in 1 .. Len(steps) - 1 : Tail(steps)[i] = steps[i + 1]
  OBVIOUS
<1>0. PICK k \in 1 .. Len(steps) - 1 : \E g \in [0 .. k -> Places] :
        /\ g[0] = q /\ g[k] = Self(m)
        /\ \A i \in 1 .. k : g[i] \in Select(g[i - 1], Tail(steps)[i])
  BY <1>1 DEF Leads
<1>2. PICK g \in [0 .. k -> Places] :
        /\ g[0] = q /\ g[k] = Self(m)
        /\ \A i \in 1 .. k : g[i] \in Select(g[i - 1], Tail(steps)[i])
  BY <1>0
<1> DEFINE f == [i \in 0 .. k + 1 |-> IF i = 0 THEN p ELSE g[i - 1]]
<1>3. f \in [0 .. k + 1 -> Places] /\ f[0] = p /\ f[k + 1] = Self(m)
  BY <1>2
<1>4. ASSUME NEW i \in 1 .. k + 1 PROVE f[i] \in Select(f[i - 1], steps[i])
  <2>1. CASE i = 1
    BY <1>2, <2>1
  <2>2. CASE i # 1
    <3>1. i - 1 \in 1 .. k /\ i - 1 \in 0 .. k + 1 /\ i - 1 # 0 /\ i # 0
      BY <2>2
    <3>2. f[i] = g[i - 1] /\ f[i - 1] = g[(i - 1) - 1]
      BY <3>1
    <3>3. steps[i] = Tail(steps)[i - 1]
      BY <1>1, <1>2, <3>1
    <3> QED
      BY <1>2, <3>1, <3>2, <3>3
  <2> QED
    BY <2>1, <2>2
<1>5. k + 1 \in 1 .. Len(steps)
  BY <1>2
<1> HIDE DEF f
<1> QED
  BY <1>3, <1>4, <1>5 DEF Leads

\* The nodes a read has made vectors: one before, or this one if it changes
\* the types of nodes.
Changed(nodes) ==
  {v \in Nodes : Tree[v].tid # "List_Expr" /\ (v \in nodes \/ tid[v] = "List_Expr")}

\* Some of the first steps lead to such a node, and an index follows.
Strays(p, steps, nodes) ==
  \E k \in 1 .. Len(steps) : \E f \in [0 .. k - 1 -> Places] :
    /\ IsIndex(steps[k]) /\ f[0] = p /\ f[k - 1] \in {Self(v) : v \in Changed(nodes)}
    /\ \A i \in 1 .. k - 1 : f[i] \in Select(f[i - 1], steps[i])

\* The first step may be that index.
LEMMA StraysHere ==
  ASSUME NEW nodes, NEW v \in Changed(nodes), NEW steps \in Seq(Step), steps # << >>,
         IsIndex(steps[1])
  PROVE  Strays(Self(v), steps, nodes)
<1> DEFINE f == [i \in 0 .. 0 |-> Self(v)]
<1>1. Self(v) \in Places /\ 1 \in 1 .. Len(steps) /\ 1 - 1 = 0
  BY DEF Self, Places, Changed
<1>2. f \in [0 .. 1 - 1 -> Places] /\ f[0] = Self(v)
  BY <1>1
<1>3. \A i \in 1 .. 1 - 1 : f[i] \in Select(f[i - 1], steps[i])
  OBVIOUS
<1> HIDE DEF f
<1> QED
  BY <1>1, <1>2, <1>3 DEF Strays

LEMMA FurtherStrays ==
  ASSUME NEW p \in Places, NEW q \in Places, NEW steps \in Seq(Step), steps # << >>,
         NEW nodes, q \in Select(p, steps[1]), Strays(q, Tail(steps), nodes)
  PROVE  Strays(p, steps, nodes)
<1>1. Len(Tail(steps)) = Len(steps) - 1 /\ \A i \in 1 .. Len(steps) - 1 : Tail(steps)[i] = steps[i + 1]
  OBVIOUS
<1> DEFINE Ends_ == {Self(v) : v \in Changed(nodes)}
<1>0. PICK k \in 1 .. Len(steps) - 1 : \E g \in [0 .. k - 1 -> Places] :
        /\ IsIndex(Tail(steps)[k]) /\ g[0] = q /\ g[k - 1] \in Ends_
        /\ \A i \in 1 .. k - 1 : g[i] \in Select(g[i - 1], Tail(steps)[i])
  BY <1>1 DEF Strays
<1>2. PICK g \in [0 .. k - 1 -> Places] :
        /\ IsIndex(Tail(steps)[k]) /\ g[0] = q /\ g[k - 1] \in Ends_
        /\ \A i \in 1 .. k - 1 : g[i] \in Select(g[i - 1], Tail(steps)[i])
  BY <1>0
<1> DEFINE f == [i \in 0 .. k |-> IF i = 0 THEN p ELSE g[i - 1]]
<1> HIDE DEF Ends_
<1>3. f \in [0 .. k -> Places] /\ f[0] = p /\ f[k] \in Ends_
  BY <1>2
<1>4. ASSUME NEW i \in 1 .. k PROVE f[i] \in Select(f[i - 1], steps[i])
  <2>1. CASE i = 1
    BY <1>2, <2>1
  <2>2. CASE i # 1
    <3>1. i - 1 \in 1 .. k - 1 /\ i - 1 \in 0 .. k /\ i - 1 # 0 /\ i # 0
      BY <2>2
    <3>2. f[i] = g[i - 1] /\ f[i - 1] = g[(i - 1) - 1]
      BY <3>1
    <3>3. steps[i] = Tail(steps)[i - 1]
      BY <1>1, <1>2, <3>1
    <3> QED
      BY <1>2, <3>1, <3>2, <3>3
  <2> QED
    BY <2>1, <2>2
<1>5. k + 1 \in 1 .. Len(steps) /\ (k + 1) - 1 = k /\ IsIndex(steps[k + 1])
  BY <1>1, <1>2
<1> HIDE DEF f
<1> QED
  BY <1>3, <1>4, <1>5 DEF Strays, Ends_

-----------------------------------------------------------------------------
(***************************************************************************)
(* Results a call may have                                                 *)
(***************************************************************************)
Outcomes == {r \in Result : /\ r.is \in {"node", "copy"} => r.of # << >>
                            /\ r.retyped \subseteq EntryValues}

\* Results of steps taken from the place p; the copies are of calls.
Allowed(p, steps) ==
  {r \in Outcomes : /\ r.is = "node" => Leads(p, steps, r.of[1]) \/ Strays(p, steps, r.retyped)
                    /\ r.is = "copy" => Tree[r.of[1]].tid = "Call_Expr"}

Shorts == {"wrapped_NULL", "nil", "unspecified", "error", "NULL", "died", "undefined"}

LEMMA BareAllowed ==
  ASSUME NEW p, NEW steps
  PROVE  /\ \A is \in Shorts : Bare(is) \in Allowed(p, steps)
         /\ Error \subseteq Allowed(p, steps) /\ Null \subseteq Allowed(p, steps)
         /\ Died \subseteq Allowed(p, steps) /\ Undefined \subseteq Allowed(p, steps)
<1>1. << >> \in Seq(Nodes)
  OBVIOUS
<1>2. ASSUME NEW is \in Shorts PROVE Bare(is) \in Allowed(p, steps)
  BY <1>1 DEF Bare, R, Allowed, Outcomes, Result, Shorts
<1> QED
  BY <1>2 DEF Error, Null, Died, Undefined, Shorts

LEMMA ListAllowed ==
  ASSUME NEW p, NEW steps, NEW seq \in Seq(Nodes)
  PROVE  R("copies", seq) \in Allowed(p, steps) /\ R("nodes", seq) \in Allowed(p, steps)
  BY DEF R, Allowed, Outcomes, Result

LEMMA OneAllowed ==
  ASSUME NEW p, NEW steps, NEW n \in Nodes
  PROVE  /\ Tree[n].tid = "Call_Expr" => R("copy", <<n>>) \in Allowed(p, steps)
         /\ R("value", <<n>>) \in Allowed(p, steps)
         /\ Property(n) \subseteq Allowed(p, steps)
<1>1. <<n>> \in Seq(Nodes) /\ <<n>> # << >> /\ <<n>>[1] = n
  OBVIOUS
<1> QED
  BY <1>1 DEF Property, R, Allowed, Outcomes, Result

LEMMA WrapAllowed ==
  ASSUME NEW p, NEW steps, NEW n \in Nodes \cup {0}, n # 0 => Leads(p, steps, n)
  PROVE  Wrap(n) \subseteq Allowed(p, steps)
<1>1. CASE n = 0
  BY <1>1, BareAllowed DEF Wrap, Shorts
<1>2. CASE n # 0
  <2>1. <<n>> \in Seq(Nodes) /\ <<n>> # << >> /\ <<n>>[1] = n
    BY <1>2
  <2> QED
    BY <1>2, <2>1 DEF Wrap, R, Allowed, Outcomes, Result
<1> QED
  BY <1>1, <1>2

\* What a first step selects is found by it.
LEMMA FoundAllowed ==
  ASSUME NEW p \in Places, NEW steps \in Seq(Step), steps # << >>, NEW n \in Nodes \cup {0},
         n # 0 => Self(n) \in Select(p, steps[1])
  PROVE  Wrap(n) \subseteq Allowed(p, steps)
  BY OneStepLeads, WrapAllowed

LEMMA FurtherAllowed ==
  ASSUME NEW p \in Places, NEW q \in Places, NEW steps \in Seq(Step), steps # << >>,
         q \in Select(p, steps[1])
  PROVE  Allowed(q, Tail(steps)) \subseteq Allowed(p, steps)
  BY FurtherLeads, FurtherStrays DEF Allowed

\* The values of the dictionary entries are nodes.
LEMMA EntryValuesAreNodes == EntryValues \subseteq Nodes
  BY Grammar DEF EntryValues

LEMMA RetypeOutcome ==
  ASSUME NEW r \in Outcomes, NEW nodes \in SUBSET EntryValues
  PROVE  \E q \in Outcomes : /\ q = [r EXCEPT !.retyped = nodes]
                             /\ q.is = r.is /\ q.of = r.of /\ q.retyped = nodes
<1>1. r \in Result /\ nodes \in SUBSET Nodes
  BY EntryValuesAreNodes DEF Outcomes
<1>2. PICK q \in Result : q = [r EXCEPT !.retyped = nodes]
  BY <1>1 DEF Result
<1>3. q.is = r.is /\ q.of = r.of /\ q.retyped = nodes
  BY <1>1, <1>2 DEF Result
<1> QED
  BY <1>2, <1>3 DEF Outcomes

\* What a call found, and then changed types; and what it found because it had.
LEMMA RetypeAllowed ==
  ASSUME NEW p, NEW steps, NEW nodes \in SUBSET EntryValues, NEW results \in SUBSET Outcomes,
         \A r \in results : /\ r.is = "node" => Leads(p, steps, r.of[1]) \/ Strays(p, steps, nodes)
                           /\ r.is # "copy"
  PROVE  Retype(nodes, results) \subseteq Allowed(p, steps)
<1> SUFFICES ASSUME NEW r \in results PROVE [r EXCEPT !.retyped = nodes] \in Allowed(p, steps)
  BY DEF Retype
<1>1. PICK q \in Outcomes : /\ q = [r EXCEPT !.retyped = nodes]
                            /\ q.is = r.is /\ q.of = r.of /\ q.retyped = nodes
  BY RetypeOutcome
<1> QED
  BY <1>1 DEF Allowed

LEMMA OrErrorAllowed ==
  ASSUME NEW p, NEW steps, NEW results \in SUBSET Allowed(p, steps)
  PROVE  OrError(results) \subseteq Allowed(p, steps)
<1> SUFFICES ASSUME NEW r \in results, r.is = "NULL"
             PROVE  [r EXCEPT !.is = "error"] \in Allowed(p, steps)
  BY DEF OrError
<1>1. r \in Result /\ r \in Outcomes
  BY DEF Allowed, Outcomes
<1>2. PICK q \in Result : q = [r EXCEPT !.is = "error"]
  BY <1>1 DEF Result
<1>3. q.is = "error" /\ q.of = r.of /\ q.retyped = r.retyped
  BY <1>1, <1>2 DEF Result
<1> QED
  BY <1>1, <1>2, <1>3 DEF Allowed, Outcomes

LEMMA PropertyAllowed ==
  ASSUME NEW p, NEW steps, NEW n \in Nodes, NEW op \in Step
  PROVE  CommonProperty(n, op) \subseteq Allowed(p, steps)
<1>1. n # 0
  BY NodeFacts
<1>2. R("value", <<n>>) \in Allowed(p, steps) /\ Property(n) \subseteq Allowed(p, steps)
  BY OneAllowed
<1>3. R("nodes", Kids(n)) \in Allowed(p, steps)
  BY NodeFacts, ListAllowed
<1>4. /\ Bare("nil") \in Allowed(p, steps) /\ Error \subseteq Allowed(p, steps)
      /\ Undefined \subseteq Allowed(p, steps)
  BY BareAllowed DEF Shorts
<1>5. CASE Is(op, {"$"})
  BY <1>1, <1>2, <1>4, <1>5 DEF CommonProperty, Is
<1>6. CASE Is(op, {"subnodes"})
  BY <1>1, <1>3, <1>4, <1>6 DEF CommonProperty, Is, CommonProps, Predicates
<1>7. CASE Is(op, CommonProps \cup Predicates)
  BY <1>1, <1>2, <1>7 DEF CommonProperty, Is, CommonProps, Predicates
<1>8. CASE ~Is(op, {"$"}) /\ ~Is(op, {"subnodes"}) /\ ~Is(op, CommonProps \cup Predicates)
  BY <1>1, <1>4, <1>8 DEF CommonProperty
<1> QED
  BY <1>5, <1>6, <1>7, <1>8

-----------------------------------------------------------------------------
(***************************************************************************)
(* What a step selects from a place                                        *)
(***************************************************************************)
Nodal(n) == n \in Nodes \cup {0}

LEMMA SelfIsPlace == ASSUME NEW n \in Nodes PROVE Self(n) \in Places /\ Nodal(n) /\ n # 0
  BY NodeFacts DEF Self, Places, Nodal

LEMMA FoundSelf == ASSUME NEW n, n # 0 PROVE Self(n) \in Found(n)
  BY DEF Found

LEMMA SelfSelect ==
  ASSUME NEW n, NEW st PROVE Select(Self(n), st) = SelectSelf(n, st)
  BY DEF Select, Self

LEMMA SelectsItem ==
  ASSUME NEW n \in Nodes, NEW st \in Step, At(Kids(n), KwIndex(st)) # 0
  PROVE  /\ Tree[n].tid = "List_Expr" /\ IsIndex(st) =>
              Self(At(Kids(n), KwIndex(st))) \in Select(Self(n), st)
         /\ Tree[n].tid = "Dict_Expr" /\ IsKwIndex(st) =>
              Self(At(Kids(n), KwIndex(st))) \in Select(Self(n), st)
  BY SelfSelect, FoundSelf DEF SelectSelf, ByIndex, IsKwIndex, IsIndex

LEMMA SelectsKeyed ==
  ASSUME NEW n \in Nodes, NEW st \in Step, Keyed(Kids(n), st.s) # 0
  PROVE  /\ Tree[n].tid = "Dict_Expr" /\ st.kind = "str" =>
              Self(Keyed(Kids(n), st.s)) \in Select(Self(n), st)
  BY SelfSelect, FoundSelf DEF SelectSelf, ByKey

LEMMA SelectsBinding ==
  ASSUME NEW al \in Nodes, NEW st \in Step, Tree[al].tid = "Arg_List"
  PROVE  /\ IsIndex(st) /\ At(BindingsOf(al), KwIndex(st)) # 0 =>
              Self(At(BindingsOf(al), KwIndex(st))) \in Select(Self(al), st)
         /\ st.kind = "sym" /\ Keyed(BindingsOf(al), st.s) # 0 =>
              Self(Keyed(BindingsOf(al), st.s)) \in Select(Self(al), st)
  BY SelfSelect, FoundSelf DEF SelectSelf, ByIndex, ByKey

LEMMA SelectsPart ==
  ASSUME NEW n \in Nodes, NEW st \in Step, Tree[n].tid \in {"Binding", "Dict_Entry"}
  PROVE  /\ Is(st, {"key"}) => Self(Key(n)) \in Select(Self(n), st)
         /\ Is(st, ValueOps) => Self(Val(n)) \in Select(Self(n), st)
<1>1. Key(n) # 0 /\ Val(n) # 0
  BY Grammar, NodeFacts
<1>2. Is(st, {"key"}) => ~Is(st, ValueOps)
  BY DEF Is, ValueOps
<1> QED
  BY <1>1, <1>2, SelfSelect, FoundSelf DEF SelectSelf

LEMMA SelectsOfTarget ==
  ASSUME NEW n \in Nodes, NEW st \in Step, Tree[n].tid = "Call_Expr"
  PROVE  /\ Is(st, OneBinding \cup AllBindings) => Self(ArgList(n)) \in Select(Self(n), st)
         /\ Is(st, {"name", "key"}) /\ NameOf(n) # 0 => Self(NameOf(n)) \in Select(Self(n), st)
         /\ Is(st, {"rule"}) => Self(Rule(n)) \in Select(Self(n), st)
<1>1. ArgList(n) # 0 /\ Rule(n) # 0
  BY Grammar, NodeFacts
<1>2. /\ Is(st, {"name", "key"}) => ~Is(st, OneBinding \cup AllBindings)
      /\ Is(st, {"rule"}) => ~Is(st, OneBinding \cup AllBindings) /\ ~Is(st, {"name", "key"})
  BY DEF Is, OneBinding, AllBindings
<1>3. SelectSelf(n, st) =
        IF Is(st, OneBinding \cup AllBindings) THEN Found(ArgList(n))
        ELSE IF Is(st, {"name", "key"}) THEN Found(NameOf(n))
        ELSE IF Is(st, {"rule"}) THEN Found(Rule(n)) ELSE {}
  BY DEF SelectSelf
<1>4. Select(Self(n), st) = SelectSelf(n, st)
  BY SelfSelect
<1> QED
  BY <1>1, <1>2, <1>3, <1>4, FoundSelf

Facet(n, as) == [node |-> n, as |-> as]

LEMMA FacetIsPlace ==
  ASSUME NEW n \in Nodes, NEW as \in {"targets", "loads", "args", "bindings"}
  PROVE  Facet(n, as) \in Places
  BY DEF Facet, Places

LEMMA SelectsFacet ==
  ASSUME NEW n \in Nodes, NEW st \in Step
  PROVE  /\ Tree[n].tid = "Package" /\ Is(st, {">", "target"}) =>
              Facet(n, "targets") \in Select(Self(n), st)
         /\ Tree[n].tid = "Package" /\ Is(st, {"load"}) => Facet(n, "loads") \in Select(Self(n), st)
         /\ Tree[n].tid = "Load_Stmt" /\ Is(st, OneBinding) =>
              Facet(n, "bindings") \in Select(Self(n), st)
         /\ Tree[n].tid = "Load_Stmt" /\ Is(st, {"arg"}) => Facet(n, "args") \in Select(Self(n), st)
         /\ Tree[n].tid = "Load_Stmt" /\ Is(st, {"key"}) => Self(Key(n)) \in Select(Self(n), st)
<1>1. Tree[n].tid = "Load_Stmt" => Key(n) # 0
  BY Grammar, NodeFacts
<1>2. /\ Is(st, {"load"}) => ~Is(st, {">", "target"})
      /\ Is(st, {"arg"}) => ~Is(st, OneBinding)
      /\ Is(st, {"key"}) => ~Is(st, OneBinding) /\ ~Is(st, {"arg"})
  BY DEF Is, OneBinding
<1> QED
  BY <1>1, <1>2, SelfSelect, FoundSelf DEF SelectSelf, As, Facet

LEMMA SelectsFromFacet ==
  ASSUME NEW n \in Nodes, NEW st \in Step
  PROVE  /\ IsIndex(st) /\ At(Targets, KwIndex(st)) # 0 =>
              Self(At(Targets, KwIndex(st))) \in Select(Facet(n, "targets"), st)
         /\ st.kind = "str" /\ TargetNamed(st.s) # 0 =>
              Self(TargetNamed(st.s)) \in Select(Facet(n, "targets"), st)
         /\ IsIndex(st) /\ At(Loads, KwIndex(st)) # 0 =>
              Self(At(Loads, KwIndex(st))) \in Select(Facet(n, "loads"), st)
         /\ st.kind = "str" /\ Keyed(Loads, st.s) # 0 =>
              Self(Keyed(Loads, st.s)) \in Select(Facet(n, "loads"), st)
         /\ IsIndex(st) /\ At(LoadArgs(n), KwIndex(st)) # 0 =>
              Self(At(LoadArgs(n), KwIndex(st))) \in Select(Facet(n, "args"), st)
         /\ st.kind = "str" /\ FirstOf(WithText(LoadArgs(n), "STRING", st.s)) # 0 =>
              Self(FirstOf(WithText(LoadArgs(n), "STRING", st.s))) \in Select(Facet(n, "args"), st)
         /\ IsIndex(st) /\ At(LoadBindings(n), KwIndex(st)) # 0 =>
              Self(At(LoadBindings(n), KwIndex(st))) \in Select(Facet(n, "bindings"), st)
         /\ st.kind = "sym" /\ Keyed(LoadBindings(n), st.s) # 0 =>
              Self(Keyed(LoadBindings(n), st.s)) \in Select(Facet(n, "bindings"), st)
<1>1. /\ Facet(n, "targets").as = "targets" /\ Facet(n, "loads").as = "loads"
      /\ Facet(n, "args").as = "args" /\ Facet(n, "args").node = n
      /\ Facet(n, "bindings").as = "bindings" /\ Facet(n, "bindings").node = n
  BY DEF Facet
<1>2. Select(Facet(n, "targets"), st) =
        ByIndex(Targets, st) \cup IF st.kind = "str" THEN Found(TargetNamed(st.s)) ELSE {}
  BY <1>1 DEF Select
<1>3. Select(Facet(n, "loads"), st) = ByIndex(Loads, st) \cup ByKey(Loads, st, "str")
  BY <1>1 DEF Select
<1>4. Select(Facet(n, "args"), st) =
        ByIndex(LoadArgs(n), st)
        \cup IF st.kind = "str" THEN Found(FirstOf(WithText(LoadArgs(n), "STRING", st.s))) ELSE {}
  BY <1>1 DEF Select
<1>5. Select(Facet(n, "bindings"), st) =
        ByIndex(LoadBindings(n), st) \cup ByKey(LoadBindings(n), st, "sym")
  BY <1>1 DEF Select
<1> QED
  BY <1>2, <1>3, <1>4, <1>5, FoundSelf DEF ByIndex, ByKey

-----------------------------------------------------------------------------
(***************************************************************************)
(* Vectors and dictionaries                                                *)
(***************************************************************************)
LEMMA ItemIsNode ==
  ASSUME NEW n \in Nodes, NEW st \in Step
  PROVE  /\ Nodal(At(Kids(n), KwIndex(st)))
         /\ At(Kids(n), KwIndex(st)) # 0 =>
              \E k \in DOMAIN Kids(n) : At(Kids(n), KwIndex(st)) = Kids(n)[k]
<1>1. Kids(n) \in Seq(Nodes) /\ KwIndex(st) \in Int
  BY NodeFacts, KwIndexInt
<1>2. \/ At(Kids(n), KwIndex(st)) = 0
      \/ \E k \in DOMAIN Kids(n) : At(Kids(n), KwIndex(st)) = Kids(n)[k]
  BY <1>1, AtIs
<1>3. \A k \in DOMAIN Kids(n) : Kids(n)[k] \in Nodes
  BY <1>1
<1> QED
  BY <1>2, <1>3 DEF Nodal

LEMMA KeyedIsNode ==
  ASSUME NEW n \in Nodes, NEW key
  PROVE  /\ Nodal(Keyed(Kids(n), key))
         /\ Keyed(Kids(n), key) # 0 => \E k \in DOMAIN Kids(n) : Keyed(Kids(n), key) = Kids(n)[k]
<1>1. Kids(n) \in Seq(Nodes)
  BY NodeFacts
<1>2. Keyed(Kids(n), key) = 0 \/ \E k \in DOMAIN Kids(n) : Keyed(Kids(n), key) = Kids(n)[k]
  BY <1>1, KeyedIs
<1>3. \A k \in DOMAIN Kids(n) : Kids(n)[k] \in Nodes
  BY <1>1
<1> QED
  BY <1>2, <1>3 DEF Nodal

LEMMA TailOfSteps ==
  ASSUME NEW args \in Seq(Step), args # << >>
  PROVE  /\ args[1] \in Step /\ Tail(args) \in Seq(Step) /\ Len(Tail(args)) = Len(args) - 1
         /\ Len(args) \in Nat \ {0} /\ (Len(args) = 1 \/ Len(args) > 1)
         /\ Len(args) > 1 => args[2] \in Step /\ Tail(args) # << >> /\ Tail(args)[1] = args[2]
         /\ Len(args) > 2 => args[3] \in Step
         /\ Tail(args) # << >> => Len(args) > 1
<1>1. \A k \in 1 .. Len(args) : args[k] \in Step
  OBVIOUS
<1>2. PICK c : c = Len(args)
  OBVIOUS
<1>3. c \in Nat \ {0}
  BY <1>2
<1>4. Tail(args) \in Seq(Step) /\ Len(Tail(args)) = c - 1
  BY <1>2
<1>5. c > 1 => Tail(args) # << >> /\ Tail(args)[1] = args[2]
  <2>1. \A i \in 1 .. Len(Tail(args)) : Tail(args)[i] = args[i + 1]
    BY HeadTailProperties
  <2>2. c > 1 => 1 \in 1 .. Len(Tail(args))
    BY <1>3, <1>4
  <2>3. Tail(args) = << >> => Len(Tail(args)) = 0
    BY <1>4, EmptySeq
  <2> QED
    BY <1>4, <2>1, <2>2, <2>3
<1>6. Tail(args) # << >> => c > 1
  BY <1>2, <1>3, <1>4
<1> QED
  BY <1>1, <1>2, <1>3, <1>4, <1>5, <1>6

LEMMA MoreSteps ==
  ASSUME NEW args \in Seq(Step), Len(args) > 1
  PROVE  /\ args # << >> /\ args[1] \in Step /\ args[2] \in Step
         /\ Tail(args) \in Seq(Step) /\ Tail(args) # << >> /\ Tail(args)[1] = args[2]
         /\ Len(Tail(args)) = Len(args) - 1
<1>1. args # << >>
  BY EmptySeq
<1> QED
  BY <1>1, TailOfSteps

LEMMA ManySteps ==
  ASSUME NEW args \in Seq(Step), Len(args) > 2
  PROVE  /\ args[3] \in Step /\ Tail(args)[2] = args[3] /\ Len(Tail(args)) > 1
<1>1. Len(args) > 1 /\ 3 \in 1 .. Len(args)
  OBVIOUS
<1>2. args # << >> /\ Len(Tail(args)) = Len(args) - 1
  BY <1>1, MoreSteps
<1>3. \A i \in 1 .. Len(Tail(args)) : Tail(args)[i] = args[i + 1]
  BY <1>2, HeadTailProperties
<1>4. 2 \in 1 .. Len(Tail(args))
  BY <1>2
<1>5. args[3] \in Step
  BY <1>1
<1> QED
  BY <1>2, <1>3, <1>4, <1>5

LEMMA NodeOutcome ==
  ASSUME NEW n \in Nodes
  PROVE  /\ R("node", <<n>>) \in Outcomes
         /\ \A r \in Wrap(n) : /\ r \in Outcomes /\ r.is = "node" /\ r.is # "copy"
                              /\ r.of[1] = n /\ r.retyped = {}
<1>1. <<n>> \in Seq(Nodes) /\ <<n>> # << >> /\ <<n>>[1] = n /\ n # 0
  BY NodeFacts
<1>2. PICK r : r = R("node", <<n>>)
  OBVIOUS
<1>3. r.is = "node" /\ r.of = <<n>> /\ r.retyped = {} /\ r \in Result
  BY <1>1, <1>2 DEF R, Result
<1>4. r \in Outcomes /\ r.of[1] = n
  BY <1>1, <1>3 DEF Outcomes
<1>5. Wrap(n) = {r}
  BY <1>1, <1>2 DEF Wrap
<1> QED
  BY <1>2, <1>3, <1>4, <1>5

\* Sealark finds anything in what is no vector: an index has strayed.
LEMMA MisreadOutcomes ==
  ASSUME NEW v \in Nodes
  PROVE  \A r \in Misread(v) : /\ r \in Outcomes /\ r.is \in {"node", "undefined"}
                              /\ r.retyped = {}
<1>1. Kids(v) \in Seq(Nodes)
  BY NodeFacts
<1>2. ASSUME NEW k \in Range(Kids(v))
      PROVE  R("node", <<k>>) \in Outcomes
  <2>1. k \in Nodes
    BY <1>1, <1>2 DEF Range
  <2> QED
    BY <2>1, NodeOutcome
<1>3. Bare("undefined") \in Outcomes
  BY BareAllowed DEF Allowed, Shorts
<1> QED
  BY <1>2, <1>3 DEF Misread, Undefined, R, Bare

LEMMA VectorAllowed ==
  ASSUME NEW v \in Nodes, NEW args \in Seq(Step), args # << >>, tid[v] = "List_Expr"
  PROVE  Vector(v, args) \subseteq Allowed(Self(v), args)
<1> DEFINE item == At(Kids(v), KwIndex(args[1]))
           A == Allowed(Self(v), args)
<1>1. Property(v) \subseteq A /\ Died \subseteq A /\ Null \subseteq A /\ Wrap(0) \subseteq A
  BY OneAllowed, BareAllowed DEF Wrap, Shorts
<1>2. CASE ~Is(args[1], {"list-expr?"}) /\ Tree[v].tid = "List_Expr" /\ IsIndex(args[1])
  <2>1. Self(v) \in Places /\ args[1] \in Step
    BY SelfIsPlace, TailOfSteps
  <2>2. item \in Nodes \cup {0}
    BY <2>1, ItemIsNode DEF Nodal
  <2>3. item # 0 => Self(item) \in Select(Self(v), args[1])
    BY <1>2, <2>1, SelectsItem
  <2>4. Wrap(item) \subseteq A
    BY <2>1, <2>2, <2>3, FoundAllowed
  <2>5. Vector(v, args) = Wrap(item)
    BY <1>2 DEF Vector, Leaves
  <2> QED
    BY <2>4, <2>5
<1>3. CASE /\ ~Is(args[1], {"list-expr?"}) /\ Tree[v].tid \notin Leaves \cup {"List_Expr"}
           /\ IsIndex(args[1])
  <2>1. Vector(v, args) = Misread(v) \cup Wrap(0)
    BY <1>3 DEF Vector
  <2>2. Strays(Self(v), args, {})
    BY <1>3, StraysHere DEF Changed
  <2>3. Misread(v) \subseteq A
    BY <2>2, MisreadOutcomes DEF Allowed
  <2> QED
    BY <1>1, <2>1, <2>3
<1>4. CASE Is(args[1], {"list-expr?"}) \/ Tree[v].tid \in Leaves \/ ~IsIndex(args[1])
  BY <1>1, <1>4 DEF Vector
<1> QED
  BY <1>2, <1>3, <1>4

\* An entry of a dictionary, found by its position or its key, has nodes for
\* its parts, and one more step selects them.
LEMMA EntryParts ==
  ASSUME NEW d \in Nodes, Tree[d].tid = "Dict_Expr", NEW k \in DOMAIN Kids(d)
  PROVE  LET e == Kids(d)[k]
         IN /\ e \in Nodes /\ Tree[e].tid = "Dict_Entry" /\ Key(e) \in Nodes /\ Val(e) \in Nodes
            /\ Val(e) \in EntryValues
<1>1. Kids(d)[k] \in Nodes /\ Tree[Kids(d)[k]].tid = "Dict_Entry"
  BY Grammar
<1> QED
  BY <1>1, Grammar DEF EntryValues

\* The lookup makes a vector of the value of the entry and takes an item of it.
LEMMA EntryItemAllowed ==
  ASSUME NEW v \in EntryValues, NEW args \in Seq(Step), args # << >>
  PROVE  Retype({v}, EntryItem(v, args[1])) \subseteq Allowed(Self(v), args)
<1> DEFINE item == At(Kids(v), KwIndex(args[1]))
           A == Allowed(Self(v), args)
           Proper_(r) == /\ r \in Outcomes /\ r.is # "copy"
                         /\ r.is = "node" => Leads(Self(v), args, r.of[1]) \/ Strays(Self(v), args, {v})
<1>0. v \in Nodes
  BY EntryValuesAreNodes
<1>1. /\ Undefined \subseteq Outcomes /\ Null \subseteq Outcomes
      /\ \A r \in Undefined \cup Null : r.is \notin {"node", "copy"}
  BY BareAllowed DEF Allowed, Undefined, Null, Bare, R
<1>2. \A r \in Undefined \cup Null : Proper_(r)
  BY <1>1
<1>3. Self(v) \in Places /\ args[1] \in Step
  BY <1>0, SelfIsPlace, TailOfSteps
<1>4. CASE IsKwIndex(args[1]) /\ Tree[v].tid = "List_Expr" /\ item # 0
  <2>1. IsIndex(args[1])
    BY <1>4 DEF IsKwIndex, IsIndex
  <2>2. item \in Nodes
    BY <1>0, <1>3, <1>4, ItemIsNode DEF Nodal
  <2>3. Self(item) \in Select(Self(v), args[1])
    BY <1>0, <1>3, <1>4, <2>1, SelectsItem
  <2>4. Leads(Self(v), args, item)
    BY <1>3, <2>2, <2>3, OneStepLeads
  <2>5. EntryItem(v, args[1]) = Wrap(item)
    BY <1>4 DEF EntryItem, Leaves
  <2> HIDE DEF item
  <2>6. \A r \in EntryItem(v, args[1]) : Proper_(r)
    BY <2>2, <2>4, <2>5, NodeOutcome
  <2> QED
    BY <2>6, RetypeAllowed
<1>5. CASE IsKwIndex(args[1]) /\ Tree[v].tid \notin Leaves \cup {"List_Expr"}
  <2>1. IsIndex(args[1])
    BY <1>5 DEF IsKwIndex, IsIndex
  <2>2. Strays(Self(v), args, {v})
    BY <1>0, <1>5, <2>1, StraysHere DEF Changed
  <2>3. \A r \in Misread(v) : Proper_(r)
    BY <1>0, <2>2, MisreadOutcomes
  <2>4. EntryItem(v, args[1]) = Misread(v) \cup Null
    BY <1>5 DEF EntryItem
  <2>5. \A r \in EntryItem(v, args[1]) : Proper_(r)
    BY <1>2, <2>3, <2>4
  <2> QED
    BY <2>5, RetypeAllowed
<1>6. CASE ~IsKwIndex(args[1]) \/ Tree[v].tid \in Leaves \/ (Tree[v].tid = "List_Expr" /\ item = 0)
  <2>1. EntryItem(v, args[1]) \subseteq Undefined \cup Null
    BY <1>6 DEF EntryItem, Leaves
  <2>2. \A r \in EntryItem(v, args[1]) : Proper_(r)
    BY <1>2, <2>1
  <2> QED
    BY <2>2, RetypeAllowed
<1> QED
  BY <1>4, <1>5, <1>6

\* One step further: what the second step selects from a node that the first
\* selects.
LEMMA FoundThenAllowed ==
  ASSUME NEW p \in Places, NEW e \in Nodes, NEW args \in Seq(Step), Len(args) > 1,
         Self(e) \in Select(p, args[1]),
         NEW n \in Nodes \cup {0}, n # 0 => Self(n) \in Select(Self(e), args[2])
  PROVE  Wrap(n) \subseteq Allowed(p, args)
<1>1. args # << >>
  BY EmptySeq
<1>2. Tail(args) \in Seq(Step) /\ Tail(args) # << >> /\ Tail(args)[1] = args[2]
  BY <1>1, TailOfSteps
<1>3. Self(e) \in Places
  BY SelfIsPlace
<1>4. Wrap(n) \subseteq Allowed(Self(e), Tail(args))
  BY <1>2, <1>3, FoundAllowed
<1> QED
  BY <1>1, <1>3, <1>4, FurtherAllowed

LEMMA EntryPartAllowed ==
  ASSUME NEW d \in Nodes, Tree[d].tid = "Dict_Expr", NEW args \in Seq(Step), args # << >>,
         args[1].kind = "str"
  PROVE  EntryPart(d, args) \subseteq Allowed(Self(d), args)
<1> DEFINE e == Keyed(Kids(d), args[1].s)
           A == Allowed(Self(d), args)
<1>1. Error \subseteq A /\ Null \subseteq A
  BY BareAllowed
<1>2. Self(d) \in Places /\ args[1] \in Step /\ Len(args) \in Nat \ {0}
  BY SelfIsPlace, TailOfSteps
<1>3. CASE e = 0
  BY <1>1, <1>3 DEF EntryPart
<1>4. CASE e # 0
  <2>1. PICK k \in DOMAIN Kids(d) : e = Kids(d)[k]
    BY <1>4, KeyedIsNode
  <2>2. /\ e \in Nodes /\ Tree[e].tid = "Dict_Entry" /\ Key(e) \in Nodes /\ Val(e) \in Nodes
        /\ Val(e) \in EntryValues
    BY <2>1, EntryParts
  <2>3. Self(e) \in Select(Self(d), args[1])
    BY <1>2, <1>4, SelectsKeyed
  <2>4. CASE Len(args) = 1
    <3>1. Wrap(e) \subseteq A
      BY <1>2, <2>2, <2>3, FoundAllowed
    <3>2. EntryPart(d, args) = Wrap(e)
      BY <1>4, <2>4 DEF EntryPart
    <3> QED
      BY <3>1, <3>2
  <2>5. CASE Len(args) = 2
    <3>0. Len(args) > 1 /\ args[2] \in Step
      <4>1. Len(args) > 1
        BY <2>5
      <4> QED
        BY <4>1, MoreSteps
    <3>1. CASE Is(args[2], {"key"})
      <4>1. Self(Key(e)) \in Select(Self(e), args[2])
        BY <2>2, <3>0, <3>1, SelectsPart
      <4>2. Wrap(Key(e)) \subseteq A
        BY <1>2, <2>2, <2>3, <3>0, <4>1, FoundThenAllowed
      <4>3. ~Is(args[2], ValueOps)
        BY <3>1 DEF Is, ValueOps
      <4>4. EntryPart(d, args) = Wrap(Key(e))
        BY <1>4, <2>5, <3>1, <4>3 DEF EntryPart
      <4> QED
        BY <4>2, <4>4
    <3>2. CASE Is(args[2], ValueOps)
      <4>1. Self(Val(e)) \in Select(Self(e), args[2])
        BY <2>2, <3>0, <3>2, SelectsPart
      <4>2. Wrap(Val(e)) \subseteq A
        BY <1>2, <2>2, <2>3, <3>0, <4>1, FoundThenAllowed
      <4>3. ~Is(args[2], {"key"})
        BY <3>2 DEF Is, ValueOps
      <4>4. EntryPart(d, args) = Wrap(Val(e))
        BY <1>4, <2>5, <3>2, <4>3 DEF EntryPart
      <4> QED
        BY <4>2, <4>4
    <3>3. CASE ~Is(args[2], {"key"}) /\ ~Is(args[2], ValueOps)
      BY <1>1, <1>4, <2>5, <3>3 DEF EntryPart
    <3> QED
      BY <3>1, <3>2, <3>3
  <2>6. CASE Len(args) = 3 /\ Is(args[2], ValueOps)
    <3>0. Len(args) > 1 /\ Len(args) > 2
      BY <2>6
    <3>1. /\ args # << >> /\ Tail(args) \in Seq(Step) /\ Tail(args) # << >>
          /\ Tail(args)[1] = args[2] /\ args[2] \in Step
      BY <3>0, MoreSteps
    <3>3. Tail(args)[2] = args[3] /\ Len(Tail(args)) > 1
      BY <3>0, ManySteps
    <3>2. /\ Tail(Tail(args)) \in Seq(Step) /\ Tail(Tail(args)) # << >>
          /\ Tail(Tail(args))[1] = Tail(args)[2]
      BY <3>1, <3>3, MoreSteps
    <3>4. Retype({Val(e)}, EntryItem(Val(e), args[3]))
            \subseteq Allowed(Self(Val(e)), Tail(Tail(args)))
      BY <2>2, <3>2, <3>3, EntryItemAllowed
    <3>5. Self(Val(e)) \in Select(Self(e), Tail(args)[1])
      BY <2>2, <2>6, <3>1, SelectsPart
    <3>6. Self(e) \in Places /\ Self(Val(e)) \in Places
      BY <2>2, SelfIsPlace
    <3>7. Allowed(Self(Val(e)), Tail(Tail(args))) \subseteq Allowed(Self(e), Tail(args))
      BY <3>1, <3>5, <3>6, FurtherAllowed
    <3>8. Allowed(Self(e), Tail(args)) \subseteq A
      BY <1>2, <2>3, <3>6, FurtherAllowed
    <3>9. EntryPart(d, args) = Retype({Val(e)}, EntryItem(Val(e), args[3]))
      BY <1>4, <2>6 DEF EntryPart
    <3> QED
      BY <3>4, <3>7, <3>8, <3>9
  <2>7. CASE ~(Len(args) = 1) /\ ~(Len(args) = 2) /\ ~(Len(args) = 3 /\ Is(args[2], ValueOps))
    BY <1>1, <1>4, <2>7 DEF EntryPart
  <2> QED
    BY <2>4, <2>5, <2>6, <2>7
<1> QED
  BY <1>3, <1>4

LEMMA EntryPartAtAllowed ==
  ASSUME NEW d \in Nodes, Tree[d].tid = "Dict_Expr", NEW args \in Seq(Step), args # << >>,
         IsKwIndex(args[1])
  PROVE  EntryPartAt(d, args) \subseteq Allowed(Self(d), args)
<1> DEFINE e == At(Kids(d), KwIndex(args[1]))
           A == Allowed(Self(d), args)
<1>1. Died \subseteq A /\ Null \subseteq A
  BY BareAllowed
<1>2. Self(d) \in Places /\ args[1] \in Step /\ Len(args) \in Nat \ {0}
  BY SelfIsPlace, TailOfSteps
<1>3. CASE e = 0
  BY <1>1, <1>3 DEF EntryPartAt, Is, ValueOps
<1>4. CASE e # 0
  <2>1. PICK k \in DOMAIN Kids(d) : e = Kids(d)[k]
    BY <1>2, <1>4, ItemIsNode
  <2>2. e \in Nodes /\ Tree[e].tid = "Dict_Entry" /\ Key(e) \in Nodes /\ Val(e) \in Nodes
    BY <2>1, EntryParts
  <2>3. Self(e) \in Select(Self(d), args[1])
    BY <1>2, <1>4, SelectsItem
  <2>4. CASE Len(args) = 1
    <3>1. Wrap(e) \subseteq A
      BY <1>2, <2>2, <2>3, FoundAllowed
    <3>2. EntryPartAt(d, args) = Wrap(e)
      BY <1>4, <2>4 DEF EntryPartAt
    <3> QED
      BY <3>1, <3>2
  <2>5. CASE Len(args) # 1
    <3>1. Len(args) > 1
      BY <2>5, TailOfSteps
    <3>2. args[2] \in Step
      BY <3>1, MoreSteps
    <3>3. CASE Is(args[2], {"key"})
      <4>1. Self(Key(e)) \in Select(Self(e), args[2])
        BY <2>2, <3>2, <3>3, SelectsPart
      <4>2. Wrap(Key(e)) \subseteq A
        BY <1>2, <2>2, <2>3, <3>1, <4>1, FoundThenAllowed
      <4>3. ~Is(args[2], ValueOps)
        BY <3>3 DEF Is, ValueOps
      <4>4. EntryPartAt(d, args) = Wrap(Key(e))
        BY <1>4, <2>5, <3>3, <4>3 DEF EntryPartAt
      <4> QED
        BY <4>2, <4>4
    <3>4. CASE Is(args[2], ValueOps)
      <4>1. Self(Val(e)) \in Select(Self(e), args[2])
        BY <2>2, <3>2, <3>4, SelectsPart
      <4>2. Wrap(Val(e)) \subseteq A
        BY <1>2, <2>2, <2>3, <3>1, <4>1, FoundThenAllowed
      <4>3. ~Is(args[2], {"key"})
        BY <3>4 DEF Is, ValueOps
      <4>4. EntryPartAt(d, args) = Wrap(Val(e))
        BY <1>4, <2>5, <3>4, <4>3 DEF EntryPartAt
      <4> QED
        BY <4>2, <4>4
    <3>5. CASE ~Is(args[2], {"key"}) /\ ~Is(args[2], ValueOps)
      BY <1>1, <2>5, <3>5 DEF EntryPartAt
    <3> QED
      BY <3>3, <3>4, <3>5
  <2> QED
    BY <2>4, <2>5
<1> QED
  BY <1>3, <1>4

LEMMA DictExprAllowed ==
  ASSUME NEW d \in Nodes, Tree[d].tid = "Dict_Expr", NEW args \in Seq(Step), args # << >>
  PROVE  DictExpr(d, args) \subseteq Allowed(Self(d), args)
<1>1. Null \subseteq Allowed(Self(d), args)
  BY BareAllowed
<1>2. CommonProperty(d, args[1]) \subseteq Allowed(Self(d), args)
  BY PropertyAllowed, TailOfSteps
<1>3. CASE args[1].kind = "str"
  <2>1. DictExpr(d, args) = EntryPart(d, args)
    BY <1>3 DEF DictExpr, IsKwIndex
  <2> QED
    BY <1>3, <2>1, EntryPartAllowed
<1>4. CASE IsKwIndex(args[1])
  <2>1. DictExpr(d, args) = EntryPartAt(d, args)
    BY <1>4 DEF DictExpr, IsKwIndex
  <2> QED
    BY <1>4, <2>1, EntryPartAtAllowed
<1>5. CASE args[1].kind = "int"
  BY <1>1, <1>5 DEF DictExpr, IsKwIndex
<1>6. CASE args[1].kind # "str" /\ args[1].kind # "int" /\ ~IsKwIndex(args[1])
  BY <1>2, <1>6 DEF DictExpr
<1> QED
  BY <1>3, <1>4, <1>5, <1>6

LEMMA DictEntryAllowed ==
  ASSUME NEW e \in Nodes, Tree[e].tid = "Dict_Entry", NEW args \in Seq(Step), args # << >>
  PROVE  DictEntry(e, args) \subseteq Allowed(Self(e), args)
<1> DEFINE A == Allowed(Self(e), args)
<1>1. Error \subseteq A /\ Null \subseteq A
  BY BareAllowed
<1>2. /\ Self(e) \in Places /\ args[1] \in Step /\ Len(args) \in Nat \ {0}
      /\ Key(e) \in Nodes /\ Val(e) \in Nodes
  BY SelfIsPlace, TailOfSteps, Grammar
<1>3. CASE Is(args[1], {"key"})
  <2>1. Self(Key(e)) \in Select(Self(e), args[1])
    BY <1>2, <1>3, SelectsPart
  <2>2. Wrap(Key(e)) \subseteq A
    BY <1>2, <2>1, FoundAllowed
  <2>3. DictEntry(e, args) = Wrap(Key(e))
    BY <1>3 DEF DictEntry, Is, ValueOps
  <2> QED
    BY <2>2, <2>3
<1>4. CASE Is(args[1], ValueOps)
  <2>1. Self(Val(e)) \in Select(Self(e), args[1])
    BY <1>2, <1>4, SelectsPart
  <2>2. ~Is(args[1], {"key"})
    BY <1>4 DEF Is, ValueOps
  <2>3. CASE Len(args) = 1
    <3>1. Wrap(Val(e)) \subseteq A
      BY <1>2, <2>1, FoundAllowed
    <3>2. DictEntry(e, args) = Wrap(Val(e))
      BY <1>4, <2>2, <2>3 DEF DictEntry
    <3> QED
      BY <3>1, <3>2
  <2>4. CASE Len(args) # 1
    <3>0. Len(args) > 1
      BY <2>4, TailOfSteps
    <3>1. Tail(args) \in Seq(Step) /\ Tail(args) # << >>
      BY <3>0, MoreSteps
    <3>2. tid[Val(e)] = "List_Expr" =>
            Vector(Val(e), Tail(args)) \subseteq Allowed(Self(Val(e)), Tail(args))
      BY <1>2, <3>1, VectorAllowed
    <3>3. Allowed(Self(Val(e)), Tail(args)) \subseteq A
      BY <1>2, <2>1, SelfIsPlace, FurtherAllowed
    <3>5. DictEntry(e, args) =
            IF Len(args) > 2 \/ tid[Val(e)] \notin {"List_Expr", "Dict_Expr"} THEN Error
            ELSE IF tid[Val(e)] = "List_Expr" THEN Vector(Val(e), Tail(args))
            ELSE Null
      BY <1>4, <2>2, <2>4, <3>0 DEF DictEntry
    <3> QED
      BY <1>1, <3>2, <3>3, <3>5
  <2> QED
    BY <1>2, <2>3, <2>4
<1>5. CASE ~Is(args[1], {"key"}) /\ ~Is(args[1], ValueOps)
  BY <1>1, <1>5 DEF DictEntry
<1> QED
  BY <1>3, <1>4, <1>5

-----------------------------------------------------------------------------
(***************************************************************************)
(* Bindings                                                                *)
(***************************************************************************)
\* What the value of a binding gives by index: the value is what it was
\* parsed as.
LEMMA ItemOfValue ==
  ASSUME TypesKept, NEW b \in Nodes, Tree[b].tid = "Binding", NEW args \in Seq(Step), Len(args) > 1,
         Is(args[1], ValueOps), tid[Val(b)] = "List_Expr", IsKwIndex(args[2])
  PROVE  Wrap(At(Kids(Val(b)), KwIndex(args[2]))) \subseteq Allowed(Self(b), args)
<1> DEFINE item == At(Kids(Val(b)), KwIndex(args[2]))
<1>1. args[1] \in Step /\ args[2] \in Step
  BY MoreSteps
<1>2. Val(b) \in Nodes /\ Tree[Val(b)].tid = "List_Expr" /\ Self(b) \in Places
  BY Grammar, ValueKeepsType, SelfIsPlace
<1>3. Self(Val(b)) \in Select(Self(b), args[1])
  BY <1>1, SelectsPart
<1>4. item \in Nodes \cup {0}
  BY <1>1, <1>2, ItemIsNode DEF Nodal
<1>5. IsIndex(args[2])
  BY DEF IsKwIndex, IsIndex
<1>6. item # 0 => Self(item) \in Select(Self(Val(b)), args[2])
  BY <1>1, <1>2, <1>5, SelectsItem
<1> QED
  BY <1>2, <1>3, <1>4, <1>6, FoundThenAllowed

\* The parts of a binding, and what its value, a dictionary, gives.
LEMMA PartsOfBinding ==
  ASSUME TypesKept, NEW b \in Nodes, Tree[b].tid = "Binding", NEW args \in Seq(Step), args # << >>
  PROVE  /\ Is(args[1], {"key"}) => Wrap(Key(b)) \subseteq Allowed(Self(b), args)
         /\ Is(args[1], ValueOps) => Wrap(Val(b)) \subseteq Allowed(Self(b), args)
         /\ Is(args[1], ValueOps) /\ Tail(args) # << >> /\ tid[Val(b)] = "Dict_Expr" =>
              DictExpr(Val(b), Tail(args)) \subseteq Allowed(Self(b), args)
<1>1. /\ args[1] \in Step /\ Key(b) \in Nodes /\ Val(b) \in Nodes
      /\ Self(b) \in Places /\ Self(Val(b)) \in Places /\ Tail(args) \in Seq(Step)
  BY TailOfSteps, Grammar, SelfIsPlace
<1>2. ASSUME Is(args[1], {"key"}) PROVE Wrap(Key(b)) \subseteq Allowed(Self(b), args)
  <2>1. Self(Key(b)) \in Select(Self(b), args[1])
    BY <1>1, <1>2, SelectsPart
  <2> QED
    BY <1>1, <2>1, FoundAllowed
<1>3. Is(args[1], ValueOps) => Self(Val(b)) \in Select(Self(b), args[1])
  BY <1>1, SelectsPart
<1>4. ASSUME Is(args[1], ValueOps) PROVE Wrap(Val(b)) \subseteq Allowed(Self(b), args)
  BY <1>1, <1>3, <1>4, FoundAllowed
<1>5. ASSUME Is(args[1], ValueOps), Tail(args) # << >>, tid[Val(b)] = "Dict_Expr"
      PROVE  DictExpr(Val(b), Tail(args)) \subseteq Allowed(Self(b), args)
  <2>1. Tree[Val(b)].tid = "Dict_Expr"
    BY <1>5, ValueKeepsType
  <2>2. DictExpr(Val(b), Tail(args)) \subseteq Allowed(Self(Val(b)), Tail(args))
    BY <1>1, <1>5, <2>1, DictExprAllowed
  <2>3. Allowed(Self(Val(b)), Tail(args)) \subseteq Allowed(Self(b), args)
    BY <1>1, <1>3, <1>5, FurtherAllowed
  <2> QED
    BY <2>2, <2>3
<1> QED
  BY <1>2, <1>4, <1>5

LEMMA BindingAllowed ==
  ASSUME TypesKept, NEW b \in Nodes, Tree[b].tid = "Binding", NEW args \in Seq(Step), args # << >>
  PROVE  Binding(b, args) \subseteq Allowed(Self(b), args)
<1> DEFINE v == Val(b)
           rest == Tail(args)
           A == Allowed(Self(b), args)
<1>1. Error \subseteq A /\ Null \subseteq A /\ Died \subseteq A
  BY BareAllowed
<1>2. CASE Is(args[1], {"key"})
  <2>1. ~Is(args[1], ValueOps)
    BY <1>2 DEF Is, ValueOps
  <2>2. Binding(b, args) = Wrap(Key(b))
    BY <1>2, <2>1 DEF Binding
  <2> QED
    BY <1>2, <2>2, PartsOfBinding
<1>3. CASE Is(args[1], ValueOps)
  <2>1. ~Is(args[1], {"key"})
    BY <1>3 DEF Is, ValueOps
  <2>2. CASE rest = << >>
    <3>1. Binding(b, args) = Wrap(v)
      BY <1>3, <2>1, <2>2 DEF Binding
    <3> QED
      BY <1>3, <3>1, PartsOfBinding
  <2>3. CASE rest # << >> /\ tid[v] = "Dict_Expr"
    <3>1. Binding(b, args) = DictExpr(v, rest)
      BY <1>3, <2>1, <2>3 DEF Binding
    <3> QED
      BY <1>3, <2>3, <3>1, PartsOfBinding
  <2>4. CASE rest # << >> /\ tid[v] # "Dict_Expr"
    <3>1. Len(args) > 1 /\ rest[1] = args[2]
      BY <2>4, TailOfSteps
    <3>2. Binding(b, args) =
            IF ~IsKwIndex(rest[1]) THEN Died
            ELSE IF tid[v] = "List_Expr" THEN Wrap(At(Kids(v), KwIndex(rest[1])))
            ELSE Null
      BY <1>3, <2>1, <2>4 DEF Binding
    <3>3. IsKwIndex(args[2]) /\ tid[v] = "List_Expr" => Wrap(At(Kids(v), KwIndex(args[2]))) \subseteq A
      BY <1>3, <3>1, ItemOfValue
    <3> QED
      BY <1>1, <3>1, <3>2, <3>3
  <2> QED
    BY <2>2, <2>3, <2>4
<1>4. CASE ~Is(args[1], {"key"}) /\ ~Is(args[1], ValueOps)
  BY <1>1, <1>4 DEF Binding
<1> QED
  BY <1>2, <1>3, <1>4

LEMMA ComponentAllowed ==
  ASSUME TypesKept, NEW b \in Nodes, Tree[b].tid = "Binding", NEW args \in Seq(Step), args # << >>
  PROVE  Component(b, args) \subseteq Allowed(Self(b), args)
<1> DEFINE v == Val(b)
           rest == Tail(args)
           A == Allowed(Self(b), args)
<1>1. Error \subseteq A /\ Null \subseteq A
  BY BareAllowed
<1>2. CASE Is(args[1], {"key"})
  <2>1. ~Is(args[1], ValueOps)
    BY <1>2 DEF Is, ValueOps
  <2>2. Component(b, args) = IF rest = << >> THEN Wrap(Key(b)) ELSE Null
    BY <1>2, <2>1 DEF Component
  <2>3. Wrap(Key(b)) \subseteq A
    BY <1>2, PartsOfBinding
  <2> QED
    BY <1>1, <2>2, <2>3
<1>3. CASE Is(args[1], ValueOps)
  <2>1. ~Is(args[1], {"key"})
    BY <1>3 DEF Is, ValueOps
  <2>2. CASE rest = << >>
    <3>1. Component(b, args) = Wrap(v)
      BY <1>3, <2>1, <2>2 DEF Component
    <3> QED
      BY <1>3, <3>1, PartsOfBinding
  <2>3. CASE rest # << >> /\ tid[v] = "Dict_Expr"
    <3>1. Component(b, args) = DictExpr(v, rest)
      BY <1>3, <2>1, <2>3 DEF Component
    <3> QED
      BY <1>3, <2>3, <3>1, PartsOfBinding
  <2>4. CASE rest # << >> /\ tid[v] = "List_Expr"
    <3>1. Len(args) > 1 /\ rest[1] = args[2]
      BY <2>4, TailOfSteps
    <3>2. Component(b, args) =
            CASE IsKwIndex(rest[1]) -> Wrap(At(Kids(v), KwIndex(rest[1])))
              [] rest[1].kind = "str" -> {R("copies", WithText(Kids(v), "STRING", rest[1].s))}
              [] rest[1].kind = "int" -> {R("copies", WithText(Kids(v), "INT", rest[1].s))}
              [] OTHER -> Error
      BY <1>3, <2>1, <2>4 DEF Component
    <3>3. IsKwIndex(args[2]) => Wrap(At(Kids(v), KwIndex(args[2]))) \subseteq A
      BY <1>3, <2>4, <3>1, ItemOfValue
    <3>4. Kids(v) \in Seq(Nodes)
      BY Grammar, NodeFacts
    <3>5. \A t, text : R("copies", WithText(Kids(v), t, text)) \in A
      BY <3>4, WithTextIs, ListAllowed
    <3>6. CASE IsKwIndex(rest[1])
      BY <3>1, <3>2, <3>3, <3>6 DEF IsKwIndex
    <3>7. CASE rest[1].kind = "str"
      <4>1. ~IsKwIndex(rest[1]) /\ rest[1].kind # "int"
        BY <3>7 DEF IsKwIndex
      <4>2. Component(b, args) = {R("copies", WithText(Kids(v), "STRING", rest[1].s))}
        BY <3>2, <3>7, <4>1
      <4> QED
        BY <3>5, <4>2
    <3>8. CASE rest[1].kind = "int"
      <4>1. ~IsKwIndex(rest[1]) /\ rest[1].kind # "str"
        BY <3>8 DEF IsKwIndex
      <4>2. Component(b, args) = {R("copies", WithText(Kids(v), "INT", rest[1].s))}
        BY <3>2, <3>8, <4>1
      <4> QED
        BY <3>5, <4>2
    <3>9. CASE ~IsKwIndex(rest[1]) /\ rest[1].kind # "str" /\ rest[1].kind # "int"
      BY <1>1, <3>2, <3>9
    <3> QED
      BY <3>6, <3>7, <3>8, <3>9
  <2>5. CASE rest # << >> /\ tid[v] # "Dict_Expr" /\ tid[v] # "List_Expr"
    BY <1>1, <1>3, <2>1, <2>5 DEF Component
  <2> QED
    BY <2>2, <2>3, <2>4, <2>5
<1>4. CASE ~Is(args[1], {"key"}) /\ ~Is(args[1], ValueOps)
  BY <1>1, <1>4 DEF Component
<1> QED
  BY <1>2, <1>3, <1>4

\* A binding that the first step finds answers the rest of the steps.
LEMMA BindingFound ==
  ASSUME TypesKept, NEW p \in Places, NEW b \in Nodes, Tree[b].tid = "Binding",
         NEW args \in Seq(Step), args # << >>, Self(b) \in Select(p, args[1])
  PROVE  /\ Wrap(b) \subseteq Allowed(p, args)
         /\ Binding(b, Tail(args)) \subseteq Allowed(p, args)
         /\ Len(args) > 1 => Component(b, Tail(args)) \subseteq Allowed(p, args)
<1>1. Wrap(b) \subseteq Allowed(p, args)
  BY FoundAllowed
<1>2. Tail(args) \in Seq(Step) /\ Self(b) \in Places
  BY TailOfSteps, SelfIsPlace
<1>3. Allowed(Self(b), Tail(args)) \subseteq Allowed(p, args)
  BY <1>2, FurtherAllowed
<1>4. CASE Tail(args) = << >>
  <2>1. Binding(b, Tail(args)) = Wrap(b)
    BY <1>4 DEF Binding
  <2>2. ~ Len(args) > 1
    BY <1>4, TailOfSteps
  <2> QED
    BY <1>1, <2>1, <2>2
<1>5. CASE Tail(args) # << >>
  <2>1. /\ Binding(b, Tail(args)) \subseteq Allowed(Self(b), Tail(args))
        /\ Component(b, Tail(args)) \subseteq Allowed(Self(b), Tail(args))
    BY <1>2, <1>5, BindingAllowed, ComponentAllowed
  <2> QED
    BY <1>1, <1>3, <2>1
<1> QED
  BY <1>4, <1>5

LEMMA BindingsListAllowed ==
  ASSUME TypesKept, NEW al \in Nodes, Tree[al].tid = "Arg_List",
         NEW args \in Seq(Step), args # << >>
  PROVE  BindingsList(al, args) \subseteq Allowed(Self(al), args)
<1> DEFINE A == Allowed(Self(al), args)
           b == IF args[1].kind = "sym" THEN Keyed(BindingsOf(al), args[1].s)
                ELSE At(BindingsOf(al), KwIndex(args[1]))
<1>1. Died \subseteq A
  BY BareAllowed
<1>2. args[1] \in Step /\ Self(al) \in Places
  BY TailOfSteps, SelfIsPlace
<1>3. CASE IsKw(args[1])
  <2>1. BindingsList(al, args) = CommonProperty(al, args[1])
    BY <1>3 DEF BindingsList, IsKw
  <2> QED
    BY <1>2, <2>1, PropertyAllowed
<1>4. CASE args[1].kind \in {"sym", "int"} /\ b # 0
  <2>1. ~IsKw(args[1]) /\ (args[1].kind = "int" => IsIndex(args[1]))
    BY <1>4 DEF IsKw, IsIndex
  <2>2. \E k \in DOMAIN BindingsOf(al) : b = BindingsOf(al)[k]
    BY <1>2, <1>4, BindingsOfIs, KwIndexInt, AtIs, KeyedIs
  <2>3. b \in Nodes /\ Tree[b].tid = "Binding"
    BY <2>2, BindingsOfIs
  <2>4. Self(b) \in Select(Self(al), args[1])
    BY <1>2, <1>4, <2>1, SelectsBinding
  <2>5. Binding(b, Tail(args)) \subseteq A
    BY <1>2, <2>3, <2>4, BindingFound
  <2>6. BindingsList(al, args) = Binding(b, Tail(args))
    BY <1>4, <2>1 DEF BindingsList
  <2> QED
    BY <2>5, <2>6
<1>5. CASE ~IsKw(args[1]) /\ ~(args[1].kind \in {"sym", "int"} /\ b # 0)
  BY <1>1, <1>5 DEF BindingsList
<1> QED
  BY <1>3, <1>4, <1>5 DEF IsKw

-----------------------------------------------------------------------------
(***************************************************************************)
(* Targets                                                                 *)
(***************************************************************************)
LEMMA TargetBindingAllowed ==
  ASSUME TypesKept, NEW t \in Nodes, Tree[t].tid = "Call_Expr",
         NEW args \in Seq(Step), args # << >>
  PROVE  TargetBinding(t, args) \subseteq Allowed(Self(ArgList(t)), args)
<1> DEFINE al == ArgList(t)
           A == Allowed(Self(al), args)
           b == IF args[1].kind = "sym" THEN Keyed(Bindings(t), args[1].s)
                ELSE At(Bindings(t), KwIndex(args[1]))
<1>1. Error \subseteq A /\ Null \subseteq A /\ Bare("nil") \in A
  BY BareAllowed DEF Shorts
<1>2. al \in Nodes /\ Tree[al].tid = "Arg_List" /\ args[1] \in Step
  BY Grammar, TailOfSteps
<1>3. Self(al) \in Places /\ Bindings(t) = BindingsOf(al) /\ KwIndex(args[1]) \in Int
  BY <1>2, SelfIsPlace, KwIndexInt DEF Bindings
<1>4. CASE ~IsIndex(args[1]) /\ args[1].kind # "sym"
  BY <1>1, <1>4 DEF TargetBinding
<1>5. CASE (IsIndex(args[1]) \/ args[1].kind = "sym") /\ b = 0
  <2>1. ~(IsIndex(args[1]) /\ args[1].kind = "sym")
    BY DEF IsIndex
  <2>2. CASE IsIndex(args[1])
    <3>1. TargetBinding(t, args) = Error \cup Null
      BY <1>5, <2>1, <2>2 DEF TargetBinding
    <3> QED
      BY <1>1, <3>1
  <2>3. CASE args[1].kind = "sym"
    <3>1. TargetBinding(t, args) = {Bare("nil")}
      BY <1>5, <2>1, <2>3 DEF TargetBinding
    <3> QED
      BY <1>1, <3>1
  <2> QED
    BY <1>5, <2>2, <2>3
<1>6. CASE (IsIndex(args[1]) \/ args[1].kind = "sym") /\ b # 0
  <2>1. \E k \in DOMAIN Bindings(t) : b = Bindings(t)[k]
    BY <1>3, <1>6, Attributes, AtIs, KeyedIs
  <2>2. b \in Nodes /\ Tree[b].tid = "Binding"
    BY <2>1, Attributes
  <2>3. Self(b) \in Select(Self(al), args[1])
    BY <1>2, <1>3, <1>6, SelectsBinding
  <2>4. /\ Wrap(b) \subseteq A
        /\ Len(args) > 1 => Component(b, Tail(args)) \subseteq A
    BY <1>3, <2>2, <2>3, BindingFound
  <2>5. TargetBinding(t, args) = IF Len(args) = 1 THEN Wrap(b) ELSE Component(b, Tail(args))
    BY <1>6 DEF TargetBinding
  <2>6. Len(args) = 1 \/ Len(args) > 1
    BY TailOfSteps
  <2> QED
    BY <2>4, <2>5, <2>6
<1> QED
  BY <1>4, <1>5, <1>6

LEMMA TargetAllowed ==
  ASSUME TypesKept, NEW t \in Nodes, Tree[t].tid = "Call_Expr",
         NEW args \in Seq(Step), args # << >>
  PROVE  Target(t, args) \subseteq Allowed(Self(t), args)
<1> DEFINE A == Allowed(Self(t), args)
<1>1. /\ t # 0 /\ args[1] \in Step /\ Self(t) \in Places /\ (Len(args) = 1 \/ Len(args) > 1)
      /\ ArgList(t) \in Nodes /\ Rule(t) \in Nodes /\ NameOf(t) \in Nodes \cup {0}
  BY SelfIsPlace, TailOfSteps, Grammar, Attributes
<1>2. /\ Is(args[1], OneBinding) \/ Is(args[1], AllBindings) =>
           Self(ArgList(t)) \in Select(Self(t), args[1])
      /\ Is(args[1], {"name", "key"}) /\ NameOf(t) # 0 => Self(NameOf(t)) \in Select(Self(t), args[1])
      /\ Is(args[1], {"rule"}) => Self(Rule(t)) \in Select(Self(t), args[1])
  <2>1. Is(args[1], OneBinding) \/ Is(args[1], AllBindings) => Is(args[1], OneBinding \cup AllBindings)
    BY DEF Is
  <2> QED
    BY <1>1, <2>1, SelectsOfTarget
<1>3. CASE Is(args[1], AllBindings) /\ Len(args) = 1
  <2>1. Target(t, args) = Wrap(ArgList(t))
    BY <1>1, <1>3 DEF Target, Is, OneBinding, AllBindings
  <2>2. Wrap(ArgList(t)) \subseteq A
    BY <1>1, <1>2, <1>3, FoundAllowed
  <2> QED
    BY <2>1, <2>2
<1>4. CASE Is(args[1], OneBinding)
  <2>1. ~Is(args[1], AllBindings) /\ ~Is(args[1], {"name", "key"}) /\ ~Is(args[1], {"rule"})
        /\ ~Is(args[1], {"arg-list"})
    BY <1>4 DEF Is, OneBinding, AllBindings
  <2>2. Target(t, args) = IF Len(args) = 1 THEN Wrap(ArgList(t)) ELSE TargetBinding(t, Tail(args))
    BY <1>1, <1>4, <2>1 DEF Target
  <2>3. Wrap(ArgList(t)) \subseteq A
    BY <1>1, <1>2, <1>4, FoundAllowed
  <2>4. Len(args) > 1 => TargetBinding(t, Tail(args)) \subseteq A
    <3> SUFFICES ASSUME Len(args) > 1 PROVE TargetBinding(t, Tail(args)) \subseteq A
      OBVIOUS
    <3>1. Tail(args) \in Seq(Step) /\ Tail(args) # << >>
      BY MoreSteps
    <3>2. TargetBinding(t, Tail(args)) \subseteq Allowed(Self(ArgList(t)), Tail(args))
      BY <3>1, TargetBindingAllowed
    <3>3. Self(ArgList(t)) \in Places
      BY <1>1, SelfIsPlace
    <3>4. Allowed(Self(ArgList(t)), Tail(args)) \subseteq A
      BY <1>1, <1>2, <1>4, <3>3, FurtherAllowed
    <3> QED
      BY <3>2, <3>4
  <2> QED
    BY <1>1, <2>2, <2>3, <2>4
<1>5. CASE Is(args[1], {"name", "key"})
  <2>1. ~Is(args[1], AllBindings) /\ ~Is(args[1], OneBinding) /\ ~Is(args[1], {"rule"})
        /\ ~Is(args[1], {"arg-list"})
    BY <1>5 DEF Is, OneBinding, AllBindings
  <2>2. Target(t, args) = Wrap(NameOf(t))
    BY <1>1, <1>5, <2>1 DEF Target
  <2> QED
    BY <1>1, <1>2, <1>5, <2>2, FoundAllowed
<1>6. CASE Is(args[1], {"rule"})
  <2>1. ~Is(args[1], AllBindings) /\ ~Is(args[1], OneBinding) /\ ~Is(args[1], {"name", "key"})
        /\ ~Is(args[1], {"arg-list"})
    BY <1>6 DEF Is, OneBinding, AllBindings
  <2>2. Target(t, args) = Wrap(Rule(t))
    BY <1>1, <1>6, <2>1 DEF Target
  <2> QED
    BY <1>1, <1>2, <1>6, <2>2, FoundAllowed
<1>7. CASE Is(args[1], {"arg-list"})
  <2>1. ~Is(args[1], AllBindings) /\ ~Is(args[1], OneBinding) /\ ~Is(args[1], {"name", "key"})
        /\ ~Is(args[1], {"rule"})
    BY <1>7 DEF Is, OneBinding, AllBindings
  <2>2. Target(t, args) = {R("nodes", Kids(ArgList(t)))}
    BY <1>1, <1>7, <2>1 DEF Target
  <2> QED
    BY <1>1, <2>2, NodeFacts, ListAllowed
<1>8. CASE /\ ~(Is(args[1], AllBindings) /\ Len(args) = 1) /\ ~Is(args[1], OneBinding)
           /\ ~Is(args[1], {"name", "key"}) /\ ~Is(args[1], {"rule"}) /\ ~Is(args[1], {"arg-list"})
  <2>1. Target(t, args) = CommonProperty(t, args[1])
    BY <1>1, <1>8 DEF Target
  <2> QED
    BY <1>1, <2>1, PropertyAllowed
<1> QED
  BY <1>3, <1>4, <1>5, <1>6, <1>7, <1>8

\* A target that the first step finds answers the rest of the steps.
LEMMA PkgTargetAllowed ==
  ASSUME TypesKept, NEW args \in Seq(Step), args # << >>
  PROVE  PkgTarget(args) \subseteq Allowed(Facet(Root, "targets"), args)
<1> DEFINE p == Facet(Root, "targets")
           t == IF args[1].kind = "str" THEN TargetNamed(args[1].s) ELSE At(Targets, KwIndex(args[1]))
<1>1. Error \subseteq Allowed(p, args) /\ Died \subseteq Allowed(p, args)
  BY BareAllowed
<1>2. /\ args[1] \in Step /\ p \in Places /\ Root \in Nodes /\ (Len(args) = 1 \/ Len(args) > 1)
      /\ Tail(args) \in Seq(Step) /\ KwIndex(args[1]) \in Int
  BY TailOfSteps, FacetIsPlace, NodeFacts, KwIndexInt
<1>3. t = 0 \/ \E k \in DOMAIN Targets : t = Targets[k]
  BY <1>2, ListsOfPackage, AtIs
<1>4. t # 0 => t \in Nodes /\ Tree[t].tid = "Call_Expr"
  BY <1>3, ListsOfPackage
<1>5. CASE (args[1].kind = "str" /\ t = 0) \/ (args[1].kind # "str" /\ ~IsIndex(args[1]))
  BY <1>1, <1>5 DEF PkgTarget
<1>6. CASE ~((args[1].kind = "str" /\ t = 0) \/ (args[1].kind # "str" /\ ~IsIndex(args[1])))
  <2>1. PkgTarget(args) = IF Len(args) = 1 THEN Wrap(t) ELSE Target(t, Tail(args))
    BY <1>6 DEF PkgTarget
  <2>2. t # 0 => Self(t) \in Select(p, args[1])
    BY <1>2, <1>6, SelectsFromFacet
  <2>3. Wrap(t) \subseteq Allowed(p, args)
    BY <1>2, <1>4, <2>2, FoundAllowed
  <2>4. CASE t = 0
    <3>1. Target(t, Tail(args)) = Died
      BY <2>4 DEF Target
    <3> QED
      BY <1>1, <2>1, <2>3, <3>1
  <2>5. CASE t # 0 /\ Len(args) > 1
    <3>1. Tail(args) # << >>
      BY <2>5, MoreSteps
    <3>2. Target(t, Tail(args)) \subseteq Allowed(Self(t), Tail(args))
      BY <1>2, <1>4, <2>5, <3>1, TargetAllowed
    <3>3. Self(t) \in Places
      BY <1>4, <2>5, SelfIsPlace
    <3>4. Allowed(Self(t), Tail(args)) \subseteq Allowed(p, args)
      BY <1>2, <2>2, <2>5, <3>3, FurtherAllowed
    <3> QED
      BY <2>1, <2>3, <3>2, <3>4
  <2>6. CASE Len(args) = 1
    BY <2>1, <2>3, <2>6
  <2> QED
    BY <1>2, <2>4, <2>5, <2>6
<1> QED
  BY <1>5, <1>6

-----------------------------------------------------------------------------
(***************************************************************************)
(* All targets: no node comes of these, only lists, or copies              *)
(***************************************************************************)
LEMMA FilteredIs ==
  ASSUME TypesKept, NEW filter
  PROVE  /\ Filtered(filter) \in Seq(Nodes)
         /\ \A k \in DOMAIN Filtered(filter) : Tree[Filtered(filter)[k]].tid = "Call_Expr"
<1>1. Targets \in Seq(Nodes) /\ \A k \in DOMAIN Targets : Tree[Targets[k]].tid = "Call_Expr"
  BY ListsOfPackage
<1>2. PICK S \in SUBSET DOMAIN Targets : S = {k \in DOMAIN Targets : Satisfies(Targets[k], filter)}
  OBVIOUS
<1>3. /\ Selected(Targets, S) \in Seq(Nodes)
      /\ \A k \in DOMAIN Selected(Targets, S) : \E j \in S : Selected(Targets, S)[k] = Targets[j]
  BY <1>1, PickIs
<1>4. Filtered(filter) = Selected(Targets, S)
  BY <1>2 DEF Filtered
<1> QED
  BY <1>1, <1>3, <1>4

LEMMA FilteredAtAllowed ==
  ASSUME NEW p, NEW steps, NEW found \in Seq(Nodes), NEW st \in Step,
         \A k \in DOMAIN found : Tree[found[k]].tid = "Call_Expr"
  PROVE  FilteredAt(found, st) \subseteq Allowed(p, steps)
<1> DEFINE A == Allowed(p, steps)
           index == KwIndex(st)
<1>1. Error \subseteq A /\ Null \subseteq A /\ Bare("wrapped_NULL") \in A
  BY BareAllowed DEF Shorts
<1>2. PICK i \in Int : i = index
  BY KwIndexInt
<1>3. PICK c \in Nat : c = Len(found)
  OBVIOUS
<1>4. IntMin \in Int /\ IntMin < -1
  BY IntMinAssumption
<1>5. CASE IsIndex(st) /\ i < 0 /\ CAbs(i) > c
  <2>1. ~(i >= c) /\ i # IntMin
    BY <1>4, <1>5 DEF CAbs
  <2>2. FilteredAt(found, st) = Null
    BY <1>2, <1>3, <1>5, <2>1 DEF FilteredAt
  <2> QED
    BY <1>1, <2>2
<1>6. CASE IsIndex(st) /\ i >= c
  <2>1. ~(i < 0) /\ i # IntMin
    BY <1>4, <1>6
  <2>2. FilteredAt(found, st) = Error
    BY <1>2, <1>3, <1>6, <2>1 DEF FilteredAt
  <2> QED
    BY <1>1, <2>2
<1>7. CASE ~IsIndex(st) \/ i = IntMin
  <2>1. ~(IsIndex(st) /\ i < 0 /\ CAbs(i) > c) /\ ~(IsIndex(st) /\ i >= c)
    BY <1>4, <1>7 DEF CAbs
  <2>2. FilteredAt(found, st) = {Bare("wrapped_NULL")}
    BY <1>2, <1>3, <1>7, <2>1 DEF FilteredAt
  <2> QED
    BY <1>1, <2>2
<1>8. CASE ~(~IsIndex(st) \/ i = IntMin) /\ ~(i < 0 /\ CAbs(i) > c) /\ ~(i >= c)
  <2>1. FilteredAt(found, st) = {R("copy", <<At(found, i)>>)}
    BY <1>2, <1>3, <1>8 DEF FilteredAt
  <2>2. Normalize(c, i) + 1 \in 1 .. c
    BY <1>8 DEF Normalize, CAbs
  <2>3. At(found, i) \in Nodes /\ Tree[At(found, i)].tid = "Call_Expr"
    BY <1>3, <2>2 DEF At
  <2> QED
    BY <2>1, <2>3, OneAllowed
<1> QED
  BY <1>5, <1>6, <1>7, <1>8

LEMMA AllNamedIs ==
  ASSUME TypesKept, NEW name, NEW part PROVE AllNamed(name, part) \in Seq(Nodes)
<1>1. Targets \in Seq(Nodes)
  BY ListsOfPackage
<1>2. PICK S \in SUBSET DOMAIN Targets :
        S = {k \in DOMAIN Targets : Keyed(Bindings(Targets[k]), name) # 0}
  OBVIOUS
<1>3. PICK h : h = Holders(name)
  OBVIOUS
<1>4. h \in Seq(Nodes) /\ \A k \in DOMAIN h : \E j \in S : h[k] = Targets[j]
  <2>1. /\ Selected(Targets, S) \in Seq(Nodes)
        /\ \A k \in DOMAIN Selected(Targets, S) : \E j \in S : Selected(Targets, S)[k] = Targets[j]
    BY <1>1, PickIs
  <2>2. h = Selected(Targets, S)
    BY <1>2, <1>3 DEF Holders
  <2> QED
    BY <2>1, <2>2
<1> DEFINE b(k) == Keyed(Bindings(h[k]), name)
           named == [k \in DOMAIN h |-> CASE part = "key" -> Key(b(k))
                                          [] part = "value" -> Val(b(k)) [] OTHER -> b(k)]
<1>5. ASSUME NEW k \in DOMAIN h
      PROVE  b(k) \in Nodes /\ Key(b(k)) \in Nodes /\ Val(b(k)) \in Nodes
  <2>1. PICK j \in S : h[k] = Targets[j]
    BY <1>4
  <2>2. Keyed(Bindings(h[k]), name) # 0 /\ j \in DOMAIN Targets
    BY <1>2, <2>1
  <2>3. h[k] \in Nodes /\ Tree[h[k]].tid = "Call_Expr"
    BY <2>1, <2>2, ListsOfPackage
  <2>4. /\ Bindings(h[k]) \in Seq(Nodes)
        /\ \A i \in DOMAIN Bindings(h[k]) : /\ Bindings(h[k])[i] \in Nodes
                                            /\ Tree[Bindings(h[k])[i]].tid = "Binding"
    BY <2>3, Attributes
  <2>5. \E i \in DOMAIN Bindings(h[k]) : b(k) = Bindings(h[k])[i]
    BY <2>2, <2>4, KeyedIs
  <2>6. b(k) \in Nodes /\ Tree[b(k)].tid = "Binding"
    BY <2>4, <2>5
  <2> QED
    BY <2>6, Grammar
<1>6. \A k \in DOMAIN h : named[k] \in Nodes
  <2> HIDE DEF b
  <2> QED
    BY <1>5
<1>7. DOMAIN h = 1 .. Len(h) /\ Len(h) \in Nat
  BY <1>4
<1>8. named \in Seq(Nodes)
  <2>1. DOMAIN named = 1 .. Len(h)
    BY <1>7
  <2>2. named \in [1 .. Len(h) -> Nodes]
    BY <1>6, <1>7, <2>1
  <2> QED
    BY <1>7, <2>2, SeqDef
<1>9. AllNamed(name, part) = named
  BY <1>3 DEF AllNamed
<1> QED
  BY <1>8, <1>9

LEMMA ForAllBindingsAllowed ==
  ASSUME TypesKept, NEW p, NEW steps, NEW args \in Seq(Step)
  PROVE  ForAllBindings(args) \subseteq Allowed(p, steps)
<1> DEFINE A == Allowed(p, steps)
           Named(part) == R("copies", AllNamed(args[1].s, part))
           ss == [k \in DOMAIN Targets |-> Bindings(Targets[k])]
<1>1. \A part : Named(part) \in A
  BY AllNamedIs, ListAllowed
<1>2. Bare("unspecified") \in A /\ R("copies", << >>) \in A
  <2>1. << >> \in Seq(Nodes)
    OBVIOUS
  <2> QED
    BY <2>1, BareAllowed, ListAllowed DEF Shorts
<1>3. R("copies", FlattenSeq(ss)) \in A
  <2>1. Targets \in Seq(Nodes) /\ DOMAIN Targets = 1 .. Len(Targets) /\ Len(Targets) \in Nat
    BY ListsOfPackage
  <2>2. \A k \in DOMAIN Targets : Bindings(Targets[k]) \in Seq(Nodes)
    BY ListsOfPackage, Attributes
  <2>3. ss \in [1 .. Len(Targets) -> Seq(Nodes)]
    BY <2>1, <2>2
  <2>4. ss \in Seq(Seq(Nodes))
    BY <2>1, <2>3, SeqDef
  <2>5. FlattenSeq(ss) \in Seq(Nodes)
    BY <2>4, FlattenType
  <2> QED
    BY <2>5, ListAllowed
<1> HIDE DEF Named, ss
<1>4. CASE args = << >>
  <2>1. ForAllBindings(args) = {R("copies", FlattenSeq(ss))}
    BY <1>4 DEF ForAllBindings, ss
  <2> QED
    BY <1>3, <2>1
<1>5. CASE args # << >>
  <2>1. CASE Len(args) \in {1, 2} /\ IsKw(args[1])
    <3>1. args[1].kind # "sym"
      BY <2>1 DEF IsKw
    <3>2. ForAllBindings(args) = {R("copies", << >>)}
      BY <1>5, <2>1, <3>1 DEF ForAllBindings
    <3> QED
      BY <1>2, <3>2
  <2>2. CASE Len(args) = 1 /\ args[1].kind = "sym"
    <3>1. ~IsKw(args[1]) /\ Len(args) # 2
      BY <2>2 DEF IsKw
    <3>2. ForAllBindings(args) = {Named(part) : part \in {"key", "value", "binding"}}
      BY <1>5, <2>2, <3>1 DEF ForAllBindings, Named
    <3> QED
      BY <1>1, <3>2
  <2>3. CASE Len(args) = 2 /\ args[1].kind = "sym"
    <3>1. ~IsKw(args[1]) /\ Len(args) # 1
      BY <2>3 DEF IsKw
    <3>2. ForAllBindings(args) =
            {Named(IF Is(args[2], {"key"}) THEN "key"
                   ELSE IF Is(args[2], ValueOps) THEN "value" ELSE "binding")}
      BY <1>5, <2>3, <3>1 DEF ForAllBindings, Named
    <3> QED
      BY <1>1, <3>2
  <2>4. CASE /\ ~(Len(args) \in {1, 2} /\ IsKw(args[1])) /\ ~(Len(args) = 1 /\ args[1].kind = "sym")
             /\ ~(Len(args) = 2 /\ args[1].kind = "sym")
    <3>1. ForAllBindings(args) = {Bare("unspecified")}
      BY <1>5, <2>4 DEF ForAllBindings
    <3> QED
      BY <1>2, <3>1
  <2> QED
    BY <2>1, <2>2, <2>3, <2>4
<1> QED
  BY <1>4, <1>5

LEMMA ForAllTargetsAllowed ==
  ASSUME TypesKept, NEW p, NEW steps, NEW args \in Seq(Step)
  PROVE  ForAllTargets(args) \subseteq Allowed(p, steps)
<1> DEFINE A == Allowed(p, steps)
<1>1. R("copies", Targets) \in A /\ Error \subseteq A
  BY ListsOfPackage, ListAllowed, BareAllowed
<1>2. \A filter : R("copies", Filtered(filter)) \in A
  BY FilteredIs, ListAllowed
<1>3. CASE args = << >>
  BY <1>1, <1>3 DEF ForAllTargets
<1>4. CASE args # << >>
  <2>1. args[1] \in Step /\ Tail(args) \in Seq(Step)
    BY <1>4, TailOfSteps
  <2>2. CASE Is(args[1], AllBindings)
    <3>1. ForAllTargets(args) = ForAllBindings(Tail(args))
      BY <1>4, <2>2 DEF ForAllTargets, Is
    <3> QED
      BY <2>1, <3>1, ForAllBindingsAllowed
  <2>3. CASE args[1].kind = "sym"
    <3>1. ForAllTargets(args) = {R("copies", Filtered(<<args[1]>>))}
      BY <1>4, <2>3 DEF ForAllTargets, Is
    <3> QED
      BY <1>2, <3>1
  <2>4. CASE args[1].kind = "list"
    <3>1. ForAllTargets(args) =
            IF Len(args) = 2 THEN FilteredAt(Filtered(Filters[args[1].n]), args[2])
            ELSE {R("copies", Filtered(Filters[args[1].n]))}
      BY <1>4, <2>4 DEF ForAllTargets, Is
    <3>2. CASE Len(args) = 2
      <4>1. Len(args) > 1
        BY <3>2
      <4>2. args[2] \in Step
        BY <4>1, MoreSteps
      <4> QED
        BY <3>1, <3>2, <4>2, FilteredIs, FilteredAtAllowed
    <3>3. CASE Len(args) # 2
      BY <1>2, <3>1, <3>3
    <3> QED
      BY <3>2, <3>3
  <2>5. CASE ~Is(args[1], AllBindings) /\ args[1].kind # "sym" /\ args[1].kind # "list"
    BY <1>1, <1>4, <2>5 DEF ForAllTargets
  <2> QED
    BY <2>2, <2>3, <2>4, <2>5
<1> QED
  BY <1>3, <1>4

-----------------------------------------------------------------------------
(***************************************************************************)
(* Load statements                                                         *)
(***************************************************************************)
LEMMA LoadArgAllowed ==
  ASSUME TypesKept, NEW l \in Nodes, Tree[l].tid = "Load_Stmt",
         NEW args \in Seq(Step), args # << >>
  PROVE  LoadArg(l, args) \subseteq Allowed(Facet(l, "args"), args)
<1> DEFINE p == Facet(l, "args")
           A == Allowed(p, args)
           arg == IF args[1].kind = "str"
                  THEN FirstOf(WithText(LoadArgs(l), "STRING", args[1].s))
                  ELSE At(LoadArgs(l), KwIndex(args[1]))
<1>1. Null \subseteq A /\ Died \subseteq A
  BY BareAllowed
<1>2. args[1] \in Step /\ p \in Places /\ (Len(args) = 1 \/ Len(args) > 1)
  BY TailOfSteps, FacetIsPlace
<1>3. /\ LoadArgs(l) \in Seq(Nodes) /\ KwIndex(args[1]) \in Int
      /\ \A k \in DOMAIN LoadArgs(l) : LoadArgs(l)[k] \in Nodes
  BY <1>2, ListsOfLoad, KwIndexInt
<1>4. arg = 0 \/ \E k \in DOMAIN LoadArgs(l) : arg = LoadArgs(l)[k]
  BY <1>3, WithTextIs, AtIs
<1>5. arg \in Nodes \cup {0}
  BY <1>3, <1>4
<1>6. CASE args[1].kind = "str" \/ IsIndex(args[1])
  <2>1. arg # 0 => Self(arg) \in Select(p, args[1])
    BY <1>2, <1>6, SelectsFromFacet DEF IsIndex
  <2>2. Wrap(arg) \subseteq A
    BY <1>2, <1>5, <2>1, FoundAllowed
  <2>3. Len(args) > 1 => CommonProperty(arg, args[2]) \subseteq A
    <3>1. Len(args) > 1 => args[2] \in Step
      BY MoreSteps
    <3>2. CASE arg = 0
      BY <1>1, <3>2 DEF CommonProperty
    <3>3. CASE arg # 0
      BY <1>5, <3>1, <3>3, PropertyAllowed
    <3> QED
      BY <3>2, <3>3
  <2>4. ~(IsKw(args[1]) /\ ~IsKwIndex(args[1]))
    BY <1>6 DEF IsKw, IsKwIndex, IsIndex
  <2>5. LoadArg(l, args) =
          CASE Len(args) = 1 -> IF arg = 0 THEN Null ELSE Wrap(arg)
            [] Len(args) = 2 /\ IsKw(args[2]) -> CommonProperty(arg, args[2])
            [] OTHER -> Null
    BY <1>6, <2>4 DEF LoadArg
  <2> HIDE DEF arg
  <2>6. CASE Len(args) = 1
    BY <1>1, <2>2, <2>5, <2>6
  <2>7. CASE Len(args) = 2 /\ IsKw(args[2])
    <3>1. Len(args) > 1
      BY <2>7
    <3>2. LoadArg(l, args) = CommonProperty(arg, args[2])
      BY <2>5, <2>7
    <3> QED
      BY <2>3, <3>1, <3>2
  <2>8. CASE ~(Len(args) = 1) /\ ~(Len(args) = 2 /\ IsKw(args[2]))
    BY <1>1, <2>5, <2>8
  <2> QED
    BY <2>6, <2>7, <2>8
<1>7. CASE IsKw(args[1]) /\ ~IsKwIndex(args[1])
  <2>1. ~(args[1].kind = "str" \/ IsIndex(args[1]))
    BY <1>7 DEF IsKw, IsKwIndex, IsIndex
  <2>2. LoadArg(l, args) = CommonProperty(l, args[1])
    BY <1>7, <2>1 DEF LoadArg
  <2> QED
    BY <1>2, <2>2, PropertyAllowed
<1>8. CASE ~(args[1].kind = "str" \/ IsIndex(args[1])) /\ ~(IsKw(args[1]) /\ ~IsKwIndex(args[1]))
  BY <1>1, <1>8 DEF LoadArg
<1> QED
  BY <1>6, <1>7, <1>8

LEMMA LoadBindingAllowed ==
  ASSUME TypesKept, NEW l \in Nodes, Tree[l].tid = "Load_Stmt",
         NEW args \in Seq(Step), args # << >>
  PROVE  LoadBinding(l, args) \subseteq Allowed(Facet(l, "bindings"), args)
<1> DEFINE p == Facet(l, "bindings")
           A == Allowed(p, args)
           bs == LoadBindings(l)
           b == CASE IsIndex(args[1])     -> At(bs, KwIndex(args[1]))
                  [] args[1].kind = "sym" -> Keyed(bs, args[1].s)
                  [] OTHER                -> 0
<1>1. Null \subseteq A
  BY BareAllowed
<1>2. args[1] \in Step /\ p \in Places
  BY TailOfSteps, FacetIsPlace
<1>3. /\ bs \in Seq(Nodes) /\ KwIndex(args[1]) \in Int
      /\ \A k \in DOMAIN bs : bs[k] \in Nodes /\ Tree[bs[k]].tid = "Binding"
  BY <1>2, ListsOfLoad, KwIndexInt
<1>4. /\ b = 0 \/ \E k \in DOMAIN bs : b = bs[k]
      /\ b # 0 => Self(b) \in Select(p, args[1])
  <2>1. CASE IsIndex(args[1])
    <3>1. b = At(bs, KwIndex(args[1]))
      BY <2>1 DEF IsIndex
    <3> QED
      BY <1>2, <1>3, <2>1, <3>1, AtIs, SelectsFromFacet
  <2>2. CASE args[1].kind = "sym"
    <3>1. b = Keyed(bs, args[1].s)
      BY <2>2 DEF IsIndex
    <3> QED
      BY <1>2, <1>3, <2>2, <3>1, KeyedIs, SelectsFromFacet
  <2>3. CASE ~IsIndex(args[1]) /\ args[1].kind # "sym"
    BY <2>3
  <2> QED
    BY <2>1, <2>2, <2>3
<1>5. LoadBinding(l, args) =
        CASE b = 0 -> Null
          [] b # 0 /\ Len(args) = 1 -> Wrap(b)
          [] b # 0 /\ Len(args) = 2 /\ IsIndex(args[1]) /\ Is(args[2], {"key", "value"}) ->
               Binding(b, <<args[2]>>)
          [] b # 0 /\ Len(args) = 2 /\ args[1].kind = "sym" /\ Is(args[2], {"key"}) -> Binding(b, << >>)
          [] b # 0 /\ Len(args) = 2 /\ IsKw(args[2]) /\ ~Is(args[2], {"key"})
               /\ ~(IsIndex(args[1]) /\ Is(args[2], {"value"})) ->
               CommonProperty(b, args[2])
          [] OTHER -> Null
  BY DEF LoadBinding
<1> HIDE DEF b
<1>6. CASE b = 0
  BY <1>1, <1>5, <1>6
<1>7. CASE b # 0
  <2>1. b \in Nodes /\ Tree[b].tid = "Binding" /\ Self(b) \in Select(p, args[1])
    BY <1>3, <1>4, <1>7
  <2>2. Wrap(b) \subseteq A /\ Binding(b, Tail(args)) \subseteq A
    BY <1>2, <2>1, BindingFound
  <2>3. Binding(b, << >>) = Wrap(b)
    BY DEF Binding
  <2>4. CASE Len(args) = 1
    BY <1>5, <1>7, <2>2, <2>4
  <2>5. CASE Len(args) = 2
    <3>1. Len(args) > 1
      BY <2>5
    <3>2. /\ args[2] \in Step /\ Tail(args) \in Seq(Step) /\ Tail(args)[1] = args[2]
          /\ Len(Tail(args)) = 1
      BY <2>5, <3>1, MoreSteps
    <3>3. Tail(args) = <<args[2]>>
      <4>1. PICK t \in Seq(Step) : t = Tail(args)
        BY <3>2
      <4>2. Len(t) = 1 /\ t[1] = args[2]
        BY <3>2, <4>1
      <4>3. t = <<args[2]>>
        BY <4>2
      <4> QED
        BY <4>1, <4>3
    <3>4. CommonProperty(b, args[2]) \subseteq A
      BY <2>1, <3>2, PropertyAllowed
    <3>5. Binding(b, <<args[2]>>) \subseteq A
      BY <2>2, <3>3
    <3>6. Len(args) # 1
      BY <2>5
    <3>7. CASE IsIndex(args[1]) /\ Is(args[2], {"key", "value"})
      <4>1. args[1].kind # "sym"
        BY <3>7 DEF IsIndex
      <4>2. \/ LoadBinding(l, args) = Binding(b, <<args[2]>>)
            \/ LoadBinding(l, args) = CommonProperty(b, args[2])
        BY <1>5, <1>7, <2>5, <3>6, <3>7, <4>1
      <4> QED
        BY <3>4, <3>5, <4>2
    <3>8. CASE args[1].kind = "sym" /\ Is(args[2], {"key"})
      <4>1. ~IsIndex(args[1])
        BY <3>8 DEF IsIndex
      <4>2. LoadBinding(l, args) = Wrap(b)
        BY <1>5, <1>7, <2>3, <2>5, <3>6, <3>8, <4>1
      <4> QED
        BY <2>2, <4>2
    <3>9. CASE /\ ~(IsIndex(args[1]) /\ Is(args[2], {"key", "value"}))
               /\ ~(args[1].kind = "sym" /\ Is(args[2], {"key"}))
      <4>1. LoadBinding(l, args) = CommonProperty(b, args[2]) \/ LoadBinding(l, args) = Null
        BY <1>5, <1>7, <2>5, <3>6, <3>9
      <4> QED
        BY <1>1, <3>4, <4>1
    <3> QED
      BY <3>7, <3>8, <3>9
  <2>6. CASE Len(args) # 1 /\ Len(args) # 2
    BY <1>1, <1>5, <1>7, <2>6
  <2> QED
    BY <2>4, <2>5, <2>6
<1> QED
  BY <1>6, <1>7

LEMMA LoadAllowed ==
  ASSUME TypesKept, NEW l \in Nodes, Tree[l].tid = "Load_Stmt",
         NEW args \in Seq(Step), args # << >>
  PROVE  Load(l, args) \subseteq Allowed(Self(l), args)
<1> DEFINE A == Allowed(Self(l), args)
           words == {"arg", "args", "key"} \cup OneBinding \cup AllBindings
<1>1. Error \subseteq A /\ Null \subseteq A
  BY BareAllowed
<1>2. /\ args[1] \in Step /\ Self(l) \in Places /\ (Len(args) = 1 \/ Len(args) > 1)
      /\ Tail(args) \in Seq(Step) /\ Key(l) \in Nodes
      /\ Facet(l, "args") \in Places /\ Facet(l, "bindings") \in Places
  BY TailOfSteps, SelfIsPlace, Grammar, FacetIsPlace
<1>3. R("copies", LoadArgs(l)) \in A /\ R("copies", LoadBindings(l)) \in A
  BY ListsOfLoad, ListAllowed
<1>4. Len(args) > 1 => Tail(args) # << >>
  BY MoreSteps
<1>5. CASE Is(args[1], {"arg"})
  <2>1. Load(l, args) = IF Len(args) = 1 THEN {R("copies", LoadArgs(l))} ELSE LoadArg(l, Tail(args))
    BY <1>5 DEF Load, Is, OneBinding, AllBindings
  <2>2. Len(args) > 1 => LoadArg(l, Tail(args)) \subseteq Allowed(Facet(l, "args"), Tail(args))
    BY <1>2, <1>4, LoadArgAllowed
  <2>3. Facet(l, "args") \in Select(Self(l), args[1])
    BY <1>2, <1>5, SelectsFacet
  <2>4. Allowed(Facet(l, "args"), Tail(args)) \subseteq A
    BY <1>2, <2>3, FurtherAllowed
  <2> QED
    BY <1>2, <1>3, <2>1, <2>2, <2>4
<1>6. CASE Is(args[1], {"args"})
  <2>1. Load(l, args) = IF Len(args) = 1 THEN {R("copies", LoadArgs(l))} ELSE Null
    BY <1>6 DEF Load, Is, OneBinding, AllBindings
  <2> QED
    BY <1>1, <1>3, <2>1
<1>7. CASE Is(args[1], AllBindings)
  <2>1. Load(l, args) = IF Len(args) = 1 THEN {R("copies", LoadBindings(l))} ELSE Null
    BY <1>7 DEF Load, Is, OneBinding, AllBindings
  <2> QED
    BY <1>1, <1>3, <2>1
<1>8. CASE Is(args[1], OneBinding)
  <2>1. Load(l, args) = IF Len(args) = 1 THEN Null ELSE LoadBinding(l, Tail(args))
    BY <1>8 DEF Load, Is, OneBinding, AllBindings
  <2>2. Len(args) > 1 => LoadBinding(l, Tail(args)) \subseteq Allowed(Facet(l, "bindings"), Tail(args))
    BY <1>2, <1>4, LoadBindingAllowed
  <2>3. Facet(l, "bindings") \in Select(Self(l), args[1])
    BY <1>2, <1>8, SelectsFacet
  <2>4. Allowed(Facet(l, "bindings"), Tail(args)) \subseteq A
    BY <1>2, <2>3, FurtherAllowed
  <2> QED
    BY <1>1, <1>2, <2>1, <2>2, <2>4
<1>9. CASE Is(args[1], {"key"})
  <2>1. Load(l, args) = IF Len(args) = 1 THEN Wrap(Key(l)) ELSE Error
    BY <1>9 DEF Load, Is, OneBinding, AllBindings
  <2>2. Self(Key(l)) \in Select(Self(l), args[1])
    BY <1>2, <1>9, SelectsFacet
  <2>3. Wrap(Key(l)) \subseteq A
    BY <1>2, <2>2, FoundAllowed
  <2> QED
    BY <1>1, <2>1, <2>3
<1>10. CASE IsKw(args[1]) /\ ~Is(args[1], words)
  <2>1. /\ ~Is(args[1], {"arg"}) /\ ~Is(args[1], {"args"}) /\ ~Is(args[1], {"key"})
        /\ ~Is(args[1], OneBinding) /\ ~Is(args[1], AllBindings)
    BY <1>10 DEF Is
  <2>2. Load(l, args) = CommonProperty(l, args[1])
    BY <1>10, <2>1 DEF Load
  <2> QED
    BY <1>2, <2>2, PropertyAllowed
<1>11. CASE /\ ~Is(args[1], {"arg"}) /\ ~Is(args[1], {"args"}) /\ ~Is(args[1], {"key"})
            /\ ~Is(args[1], OneBinding) /\ ~Is(args[1], AllBindings)
            /\ ~(IsKw(args[1]) /\ ~Is(args[1], words))
  BY <1>1, <1>11 DEF Load
<1> QED
  BY <1>5, <1>6, <1>7, <1>8, <1>9, <1>10, <1>11

LEMMA PkgLoadAllowed ==
  ASSUME TypesKept, NEW args \in Seq(Step)
  PROVE  PkgLoad(args) \subseteq Allowed(Facet(Root, "loads"), args)
<1> DEFINE p == Facet(Root, "loads")
           A == Allowed(p, args)
           l == IF args = << >> THEN 0
                ELSE IF args[1].kind = "str" THEN Keyed(Loads, args[1].s)
                ELSE IF IsIndex(args[1]) THEN At(Loads, KwIndex(args[1])) ELSE 0
<1>1. Null \subseteq A
  BY BareAllowed
<1>2. PkgLoad(args) = IF l = 0 THEN Null ELSE IF Len(args) = 1 THEN Wrap(l) ELSE Load(l, Tail(args))
  BY DEF PkgLoad
<1>3. CASE l = 0
  BY <1>1, <1>2, <1>3
<1>4. CASE l # 0
  <2>1. args # << >>
    BY <1>4
  <2>2. /\ args[1] \in Step /\ p \in Places /\ Root \in Nodes /\ (Len(args) = 1 \/ Len(args) > 1)
        /\ Tail(args) \in Seq(Step) /\ KwIndex(args[1]) \in Int
    BY <2>1, TailOfSteps, FacetIsPlace, NodeFacts, KwIndexInt
  <2>3. \E k \in DOMAIN Loads : l = Loads[k]
    BY <1>4, <2>2, ListsOfPackage, AtIs, KeyedIs
  <2>4. l \in Nodes /\ Tree[l].tid = "Load_Stmt" /\ Self(l) \in Places
    BY <2>3, ListsOfPackage, SelfIsPlace
  <2>5. Self(l) \in Select(p, args[1])
    BY <1>4, <2>2, SelectsFromFacet
  <2>6. Wrap(l) \subseteq A
    BY <2>1, <2>2, <2>4, <2>5, FoundAllowed
  <2>7. Len(args) > 1 => Load(l, Tail(args)) \subseteq A
    <3> SUFFICES ASSUME Len(args) > 1 PROVE Load(l, Tail(args)) \subseteq A
      OBVIOUS
    <3> HIDE DEF l
    <3>1. Tail(args) # << >>
      BY MoreSteps
    <3>2. Load(l, Tail(args)) \subseteq Allowed(Self(l), Tail(args))
      BY <2>2, <2>4, <3>1, LoadAllowed
    <3>3. Allowed(Self(l), Tail(args)) \subseteq A
      BY <2>1, <2>2, <2>4, <2>5, FurtherAllowed
    <3> QED
      BY <3>2, <3>3
  <2> HIDE DEF l
  <2> QED
    BY <1>2, <1>4, <2>2, <2>6, <2>7
<1> QED
  BY <1>3, <1>4

-----------------------------------------------------------------------------
(***************************************************************************)
(* The package, and the dispatchers together                               *)
(***************************************************************************)
LEMMA PackageAllowed ==
  ASSUME TypesKept, NEW args \in Seq(Step), args # << >>
  PROVE  Package(args) \subseteq Allowed(Self(Root), args)
<1> DEFINE A == Allowed(Self(Root), args)
           words == {">>", "targets", ">", "target", "load", "loadstmts", "package", "format",
                     "filename", "save"}
<1>1. /\ Error \subseteq A /\ Died \subseteq A /\ Bare("nil") \in A /\ Bare("unspecified") \in A
      /\ Property(Root) \subseteq A
  BY BareAllowed, OneAllowed, NodeFacts DEF Shorts
<1>2. /\ args[1] \in Step /\ Self(Root) \in Places /\ Root \in Nodes /\ (Len(args) = 1 \/ Len(args) > 1)
      /\ Tail(args) \in Seq(Step) /\ Tree[Root].tid = "Package"
      /\ Facet(Root, "targets") \in Places /\ Facet(Root, "loads") \in Places
  BY TailOfSteps, SelfIsPlace, FacetIsPlace, NodeFacts, TreeAssumption
<1>3. CASE ~IsKw(args[1])
  BY <1>1, <1>3 DEF Package, Is, IsKw
<1>4. CASE Is(args[1], {">>", "targets"})
  <2>1. Package(args) = ForAllTargets(Tail(args))
    BY <1>4 DEF Package, Is, IsKw
  <2> QED
    BY <1>2, <2>1, ForAllTargetsAllowed
<1>5. CASE Is(args[1], {">", "target"})
  <2>1. Package(args) = IF Len(args) = 1 THEN Error ELSE PkgTarget(Tail(args))
    BY <1>5 DEF Package, Is, IsKw
  <2>2. Len(args) > 1 => PkgTarget(Tail(args)) \subseteq Allowed(Facet(Root, "targets"), Tail(args))
    BY <1>2, MoreSteps, PkgTargetAllowed
  <2>3. Facet(Root, "targets") \in Select(Self(Root), args[1])
    BY <1>2, <1>5, SelectsFacet
  <2>4. Allowed(Facet(Root, "targets"), Tail(args)) \subseteq A
    BY <1>2, <2>3, FurtherAllowed
  <2> QED
    BY <1>1, <1>2, <2>1, <2>2, <2>4
<1>6. CASE Is(args[1], {"load"})
  <2>1. Package(args) = OrError(PkgLoad(Tail(args)))
    BY <1>6 DEF Package, Is, IsKw
  <2>2. PkgLoad(Tail(args)) \subseteq Allowed(Facet(Root, "loads"), Tail(args))
    BY <1>2, PkgLoadAllowed
  <2>3. Facet(Root, "loads") \in Select(Self(Root), args[1])
    BY <1>2, <1>6, SelectsFacet
  <2>4. Allowed(Facet(Root, "loads"), Tail(args)) \subseteq A
    BY <1>2, <2>3, FurtherAllowed
  <2>5. PkgLoad(Tail(args)) \in SUBSET A
    BY <2>2, <2>4
  <2> QED
    BY <2>1, <2>5, OrErrorAllowed
<1>7. CASE Is(args[1], {"loadstmts"})
  <2>1. Package(args) = {R("copies", Loads)}
    BY <1>7 DEF Package, Is, IsKw
  <2> QED
    BY <2>1, ListsOfPackage, ListAllowed
<1>8. CASE Is(args[1], {"package"})
  <2>1. PICK S \in SUBSET DOMAIN Calls : S = {k \in DOMAIN Calls : Str(Rule(Calls[k])) = "package"}
    OBVIOUS
  <2>2. PICK procs : procs = WithRule("package")
    OBVIOUS
  <2>3. procs = Selected(Calls, S)
    BY <2>1, <2>2 DEF WithRule
  <2>4. /\ procs \in Seq(Nodes)
        /\ \A k \in DOMAIN procs : Tree[procs[k]].tid = "Call_Expr"
    <3>1. Calls \in Seq(Nodes) /\ \A k \in DOMAIN Calls : Tree[Calls[k]].tid = "Call_Expr"
      BY ListsOfPackage
    <3>2. procs \in Seq(Nodes) /\ \A k \in DOMAIN procs : \E j \in S : procs[k] = Calls[j]
      BY <2>3, <3>1, PickIs
    <3> QED
      BY <3>1, <3>2
  <2>5. Package(args) = IF Len(procs) = 1 THEN {R("copy", procs)} ELSE {Bare("nil")}
    BY <1>8, <2>2 DEF Package, Is, IsKw
  <2>6. Len(procs) = 1 => R("copy", procs) \in A
    <3> SUFFICES ASSUME Len(procs) = 1 PROVE R("copy", procs) \in A
      OBVIOUS
    <3>1. procs # << >>
      BY EmptySeq
    <3>2. 1 \in DOMAIN procs
      BY <2>4
    <3> QED
      BY <2>4, <3>1, <3>2 DEF R, Allowed, Outcomes, Result
  <2> QED
    BY <1>1, <2>5, <2>6
<1>9. CASE Is(args[1], {"format"})
  BY <1>1, <1>9 DEF Package, Is, IsKw
<1>10. CASE Is(args[1], {"filename"})
  BY <1>1, <1>10 DEF Package, Is, IsKw
<1>11. CASE Is(args[1], {"save"})
  BY <1>1, <1>11 DEF Package, Is, IsKw
<1>12. CASE IsKw(args[1]) /\ ~Is(args[1], words)
  <2>1. /\ ~Is(args[1], {">>", "targets"}) /\ ~Is(args[1], {">", "target"}) /\ ~Is(args[1], {"load"})
        /\ ~Is(args[1], {"loadstmts"}) /\ ~Is(args[1], {"package"}) /\ ~Is(args[1], {"format"})
        /\ ~Is(args[1], {"filename"}) /\ ~Is(args[1], {"save"})
    BY <1>12 DEF Is
  <2>2. Package(args) = CommonProperty(Root, args[1])
    BY <1>12, <2>1 DEF Package
  <2> QED
    BY <1>2, <2>2, PropertyAllowed
<1> QED
  BY <1>3, <1>4, <1>5, <1>6, <1>7, <1>8, <1>9, <1>10, <1>11, <1>12 DEF Is

\* What a dispatcher gives and what is put in place of the NULLs.
LEMMA OrCommonAllowed ==
  ASSUME NEW n \in Nodes, NEW args \in Seq(Step), args # << >>,
         NEW results \in SUBSET Allowed(Self(n), args)
  PROVE  UNION {IF r.is = "NULL" THEN CommonProperty(n, args[1]) ELSE {r} : r \in results}
           \subseteq Allowed(Self(n), args)
<1>1. CommonProperty(n, args[1]) \subseteq Allowed(Self(n), args)
  BY PropertyAllowed, TailOfSteps
<1> QED
  BY <1>1

LEMMA LeafAllowed ==
  ASSUME NEW n \in Nodes, NEW args \in Seq(Step), args # << >>
  PROVE  Leaf(n, args) \subseteq Allowed(Self(n), args)
<1>1. args[1] \in Step
  BY TailOfSteps
<1> QED
  BY <1>1, OneAllowed, PropertyAllowed DEF Leaf

\* Whatever dispatcher a call reaches, it keeps to the path.
LEMMA ByTypeAllowed ==
  ASSUME TypesKept, NEW n \in Nodes, NEW args \in Seq(Step), args # << >>
  PROVE  ByType(n, args) \subseteq Allowed(Self(n), args)
<1> DEFINE A == Allowed(Self(n), args)
           OrCommon(results) ==
             UNION {IF r.is = "NULL" THEN CommonProperty(n, args[1]) ELSE {r} : r \in results}
           IfPredicate(results) == IF IsPredicate(args[1]) THEN Property(n) ELSE results
<1>1. Property(n) \subseteq A
  BY OneAllowed
<1>2. ASSUME NEW results \in SUBSET A PROVE IfPredicate(results) \subseteq A
  BY <1>1
<1>3. ASSUME NEW results \in SUBSET A PROVE OrCommon(results) \subseteq A
  BY OrCommonAllowed
<1>4. tid[n] \in Tids /\ (tid[n] # "List_Expr" => tid[n] = Tree[n].tid)
  BY DEF TypesKept
<1>5. ByType(n, args) =
        CASE tid[n] = "Package"    -> Package(args)
          [] tid[n] = "Load_Stmt"  -> Load(n, args)
          [] tid[n] = "Call_Expr"  -> IfPredicate(Target(n, args))
          [] tid[n] = "Arg_List"   -> BindingsList(n, args)
          [] tid[n] = "Binding"    -> IfPredicate(OrError(Binding(n, args)))
          [] tid[n] = "Dict_Entry" -> OrCommon(DictEntry(n, args))
          [] tid[n] = "Dict_Expr"  -> DictExpr(n, args)
          [] tid[n] = "List_Expr"  -> OrCommon(Vector(n, args))
          [] OTHER                 -> Leaf(n, args)
  BY DEF ByType
<1> HIDE DEF OrCommon, IfPredicate
<1>6. CASE tid[n] = "Package"
  <2>1. ByType(n, args) = Package(args)
    BY <1>5, <1>6
  <2>2. n = Root
    BY <1>4, <1>6, TreeAssumption
  <2> QED
    BY <2>1, <2>2, PackageAllowed
<1>7. CASE tid[n] = "Load_Stmt"
  <2>1. ByType(n, args) = Load(n, args)
    BY <1>5, <1>7
  <2>2. Tree[n].tid = "Load_Stmt"
    BY <1>4, <1>7
  <2> QED
    BY <2>1, <2>2, LoadAllowed
<1>8. CASE tid[n] = "Call_Expr"
  <2>1. ByType(n, args) = IfPredicate(Target(n, args))
    BY <1>5, <1>8
  <2>2. Tree[n].tid = "Call_Expr"
    BY <1>4, <1>8
  <2>3. Target(n, args) \in SUBSET A
    BY <2>2, TargetAllowed
  <2> QED
    BY <1>2, <2>1, <2>3
<1>9. CASE tid[n] = "Arg_List"
  <2>1. ByType(n, args) = BindingsList(n, args)
    BY <1>5, <1>9
  <2>2. Tree[n].tid = "Arg_List"
    BY <1>4, <1>9
  <2> QED
    BY <2>1, <2>2, BindingsListAllowed
<1>10. CASE tid[n] = "Binding"
  <2>1. ByType(n, args) = IfPredicate(OrError(Binding(n, args)))
    BY <1>5, <1>10
  <2>2. Tree[n].tid = "Binding"
    BY <1>4, <1>10
  <2>3. Binding(n, args) \in SUBSET A
    BY <2>2, BindingAllowed
  <2>4. OrError(Binding(n, args)) \in SUBSET A
    BY <2>3, OrErrorAllowed
  <2> QED
    BY <1>2, <2>1, <2>4
<1>11. CASE tid[n] = "Dict_Entry"
  <2>1. ByType(n, args) = OrCommon(DictEntry(n, args))
    BY <1>5, <1>11
  <2>2. Tree[n].tid = "Dict_Entry"
    BY <1>4, <1>11
  <2>3. DictEntry(n, args) \in SUBSET A
    BY <2>2, DictEntryAllowed
  <2> QED
    BY <1>3, <2>1, <2>3
<1>12. CASE tid[n] = "Dict_Expr"
  <2>1. ByType(n, args) = DictExpr(n, args)
    BY <1>5, <1>12
  <2>2. Tree[n].tid = "Dict_Expr"
    BY <1>4, <1>12
  <2> QED
    BY <2>1, <2>2, DictExprAllowed
<1>13. CASE tid[n] = "List_Expr"
  <2>1. ByType(n, args) = OrCommon(Vector(n, args))
    BY <1>5, <1>13
  <2>2. Vector(n, args) \in SUBSET A
    BY <1>13, VectorAllowed
  <2> QED
    BY <1>3, <2>1, <2>2
<1>14. CASE tid[n] \in {"ID", "STRING", "INT"}
  <2>1. ByType(n, args) = Leaf(n, args)
    BY <1>5, <1>14
  <2> QED
    BY <2>1, LeafAllowed
<1> QED
  BY <1>4, <1>6, <1>7, <1>8, <1>9, <1>10, <1>11, <1>12, <1>13, <1>14 DEF Tids

-----------------------------------------------------------------------------
(***************************************************************************)
(* A call: the dispatchers, and the :$ at the end                          *)
(***************************************************************************)
\* A trail of the first k steps, and one with a last step put behind them.
LEMMA TrailOfSome ==
  ASSUME NEW n \in Nodes, NEW steps \in Seq(Step), NEW k \in 0 .. Len(steps), NEW f,
         f[0] = Self(n), \A i \in 1 .. k : f[i] \in Select(f[i - 1], steps[i])
  PROVE  f[k] \in Meaning(n, SubSeq(steps, 1, k))
<1>1. PICK first : first = SubSeq(steps, 1, k)
  OBVIOUS
<1>2. first \in Seq(Step) /\ Len(first) = k /\ \A i \in 1 .. k : first[i] = steps[i]
  BY <1>1
<1>3. \A i \in 1 .. Len(first) : f[i] \in Select(f[i - 1], first[i])
  BY <1>2
<1> QED
  BY <1>1, <1>2, <1>3, TrailMeans

LEMMA TrailAndOne ==
  ASSUME NEW n \in Nodes, NEW steps \in Seq(Step), NEW k \in 1 .. Len(steps), NEW f,
         f[0] = Self(n), \A i \in 1 .. k : f[i] \in Select(f[i - 1], steps[i]),
         NEW st \in Step, NEW q, q \in Select(f[k], st)
  PROVE  q \in Meaning(n, Append(SubSeq(steps, 1, k), st))
<1>1. PICK first : first = SubSeq(steps, 1, k)
  OBVIOUS
<1>2. first \in Seq(Step) /\ Len(first) = k /\ \A i \in 1 .. k : first[i] = steps[i]
  BY <1>1
<1>3. PICK all : all = Append(first, st)
  OBVIOUS
<1>4. /\ all \in Seq(Step) /\ Len(all) = k + 1 /\ all[k + 1] = st
      /\ \A i \in 1 .. k : all[i] = steps[i]
  BY <1>2, <1>3
<1> DEFINE g == [i \in 0 .. k + 1 |-> IF i = k + 1 THEN q ELSE f[i]]
<1>5. /\ k \in Nat /\ k # 0 /\ g[0] = Self(n) /\ g[k + 1] = q /\ g[k] = f[k]
      /\ \A i \in 1 .. k : g[i] = f[i] /\ g[i - 1] = f[i - 1]
  OBVIOUS
<1> HIDE DEF g
<1>6. ASSUME NEW i \in 1 .. Len(all) PROVE g[i] \in Select(g[i - 1], all[i])
  <2>1. CASE i = k + 1
    <3>1. i - 1 = k
      BY <1>5, <2>1
    <3> QED
      BY <1>4, <1>5, <2>1, <3>1
  <2>2. CASE i # k + 1
    <3>1. i \in 1 .. k
      BY <1>4, <1>5, <2>2
    <3> QED
      BY <1>4, <1>5, <3>1
  <2> QED
    BY <2>1, <2>2
<1>7. g[Len(all)] \in Meaning(n, all)
  BY <1>4, <1>5, <1>6, TrailMeans
<1> QED
  BY <1>1, <1>3, <1>4, <1>5, <1>7

\* Results of a call of the node n: see NeverAstray and Misled.
OnPath(n, steps, m) ==
  \E k \in 1 .. Len(steps) :
    LET first == SubSeq(steps, 1, k)
        ends == {first} \cup IF Is(Last(steps), {"$"}) THEN {Append(first, Last(steps))} ELSE {}
    IN \E some \in ends : Self(m) \in Meaning(n, some)

Strayed(n, steps, nodes) ==
  \E k \in 1 .. Len(steps) : IsIndex(steps[k]) /\
    \E v \in Changed(nodes) : Self(v) \in Meaning(n, SubSeq(steps, 1, k - 1))

Given(n, steps) ==
  {r \in Outcomes : r.is = "node" => OnPath(n, steps, r.of[1]) \/ Strayed(n, steps, r.retyped)}

LEMMA LeadsOnPath ==
  ASSUME NEW n \in Nodes, NEW steps \in Seq(Step), NEW m, Leads(Self(n), steps, m)
  PROVE  OnPath(n, steps, m)
<1>1. PICK k \in 1 .. Len(steps) : \E f \in [0 .. k -> Places] :
        /\ f[0] = Self(n) /\ f[k] = Self(m)
        /\ \A i \in 1 .. k : f[i] \in Select(f[i - 1], steps[i])
  BY DEF Leads
<1>2. PICK f \in [0 .. k -> Places] :
        /\ f[0] = Self(n) /\ f[k] = Self(m)
        /\ \A i \in 1 .. k : f[i] \in Select(f[i - 1], steps[i])
  BY <1>1
<1>3. Self(m) \in Meaning(n, SubSeq(steps, 1, k))
  BY <1>2, TrailOfSome
<1> QED
  BY <1>3 DEF OnPath

\* The steps, or the first of them, stray.
LEMMA StraysIsStrayed ==
  ASSUME NEW n \in Nodes, NEW steps \in Seq(Step), NEW nodes, NEW some \in Seq(Step),
         Len(some) <= Len(steps), \A i \in 1 .. Len(some) : some[i] = steps[i],
         Strays(Self(n), some, nodes)
  PROVE  Strayed(n, steps, nodes)
<1>1. PICK k \in 1 .. Len(some) : \E f \in [0 .. k - 1 -> Places] :
        /\ IsIndex(some[k]) /\ f[0] = Self(n) /\ f[k - 1] \in {Self(v) : v \in Changed(nodes)}
        /\ \A i \in 1 .. k - 1 : f[i] \in Select(f[i - 1], some[i])
  BY DEF Strays
<1>2. PICK f \in [0 .. k - 1 -> Places] :
        /\ IsIndex(some[k]) /\ f[0] = Self(n) /\ f[k - 1] \in {Self(v) : v \in Changed(nodes)}
        /\ \A i \in 1 .. k - 1 : f[i] \in Select(f[i - 1], some[i])
  BY <1>1
<1>3. /\ k \in 1 .. Len(steps) /\ k - 1 \in 0 .. Len(steps) /\ some[k] = steps[k]
      /\ \A i \in 1 .. k - 1 : some[i] = steps[i]
  OBVIOUS
<1>4. \A i \in 1 .. k - 1 : f[i] \in Select(f[i - 1], steps[i])
  BY <1>2, <1>3
<1>5. f[k - 1] \in Meaning(n, SubSeq(steps, 1, k - 1))
  BY <1>2, <1>3, <1>4, TrailOfSome
<1> QED
  BY <1>2, <1>3, <1>5 DEF Strayed

LEMMA AllowedIsGiven ==
  ASSUME NEW n \in Nodes, NEW steps \in Seq(Step)
  PROVE  Allowed(Self(n), steps) \subseteq Given(n, steps)
<1>1. \A nodes : Strays(Self(n), steps, nodes) => Strayed(n, steps, nodes)
  BY StraysIsStrayed
<1> QED
  BY <1>1, LeadsOnPath DEF Allowed, Given

\* The last step, and those before it.
LEMMA FrontAndLast ==
  ASSUME NEW steps \in Seq(Step), Len(steps) > 0
  PROVE  /\ Len(steps) \in Nat /\ Last(steps) \in Step /\ Last(steps) = steps[Len(steps)]
         /\ Front(steps) \in Seq(Step) /\ Len(Front(steps)) = Len(steps) - 1
         /\ \A i \in 1 .. Len(steps) - 1 : Front(steps)[i] = steps[i]
         /\ Len(steps) = 1 <=> Front(steps) = << >>
<1>1. Len(steps) \in 1 .. Len(steps) /\ Last(steps) = steps[Len(steps)]
  BY DEF Last
<1>2. Last(steps) \in Step
  BY <1>1
<1>3. /\ Front(steps) \in Seq(Step) /\ Len(Front(steps)) = Len(steps) - 1
      /\ \A i \in 1 .. Len(steps) - 1 : Front(steps)[i] = steps[i]
  <2>1. PICK c \in Nat : c = Len(steps) - 1
    OBVIOUS
  <2>2. \A i \in 1 .. c : steps[i] \in Step
    BY <2>1
  <2>3. /\ SubSeq(steps, 1, c) \in Seq(Step)
        /\ Len(SubSeq(steps, 1, c)) = (IF 1 <= c THEN c - 1 + 1 ELSE 0)
        /\ \A i \in 1 .. c - 1 + 1 : SubSeq(steps, 1, c)[i] = steps[1 + i - 1]
    BY <2>2, SubSeqProperties
  <2>4. Len(SubSeq(steps, 1, c)) = c /\ \A i \in 1 .. c : SubSeq(steps, 1, c)[i] = steps[i]
    BY <2>3
  <2> QED
    BY <2>1, <2>3, <2>4 DEF Front
<1>4. Len(steps) = 1 <=> Front(steps) = << >>
  BY <1>3, EmptySeq
<1> QED
  BY <1>1, <1>2, <1>3, <1>4

\* The steps but the last lead to a node, and the last step on from it.
LEMMA DollarOnPath ==
  ASSUME NEW n \in Nodes, NEW steps \in Seq(Step), Len(steps) > 1, Is(Last(steps), {"$"}),
         NEW m, NEW v, Leads(Self(n), Front(steps), m), Self(v) \in Select(Self(m), Last(steps))
  PROVE  OnPath(n, steps, v)
<1>1. /\ Len(steps) \in Nat /\ Len(Front(steps)) = Len(steps) - 1
      /\ \A i \in 1 .. Len(steps) - 1 : Front(steps)[i] = steps[i]
      /\ Last(steps) \in Step
  BY FrontAndLast
<1>2. PICK k \in 1 .. Len(steps) - 1 : \E f \in [0 .. k -> Places] :
        /\ f[0] = Self(n) /\ f[k] = Self(m)
        /\ \A i \in 1 .. k : f[i] \in Select(f[i - 1], Front(steps)[i])
  BY <1>1 DEF Leads
<1>3. PICK f \in [0 .. k -> Places] :
        /\ f[0] = Self(n) /\ f[k] = Self(m)
        /\ \A i \in 1 .. k : f[i] \in Select(f[i - 1], Front(steps)[i])
  BY <1>2
<1>4. k \in 1 .. Len(steps) /\ \A i \in 1 .. k : Front(steps)[i] = steps[i]
  BY <1>1
<1>5. \A i \in 1 .. k : f[i] \in Select(f[i - 1], steps[i])
  BY <1>3, <1>4
<1>6. Self(v) \in Meaning(n, Append(SubSeq(steps, 1, k), Last(steps)))
  BY <1>1, <1>3, <1>4, <1>5, TrailAndOne
<1> QED
  BY <1>4, <1>6 DEF OnPath

LEMMA FrontLeadsOnPath ==
  ASSUME NEW n \in Nodes, NEW steps \in Seq(Step), Len(steps) > 1, NEW m,
         Leads(Self(n), Front(steps), m)
  PROVE  OnPath(n, steps, m)
<1>1. /\ Len(steps) \in Nat /\ Len(Front(steps)) = Len(steps) - 1
      /\ \A i \in 1 .. Len(steps) - 1 : Front(steps)[i] = steps[i]
  BY FrontAndLast
<1>2. PICK k \in 1 .. Len(steps) - 1 : \E f \in [0 .. k -> Places] :
        /\ f[0] = Self(n) /\ f[k] = Self(m)
        /\ \A i \in 1 .. k : f[i] \in Select(f[i - 1], Front(steps)[i])
  BY <1>1 DEF Leads
<1>3. PICK f \in [0 .. k -> Places] :
        /\ f[0] = Self(n) /\ f[k] = Self(m)
        /\ \A i \in 1 .. k : f[i] \in Select(f[i - 1], Front(steps)[i])
  BY <1>2
<1>4. k \in 1 .. Len(steps) /\ \A i \in 1 .. k : Front(steps)[i] = steps[i]
  BY <1>1
<1>5. \A i \in 1 .. k : f[i] \in Select(f[i - 1], steps[i])
  BY <1>3, <1>4
<1>6. Self(m) \in Meaning(n, SubSeq(steps, 1, k))
  BY <1>3, <1>4, <1>5, TrailOfSome
<1> QED
  BY <1>4, <1>6 DEF OnPath

LEMMA FrontStrays ==
  ASSUME NEW n \in Nodes, NEW steps \in Seq(Step), Len(steps) > 1, NEW nodes,
         Strays(Self(n), Front(steps), nodes)
  PROVE  Strayed(n, steps, nodes)
<1>1. /\ Len(steps) \in Nat /\ Len(Front(steps)) = Len(steps) - 1 /\ Front(steps) \in Seq(Step)
      /\ \A i \in 1 .. Len(steps) - 1 : Front(steps)[i] = steps[i]
  BY FrontAndLast
<1> QED
  BY <1>1, StraysIsStrayed

LEMMA RetypeGiven ==
  ASSUME NEW n, NEW steps, NEW nodes \in SUBSET EntryValues, NEW results \in SUBSET Outcomes,
         \A r \in results : r.is = "node" => OnPath(n, steps, r.of[1]) \/ Strayed(n, steps, nodes)
  PROVE  Retype(nodes, results) \subseteq Given(n, steps)
<1> SUFFICES ASSUME NEW r \in results PROVE [r EXCEPT !.retyped = nodes] \in Given(n, steps)
  BY DEF Retype
<1>1. r \in Outcomes
  OBVIOUS
<1>2. PICK q \in Outcomes : /\ q = [r EXCEPT !.retyped = nodes]
                            /\ q.is = r.is /\ q.of = r.of /\ q.retyped = nodes
  BY <1>1, RetypeOutcome
<1> QED
  BY <1>1, <1>2 DEF Given

\* The Scheme value of a node, or its value if it is a binding.
LEMMA NodeToSchemeGives ==
  ASSUME TypesKept, NEW m \in Nodes
  PROVE  \A r \in NodeToScheme(m) :
           /\ r \in Outcomes /\ r.retyped = {}
           /\ r.is = "node" => Tree[m].tid = "Binding" /\ r.of[1] = Val(m)
<1>1. CASE tid[m] \in {"STRING", "ID", "INT"}
  <2>1. NodeToScheme(m) = {R("value", <<m>>)}
    BY <1>1 DEF NodeToScheme
  <2>2. R("value", <<m>>) \in Outcomes
    BY OneAllowed DEF Allowed
  <2>3. R("value", <<m>>).is # "node" /\ R("value", <<m>>).retyped = {}
    BY DEF R
  <2> QED
    BY <2>1, <2>2, <2>3
<1>2. CASE tid[m] = "Binding"
  <2>1. NodeToScheme(m) = Wrap(Val(m))
    BY <1>2 DEF NodeToScheme
  <2>2. Tree[m].tid = "Binding" /\ Val(m) \in Nodes
    BY <1>2, Grammar DEF TypesKept
  <2>3. \A r \in Wrap(Val(m)) : r \in Outcomes /\ r.retyped = {} /\ r.of[1] = Val(m)
    BY <2>2, NodeOutcome
  <2> QED
    BY <2>1, <2>2, <2>3
<1>3. CASE tid[m] \notin {"STRING", "ID", "INT"} /\ tid[m] # "Binding"
  <2>1. NodeToScheme(m) = Undefined
    BY <1>3 DEF NodeToScheme
  <2>2. Bare("undefined") \in Outcomes
    BY BareAllowed DEF Allowed, Shorts
  <2> QED
    BY <2>1, <2>2 DEF Undefined, Bare, R
<1> QED
  BY <1>1, <1>2, <1>3

LEMMA ToSchemeGiven ==
  ASSUME TypesKept, NEW n \in Nodes, NEW steps \in Seq(Step), Len(steps) > 1,
         Is(Last(steps), {"$"}), NEW results \in SUBSET Allowed(Self(n), Front(steps))
  PROVE  ToScheme(results) \subseteq Given(n, steps)
<1> SUFFICES ASSUME NEW r \in results
             PROVE  Retype(r.retyped,
                      CASE r.is \in {"node", "copy"}         -> NodeToScheme(r.of[1])
                        [] r.is \in {"error", "died"}        -> {r}
                        [] r.is \in {"NULL", "wrapped_NULL"} -> Died
                        [] OTHER                             -> Undefined)
                      \subseteq Given(n, steps)
  BY DEF ToScheme
<1>1. /\ r \in Outcomes /\ r \in Result /\ r.retyped \in SUBSET EntryValues
      /\ r.is = "node" => \/ Leads(Self(n), Front(steps), r.of[1])
                          \/ Strays(Self(n), Front(steps), r.retyped)
      /\ r.is = "copy" => Tree[r.of[1]].tid = "Call_Expr"
      /\ r.is \in {"node", "copy"} => r.of # << >>
  BY DEF Allowed, Outcomes
<1> DEFINE X == CASE r.is \in {"node", "copy"}         -> NodeToScheme(r.of[1])
                  [] r.is \in {"error", "died"}        -> {r}
                  [] r.is \in {"NULL", "wrapped_NULL"} -> Died
                  [] OTHER                             -> Undefined
<1>2. /\ Died \subseteq Outcomes /\ Undefined \subseteq Outcomes
      /\ \A q \in Died \cup Undefined : q.is # "node"
  BY BareAllowed DEF Allowed, Died, Undefined, Bare, R
<1>3. CASE r.is \in {"node", "copy"}
  <2>1. X = NodeToScheme(r.of[1])
    BY <1>3
  <2>2. PICK m : m = r.of[1]
    OBVIOUS
  <2>3. m \in Nodes
    BY <1>1, <1>3, <2>2 DEF Result
  <2>4. ASSUME Tree[m].tid = "Binding"
        PROVE  OnPath(n, steps, Val(m)) \/ Strayed(n, steps, r.retyped)
    <3>1. Leads(Self(n), Front(steps), m) \/ Strays(Self(n), Front(steps), r.retyped)
      BY <1>1, <1>3, <2>2, <2>4
    <3>2. Last(steps) \in Step /\ Is(Last(steps), ValueOps)
      BY FrontAndLast DEF Is, ValueOps
    <3>3. Self(Val(m)) \in Select(Self(m), Last(steps))
      BY <2>3, <2>4, <3>2, SelectsPart
    <3> QED
      BY <3>1, <3>3, DollarOnPath, FrontStrays
  <2>5. \A q \in NodeToScheme(m) :
          /\ q \in Outcomes
          /\ q.is = "node" => OnPath(n, steps, q.of[1]) \/ Strayed(n, steps, r.retyped)
    BY <2>3, <2>4, NodeToSchemeGives
  <2>6. Retype(r.retyped, NodeToScheme(m)) \subseteq Given(n, steps)
    BY <1>1, <2>5, RetypeGiven
  <2> QED
    BY <2>1, <2>2, <2>6
<1>4. CASE r.is \in {"error", "died"}
  <2>1. X = {r} /\ r \in Outcomes /\ r.is # "node"
    BY <1>1, <1>4
  <2> QED
    BY <1>1, <2>1, RetypeGiven
<1>5. CASE r.is \in {"NULL", "wrapped_NULL"}
  <2>1. X = Died
    BY <1>5
  <2> QED
    BY <1>1, <1>2, <2>1, RetypeGiven
<1>6. CASE r.is \notin {"node", "copy", "error", "died", "NULL", "wrapped_NULL"}
  <2>1. X = Undefined
    BY <1>6
  <2> QED
    BY <1>1, <1>2, <2>1, RetypeGiven
<1> QED
  BY <1>3, <1>4, <1>5, <1>6

\* Every call stays on its path.
LEMMA DispatchGiven ==
  ASSUME TypesKept, NEW n \in Nodes, NEW steps \in Seq(Step), Len(steps) > 0
  PROVE  Dispatch(n, steps) \subseteq Given(n, steps)
<1> DEFINE dollar == Is(Last(steps), {"$"})
           args == IF dollar THEN Front(steps) ELSE steps
           applied == \/ tid[n] \in {"Package", "Load_Stmt"}
                      \/ tid[n] = "Call_Expr" /\ ~IsPredicate(args[1])
           Converted(r) == CASE dollar /\ applied                -> ToScheme({r})
                             [] ~dollar /\ tid[n] = "Call_Expr" -> OrError({r})
                             [] OTHER                           -> {r}
<1>1. Dispatch(n, steps) =
        IF args = << >> THEN NodeToScheme(n) ELSE UNION {Converted(r) : r \in ByType(n, args)}
  BY DEF Dispatch
<1>2. /\ Last(steps) \in Step /\ Front(steps) \in Seq(Step) /\ Len(steps) \in Nat
      /\ steps # << >> /\ (Len(steps) = 1 <=> Front(steps) = << >>)
  BY FrontAndLast, EmptySeq
<1>3. args \in Seq(Step)
  BY <1>2
<1>4. args # << >> => ByType(n, args) \in SUBSET Allowed(Self(n), args)
  BY <1>3, ByTypeAllowed
<1>5. args # << >> /\ dollar => Len(steps) > 1
  <2>1. Len(steps) = 1 \/ Len(steps) > 1
    BY <1>2, TailOfSteps
  <2> QED
    BY <1>2, <2>1
<1>6. args # << >> => Allowed(Self(n), args) \subseteq Given(n, steps)
  <2>1. CASE dollar
    BY <1>5, <2>1, FrontLeadsOnPath, FrontStrays DEF Allowed, Given
  <2>2. CASE ~dollar
    BY <2>2, AllowedIsGiven
  <2> QED
    BY <2>1, <2>2
<1>7. CASE args = << >>
  <2>1. Dispatch(n, steps) = NodeToScheme(n)
    BY <1>1, <1>7
  <2>2. dollar /\ Len(steps) = 1
    BY <1>2, <1>7
  <2>3. ASSUME Tree[n].tid = "Binding" PROVE OnPath(n, steps, Val(n))
    <3>1. steps[1] \in Step /\ Is(steps[1], ValueOps)
      BY <1>2, <2>2 DEF Last, Is, ValueOps
    <3>2. Self(Val(n)) \in Select(Self(n), steps[1]) /\ Self(n) \in Places /\ Val(n) \in Nodes
      BY <2>3, <3>1, SelectsPart, SelfIsPlace, Grammar
    <3>3. Leads(Self(n), steps, Val(n))
      BY <1>2, <3>2, OneStepLeads
    <3> QED
      BY <3>3, LeadsOnPath
  <2> QED
    BY <2>1, <2>3, NodeToSchemeGives DEF Given
<1>8. ASSUME args # << >>, NEW r \in ByType(n, args) PROVE Converted(r) \subseteq Given(n, steps)
  <2>1. {r} \in SUBSET Allowed(Self(n), args)
    BY <1>4, <1>8
  <2>2. CASE dollar /\ applied
    <3>1. Converted(r) = ToScheme({r}) /\ args = Front(steps)
      BY <2>2
    <3> QED
      BY <1>5, <1>8, <2>1, <2>2, <3>1, ToSchemeGiven
  <2>3. CASE ~dollar /\ tid[n] = "Call_Expr"
    <3>1. Converted(r) = OrError({r})
      BY <2>3
    <3>2. OrError({r}) \subseteq Allowed(Self(n), args)
      BY <2>1, OrErrorAllowed
    <3> QED
      BY <1>6, <1>8, <3>1, <3>2
  <2>4. CASE ~(dollar /\ applied) /\ ~(~dollar /\ tid[n] = "Call_Expr")
    <3>1. Converted(r) = {r}
      BY <2>4
    <3> QED
      BY <1>6, <1>8, <2>1, <3>1
  <2> QED
    BY <2>2, <2>3, <2>4
<1> HIDE DEF dollar, args, applied, Converted
<1>9. CASE args # << >>
  BY <1>1, <1>8, <1>9
<1> QED
  BY <1>7, <1>9

-----------------------------------------------------------------------------
(***************************************************************************)
(* The script                                                              *)
(***************************************************************************)
\* A call is made of a node only, and what it gave is an outcome.
IInv == TypeOK /\ TypesKept /\ cur \in Outcomes

LEMMA RootOutcome == R("node", <<Root>>) \in Outcomes
<1>1. <<Root>> \in Seq(Nodes) /\ <<Root>> # << >>
  BY NodeFacts
<1> QED
  BY <1>1 DEF R, Outcomes, Result

\* It holds when the script sets out.
THEOREM InitIInv == Init => IInv
<1> SUFFICES ASSUME Init PROVE IInv
  OBVIOUS
<1>1. cur \in Outcomes /\ cur \in Result
  BY RootOutcome DEF Init, Outcomes
<1>2. TypesKept /\ tid \in [Nodes -> Tids]
  BY NodeFacts DEF Init, TypesKept
<1>3. /\ pc \in {"idle", "walk", "over"} /\ path \in Paths \cup {<< >>}
      /\ done \in 0 .. Len(path)
  BY EmptySeq DEF Init
<1> QED
  BY <1>1, <1>2, <1>3 DEF IInv, TypeOK

\* The path and the steps of it that a call may take.
LEMMA StepsOfPath ==
  ASSUME IInv
  PROVE  /\ path \in Seq(Step) /\ Len(path) \in Nat /\ done \in Nat /\ done <= Len(path)
         /\ \A taken \in done + 1 .. Len(path) :
              /\ SubSeq(path, done + 1, taken) \in Seq(Step)
              /\ Len(SubSeq(path, done + 1, taken)) > 0
<1>1. path \in Seq(Step) /\ Len(path) \in Nat /\ done \in 0 .. Len(path)
  BY PathsAssumption, EmptySeq DEF IInv, TypeOK
<1>2. ASSUME NEW taken \in done + 1 .. Len(path)
      PROVE  /\ SubSeq(path, done + 1, taken) \in Seq(Step)
             /\ Len(SubSeq(path, done + 1, taken)) > 0
  <2>1. /\ done + 1 \in Int /\ taken \in Int /\ done + 1 <= taken
        /\ \A i \in done + 1 .. taken : path[i] \in Step
    BY <1>1
  <2>2. /\ SubSeq(path, done + 1, taken) \in Seq(Step)
        /\ Len(SubSeq(path, done + 1, taken)) =
             (IF done + 1 <= taken THEN taken - (done + 1) + 1 ELSE 0)
    BY <2>1, SubSeqProperties
  <2> QED
    BY <2>1, <2>2
<1> QED
  BY <1>1, <1>2

LEMMA BecomesInv ==
  ASSUME IInv, NEW r \in Outcomes, NEW taken \in 0 .. Len(path), Becomes(r, taken)
  PROVE  IInv'
<1>1. /\ cur' = r /\ done' = taken /\ path' = path
      /\ tid' = [n \in Nodes |-> IF n \in r.retyped THEN "List_Expr" ELSE tid[n]]
      /\ pc' \in {"idle", "walk", "over"}
  BY DEF Becomes
<1>2. r \in Result /\ r.retyped \subseteq EntryValues
  BY DEF Outcomes
<1>3. tid' \in [Nodes -> Tids]
  BY <1>1 DEF IInv, TypeOK, Tids
<1>4. ASSUME NEW n \in Nodes, tid'[n] # Tree[n].tid
      PROVE  tid'[n] = "List_Expr" /\ n \in EntryValues
  BY <1>1, <1>2, <1>4 DEF IInv, TypesKept
<1>5. TypesKept'
  BY <1>3, <1>4 DEF TypesKept, EntryValues, Val, Kids, Nodes
<1>6. TypeOK'
  BY <1>1, <1>2, <1>3 DEF IInv, TypeOK, Tids, Result, Nodes
<1>7. (cur \in Outcomes)'
  BY <1>1 DEF Outcomes, EntryValues, Val, Kids, Nodes, Result
<1> QED
  BY <1>5, <1>6, <1>7 DEF IInv

\* A call is about a node, and what it gives is on the path of its steps.
LEMMA ApplyGives ==
  ASSUME IInv, Apply
  PROVE  /\ Origin \in Nodes
         /\ \E taken \in done + 1 .. Len(path) :
              \E r \in Given(Origin, SubSeq(path, done + 1, taken)) :
                r \in Outcomes /\ taken \in 0 .. Len(path) /\ Becomes(r, taken)
<1>1. PICK taken \in done + 1 .. Len(path) :
        \E r \in Dispatch(Origin, SubSeq(path, done + 1, taken)) : Becomes(r, taken)
  BY DEF Apply, Origin
<1>2. PICK r \in Dispatch(Origin, SubSeq(path, done + 1, taken)) : Becomes(r, taken)
  BY <1>1
<1>3. Origin \in Nodes
  <2>1. cur \in Result /\ cur.of # << >>
    BY DEF Apply, IInv, TypeOK, Outcomes
  <2> QED
    BY <2>1 DEF Origin, Result
<1>4. /\ SubSeq(path, done + 1, taken) \in Seq(Step)
      /\ Len(SubSeq(path, done + 1, taken)) > 0 /\ taken \in 0 .. Len(path)
  BY StepsOfPath
<1>5. r \in Given(Origin, SubSeq(path, done + 1, taken))
  BY <1>3, <1>4, DispatchGiven DEF IInv
<1>6. r \in Outcomes
  BY <1>5 DEF Given
<1> QED
  BY <1>2, <1>3, <1>4, <1>5, <1>6

\* Every step of a script keeps it.
THEOREM NextIInv == IInv /\ [Next]_vars => IInv'
<1> SUFFICES ASSUME IInv, [Next]_vars PROVE IInv'
  OBVIOUS
<1>1. ASSUME NEW p \in Paths, Ask(p) PROVE IInv'
  <2>1. /\ path' = p /\ done' = 0 /\ tid' = tid /\ pc' = "walk"
        /\ cur' = R("node", <<Root>>)
    BY <1>1 DEF Ask
  <2>2. p \in Seq(Step) /\ 0 \in 0 .. Len(p)
    BY PathsAssumption
  <2>3. cur' \in Outcomes /\ cur' \in Result
    BY <2>1, RootOutcome DEF Outcomes
  <2> QED
    BY <2>1, <2>2, <2>3 DEF IInv, TypeOK, TypesKept, Outcomes, EntryValues, Val, Kids, Nodes, Result
<1>2. CASE Apply
  BY <1>2, ApplyGives, BecomesInv
<1>3. CASE ApplyToNothing
  <2>1. Bare("died") \in Outcomes
    BY BareAllowed DEF Allowed, Shorts
  <2>2. Len(path) \in 0 .. Len(path)
    BY StepsOfPath
  <2> QED
    BY <1>3, <2>1, <2>2, BecomesInv DEF ApplyToNothing
<1>4. CASE Pick
  <2>1. PICK k \in DOMAIN cur.of :
          cur' = R(IF cur.is = "nodes" THEN "node" ELSE "copy", <<cur.of[k]>>)
    BY <1>4 DEF Pick
  <2>2. cur.of[k] \in Nodes
    BY DEF IInv, TypeOK, Result
  <2>3. <<cur.of[k]>> \in Seq(Nodes) /\ <<cur.of[k]>> # << >>
    BY <2>2
  <2>4. cur' \in Result /\ cur' \in Outcomes
    BY <2>1, <2>3 DEF R, Result, Outcomes
  <2> QED
    BY <1>4, <2>4 DEF Pick, IInv, TypeOK, TypesKept, Outcomes, EntryValues, Val, Kids, Nodes, Result
<1>5. CASE UNCHANGED vars
  BY <1>5 DEF vars, IInv, TypeOK, TypesKept, Outcomes, EntryValues, Val, Kids, Nodes, Result
<1> QED
  BY <1>1, <1>2, <1>3, <1>4, <1>5 DEF Next

\* The invariant holds throughout, for every package and every set of paths.
THEOREM Invariant == Spec => []IInv
  BY InitIInv, NextIInv, PTL DEF Spec

\* Whatever path a script follows and in however many calls, what it holds
\* is a result of a call, and the nodes keep types of the language.
THEOREM TypeCorrect == Spec => []TypeOK
  BY Invariant, PTL DEF IInv

\* An index that follows a vector made by this read or one before misleads.
LEMMA StrayedIsMisled ==
  ASSUME NEW r, NEW taken, Becomes(r, taken), Chunk \in Seq(Step),
         Strayed(Origin, Chunk, r.retyped)
  PROVE  Misled
<1>1. PICK k \in 1 .. Len(Chunk) : IsIndex(Chunk[k]) /\
        \E v \in Changed(r.retyped) : Self(v) \in Meaning(Origin, SubSeq(Chunk, 1, k - 1))
  BY DEF Strayed
<1>2. PICK v \in Changed(r.retyped) : Self(v) \in Meaning(Origin, SubSeq(Chunk, 1, k - 1))
  BY <1>1
<1>3. tid'[v] # Tree[v].tid
  BY DEF Becomes, Changed
<1>4. Self(v).as = "self" /\ Self(v).node = v
  BY DEF Self
<1>5. k \in DOMAIN Chunk
  OBVIOUS
<1> QED
  BY <1>1, <1>2, <1>3, <1>4, <1>5 DEF Misled

\* sunlark_dispatch and the dispatchers below it never return a node that
\* neither all the steps of the call nor some of the first of them mean,
\* unless a read has changed the type of a value that an index follows.
THEOREM CallsStayOnPath == Spec => NeverAstray
<1> DEFINE A == IsCall /\ cur'.is = "node" =>
                  \/ Misled
                  \/ \E k \in 1 .. Len(Chunk) :
                       LET first == SubSeq(Chunk, 1, k)
                           ends == {first} \cup
                                   IF Is(Last(Chunk), {"$"}) THEN {Append(first, Last(Chunk))} ELSE {}
                       IN \E steps \in ends : Self(cur'.of[1]) \in Meaning(Origin, steps)
<1>1. IInv /\ [Next]_vars => [A]_vars
  <2> SUFFICES ASSUME IInv, Next, IsCall, cur'.is = "node"
               PROVE  Misled \/ OnPath(Origin, Chunk, cur'.of[1])
    BY DEF OnPath
  <2>1. done \in Nat
    BY StepsOfPath
  <2>2. ASSUME NEW p \in Paths, Ask(p) PROVE FALSE
    BY <2>1, <2>2 DEF Ask, IsCall
  <2>3. CASE Apply
    <3>1. PICK taken \in done + 1 .. Len(path) :
            \E r \in Given(Origin, SubSeq(path, done + 1, taken)) :
              r \in Outcomes /\ taken \in 0 .. Len(path) /\ Becomes(r, taken)
      BY <2>3, ApplyGives
    <3>2. PICK r \in Given(Origin, SubSeq(path, done + 1, taken)) : Becomes(r, taken)
      BY <3>1
    <3>3. Chunk = SubSeq(path, done + 1, taken) /\ cur' = r /\ Chunk \in Seq(Step)
      BY <3>2, StepsOfPath DEF Becomes, Chunk
    <3> QED
      BY <3>2, <3>3, StrayedIsMisled DEF Given
  <2>4. CASE ApplyToNothing
    BY <2>4 DEF ApplyToNothing, IsCall
  <2>5. CASE Pick
    BY <2>1, <2>5 DEF Pick, IsCall
  <2> QED
    BY <2>2, <2>3, <2>4, <2>5 DEF Next
<1> QED
  BY <1>1, Invariant, PTL DEF Spec, NeverAstray

\* An assignment in an assert makes vectors of the values of dictionary
\* entries; no read changes the type of any other node.
THEOREM OnlyValuesRetyped == Spec => OnlyEntryValuesRetyped
<1> DEFINE A == \A n \in Nodes : tid'[n] # tid[n] =>
                  \E e \in Nodes : Tree[e].tid = "Dict_Entry" /\ Val(e) = n
<1>1. IInv /\ [Next]_vars => [A]_vars
  <2> SUFFICES ASSUME IInv, Next, NEW n \in Nodes, tid'[n] # tid[n] PROVE n \in EntryValues
    BY DEF EntryValues
  <2>1. ASSUME NEW r \in Outcomes, NEW taken, Becomes(r, taken) PROVE n \in EntryValues
    BY <2>1 DEF Becomes, Outcomes
  <2>2. CASE Apply
    BY <2>1, <2>2, ApplyGives
  <2>3. CASE ApplyToNothing
    <3>1. Bare("died") \in Outcomes
      BY BareAllowed DEF Allowed, Shorts
    <3> QED
      BY <2>1, <2>3, <3>1 DEF ApplyToNothing
  <2>4. CASE Pick \/ \E p \in Paths : Ask(p)
    BY <2>4 DEF Pick, Ask
  <2> QED
    BY <2>2, <2>3, <2>4 DEF Next
<1> QED
  BY <1>1, Invariant, PTL DEF Spec, OnlyEntryValuesRetyped

-----------------------------------------------------------------------------
(***************************************************************************)
(* What steps mean                                                         *)
(***************************************************************************)
\* The places that steps can lead to.
Proper == {p \in Places : p.as \in {"args", "bindings"} => Tree[p.node].tid = "Load_Stmt"}

\* The places after the first k steps from the place p.
After(p, steps, k) ==
  {q \in Proper : \E f \in [0 .. k -> Proper] :
     /\ f[0] = p /\ f[k] = q
     /\ \A i \in 1 .. k : f[i] \in Select(f[i - 1], steps[i])}

\* A lookup finds one node or none.
Choice(S) == S = {} \/ \E q \in Proper : S = {q}

LEMMA FoundChoice ==
  ASSUME NEW n, Nodal(n)
  PROVE  Choice(Found(n)) /\ (n = 0 <=> Found(n) = {}) /\ (n # 0 => Found(n) = {Self(n)})
<1>1. CASE n = 0
  BY <1>1 DEF Found, Choice
<1>2. CASE n # 0
  <2>1. Self(n) \in Proper
    BY <1>2 DEF Nodal, Proper, Places, Self
  <2> QED
    BY <1>2, <2>1 DEF Found, Choice
<1> QED
  BY <1>1, <1>2

LEMMA LookupNodal ==
  ASSUME NEW seq \in Seq(Nodes), NEW st \in Step
  PROVE  Nodal(At(seq, KwIndex(st))) /\ Nodal(Keyed(seq, st.s))
<1>1. KwIndex(st) \in Int
  BY KwIndexInt
<1>2. \A k \in DOMAIN seq : seq[k] \in Nodes
  OBVIOUS
<1> QED
  BY <1>1, <1>2, AtIs, KeyedIs DEF Nodal

\* What is looked up by index or by key is looked up by one of them.
LEMMA LookupChoice ==
  ASSUME NEW seq \in Seq(Nodes), NEW st \in Step, NEW kind \in {"str", "sym"}, NEW n, Nodal(n)
  PROVE  /\ Choice(ByIndex(seq, st)) /\ Choice(ByKey(seq, st, kind))
         /\ Choice(ByIndex(seq, st) \cup ByKey(seq, st, kind))
         /\ Choice(ByIndex(seq, st) \cup IF st.kind = kind THEN Found(n) ELSE {})
<1>1. st.kind = kind => ~IsIndex(st)
  BY DEF IsIndex
<1>2. Choice({})
  BY DEF Choice
<1>3. Choice(Found(At(seq, KwIndex(st)))) /\ Choice(Found(Keyed(seq, st.s))) /\ Choice(Found(n))
  BY LookupNodal, FoundChoice
<1> QED
  BY <1>1, <1>2, <1>3 DEF ByIndex, ByKey

LEMMA PartsChoice ==
  ASSUME TypesKept, NEW n \in Nodes
  PROVE  /\ Tree[n].tid = "Call_Expr" => Nodal(ArgList(n)) /\ Nodal(NameOf(n)) /\ Nodal(Rule(n))
         /\ Tree[n].tid \in {"Binding", "Dict_Entry"} => Nodal(Key(n)) /\ Nodal(Val(n))
         /\ Tree[n].tid = "Load_Stmt" => Nodal(Key(n))
  BY Grammar, Attributes DEF Nodal

LEMMA SelectChoice ==
  ASSUME TypesKept, NEW p \in Proper, NEW st \in Step
  PROVE  Choice(Select(p, st))
<1> DEFINE n == p.node
<1>0. Choice({})
  BY DEF Choice
<1>1. n \in Nodes
  BY DEF Proper, Places
<1>2. CASE p.as = "self"
  <2>1. Select(p, st) = SelectSelf(n, st)
    BY <1>2 DEF Select
  <2>2. Kids(n) \in Seq(Nodes) /\ BindingsOf(n) \in Seq(Nodes)
    BY <1>1, NodeFacts, BindingsOfIs
  <2>3. ASSUME Tree[n].tid = "Package" PROVE Choice(SelectSelf(n, st))
    <3>1. \A as \in {"targets", "loads"} : Choice(As(n, as))
      BY <1>1 DEF Choice, Proper, Places, As
    <3> QED
      BY <1>0, <2>3, <3>1 DEF SelectSelf
  <2>4. ASSUME Tree[n].tid = "Call_Expr" PROVE Choice(SelectSelf(n, st))
    <3>1. Choice(Found(ArgList(n))) /\ Choice(Found(NameOf(n))) /\ Choice(Found(Rule(n)))
      BY <1>1, <2>4, PartsChoice, FoundChoice
    <3> QED
      BY <1>0, <2>4, <3>1 DEF SelectSelf
  <2>5. ASSUME Tree[n].tid = "Load_Stmt" PROVE Choice(SelectSelf(n, st))
    <3>1. \A as \in {"args", "bindings"} : Choice(As(n, as))
      BY <1>1, <2>5 DEF Choice, Proper, Places, As
    <3>2. Choice(Found(Key(n)))
      BY <1>1, <2>5, PartsChoice, FoundChoice
    <3> QED
      BY <1>0, <2>5, <3>1, <3>2 DEF SelectSelf
  <2>6. ASSUME Tree[n].tid = "Arg_List" PROVE Choice(SelectSelf(n, st))
    BY <1>1, <2>2, <2>6, LookupChoice DEF SelectSelf, Nodal
  <2>7. ASSUME Tree[n].tid \in {"Binding", "Dict_Entry"} PROVE Choice(SelectSelf(n, st))
    <3>1. Choice(Found(Key(n))) /\ Choice(Found(Val(n)))
      BY <1>1, <2>7, PartsChoice, FoundChoice
    <3> QED
      BY <1>0, <2>7, <3>1 DEF SelectSelf
  <2>8. ASSUME Tree[n].tid = "List_Expr" PROVE Choice(SelectSelf(n, st))
    BY <1>1, <2>2, <2>8, LookupChoice DEF SelectSelf, Nodal
  <2>9. ASSUME Tree[n].tid = "Dict_Expr" PROVE Choice(SelectSelf(n, st))
    <3>1. SelectSelf(n, st) =
            (IF IsKwIndex(st) THEN ByIndex(Kids(n), st) ELSE {}) \cup ByKey(Kids(n), st, "str")
      BY <2>9 DEF SelectSelf
    <3>2. Choice(ByKey(Kids(n), st, "str")) /\ Choice(ByIndex(Kids(n), st) \cup ByKey(Kids(n), st, "str"))
      BY <1>1, <2>2, LookupChoice DEF Nodal
    <3> QED
      BY <3>1, <3>2
  <2>10. ASSUME Tree[n].tid \in {"ID", "STRING", "INT"} PROVE Choice(SelectSelf(n, st))
    BY <1>0, <2>10 DEF SelectSelf
  <2>11. Tree[n].tid \in Tids
    BY <1>1, NodeFacts
  <2> QED
    BY <2>1, <2>3, <2>4, <2>5, <2>6, <2>7, <2>8, <2>9, <2>10, <2>11 DEF Tids
<1>3. CASE p.as = "targets"
  <2>1. Targets \in Seq(Nodes) /\ Nodal(TargetNamed(st.s))
    BY ListsOfPackage DEF Nodal
  <2> QED
    BY <1>3, <2>1, LookupChoice DEF Select
<1>4. CASE p.as = "loads"
  BY <1>1, <1>4, ListsOfPackage, LookupChoice DEF Select, Nodal
<1>5. CASE p.as = "args"
  <2>1. LoadArgs(n) \in Seq(Nodes)
    BY <1>1, <1>5, ListsOfLoad DEF Proper
  <2>2. Nodal(FirstOf(WithText(LoadArgs(n), "STRING", st.s)))
    BY <2>1, WithTextIs DEF Nodal
  <2> QED
    BY <1>5, <2>1, <2>2, LookupChoice DEF Select
<1>6. CASE p.as = "bindings"
  <2>1. LoadBindings(n) \in Seq(Nodes)
    BY <1>1, <1>6, ListsOfLoad DEF Proper
  <2> QED
    BY <1>1, <1>6, <2>1, LookupChoice DEF Select, Nodal
<1> QED
  BY <1>2, <1>3, <1>4, <1>5, <1>6 DEF Proper, Places

\* A step selects one place or none, and a place steps can lead to.
LEMMA SelectsOne ==
  ASSUME TypesKept, NEW p \in Proper, NEW st \in Step
  PROVE  Select(p, st) \in SUBSET Proper /\ \A q \in Select(p, st) : Select(p, st) = {q}
  BY SelectChoice DEF Choice

-----------------------------------------------------------------------------
(***************************************************************************)
(* From place to place                                                     *)
(***************************************************************************)
LEMMA AfterIsProper == ASSUME NEW p, NEW steps, NEW k PROVE After(p, steps, k) \subseteq Proper
  BY DEF After

LEMMA AfterNone ==
  ASSUME NEW p \in Proper, NEW steps
  PROVE  After(p, steps, 0) = {p}
<1>1. ASSUME NEW q \in After(p, steps, 0) PROVE q = p
  BY DEF After
<1> DEFINE f == [i \in 0 .. 0 |-> p]
<1>2. f \in [0 .. 0 -> Proper] /\ f[0] = p /\ \A i \in 1 .. 0 : f[i] \in Select(f[i - 1], steps[i])
  OBVIOUS
<1>3. p \in After(p, steps, 0)
  BY <1>2 DEF After
<1> QED
  BY <1>1, <1>3

\* One more step.
LEMMA AfterNext ==
  ASSUME TypesKept, NEW p, NEW steps \in Seq(Step), NEW k \in Nat, k + 1 \in 1 .. Len(steps)
  PROVE  After(p, steps, k + 1) = UNION {Select(q, steps[k + 1]) : q \in After(p, steps, k)}
<1>1. ASSUME NEW q \in After(p, steps, k + 1)
      PROVE  \E o \in After(p, steps, k) : q \in Select(o, steps[k + 1])
  <2>1. PICK f \in [0 .. k + 1 -> Proper] :
          /\ f[0] = p /\ f[k + 1] = q
          /\ \A i \in 1 .. k + 1 : f[i] \in Select(f[i - 1], steps[i])
    BY DEF After
  <2> DEFINE g == [i \in 0 .. k |-> f[i]]
  <2>2. /\ g \in [0 .. k -> Proper] /\ g[0] = p /\ g[k] = f[k] /\ f[k] \in Proper
        /\ \A i \in 1 .. k : g[i] = f[i] /\ g[i - 1] = f[i - 1]
    BY <2>1
  <2>3. \A i \in 1 .. k : g[i] \in Select(g[i - 1], steps[i])
    BY <2>1, <2>2
  <2> HIDE DEF g
  <2>4. f[k] \in After(p, steps, k)
    BY <2>2, <2>3 DEF After
  <2>5. f[k + 1] \in Select(f[(k + 1) - 1], steps[k + 1]) /\ (k + 1) - 1 = k
    BY <2>1
  <2> QED
    BY <2>1, <2>4, <2>5
<1>2. ASSUME NEW o \in After(p, steps, k), NEW q \in Select(o, steps[k + 1])
      PROVE  q \in After(p, steps, k + 1)
  <2>1. PICK g \in [0 .. k -> Proper] :
          /\ g[0] = p /\ g[k] = o
          /\ \A i \in 1 .. k : g[i] \in Select(g[i - 1], steps[i])
    BY DEF After
  <2>2. o \in Proper /\ steps[k + 1] \in Step
    BY DEF After
  <2>3. q \in Proper
    BY <2>2, SelectsOne
  <2> DEFINE f == [i \in 0 .. k + 1 |-> IF i = k + 1 THEN q ELSE g[i]]
  <2>4. /\ f \in [0 .. k + 1 -> Proper] /\ f[0] = p /\ f[k + 1] = q /\ f[k] = o
        /\ \A i \in 1 .. k : f[i] = g[i] /\ f[i - 1] = g[i - 1]
    BY <2>1, <2>3
  <2> HIDE DEF f
  <2>5. ASSUME NEW i \in 1 .. k + 1 PROVE f[i] \in Select(f[i - 1], steps[i])
    <3>1. CASE i = k + 1
      <4>1. i - 1 = k
        BY <3>1
      <4> QED
        BY <2>4, <3>1, <4>1
    <3>2. CASE i # k + 1
      <4>1. i \in 1 .. k
        BY <3>2
      <4> QED
        BY <2>1, <2>4, <4>1
    <3> QED
      BY <3>1, <3>2
  <2> QED
    BY <2>3, <2>4, <2>5 DEF After
<1> QED
  BY <1>1, <1>2

\* Where the first step leads, and the others from there.
LEMMA AfterFirst ==
  ASSUME TypesKept, NEW p \in Proper, NEW steps \in Seq(Step), NEW k \in Nat, k + 1 \in 1 .. Len(steps)
  PROVE  After(p, steps, k + 1) = UNION {After(q, Tail(steps), k) : q \in Select(p, steps[1])}
<1>0. /\ steps # << >> /\ steps[1] \in Step
      /\ \A i \in 1 .. k : Tail(steps)[i] = steps[i + 1]
  <2>1. steps # << >> /\ 1 \in 1 .. Len(steps)
    BY EmptySeq
  <2>2. Len(Tail(steps)) = Len(steps) - 1 /\ \A i \in 1 .. Len(Tail(steps)) : Tail(steps)[i] = steps[i + 1]
    BY <2>1, HeadTailProperties
  <2>3. \A i \in 1 .. k : i \in 1 .. Len(Tail(steps))
    BY <2>2
  <2> QED
    BY <2>1, <2>2, <2>3
<1>1. ASSUME NEW m \in After(p, steps, k + 1)
      PROVE  \E q \in Select(p, steps[1]) : m \in After(q, Tail(steps), k)
  <2>1. PICK f \in [0 .. k + 1 -> Proper] :
          /\ f[0] = p /\ f[k + 1] = m
          /\ \A i \in 1 .. k + 1 : f[i] \in Select(f[i - 1], steps[i])
    BY DEF After
  <2> DEFINE g == [i \in 0 .. k |-> f[i + 1]]
  <2>2. /\ g \in [0 .. k -> Proper] /\ g[0] = f[1] /\ g[k] = m
        /\ \A i \in 1 .. k : /\ g[i] = f[i + 1] /\ g[i - 1] = f[i]
                             /\ f[i + 1] \in Select(f[i], steps[i + 1])
    <3>1. ASSUME NEW i \in 1 .. k
          PROVE  /\ g[i] = f[i + 1] /\ g[i - 1] = f[i]
                 /\ f[i + 1] \in Select(f[i], steps[i + 1])
      <4>1. i + 1 \in 1 .. k + 1 /\ (i + 1) - 1 = i /\ i - 1 \in 0 .. k /\ (i - 1) + 1 = i
        OBVIOUS
      <4>2. f[i + 1] \in Select(f[(i + 1) - 1], steps[i + 1])
        BY <2>1, <4>1
      <4>3. g[i] = f[i + 1] /\ g[i - 1] = f[i]
        BY <4>1
      <4> QED
        BY <4>1, <4>2, <4>3
    <3>2. g \in [0 .. k -> Proper] /\ g[0] = f[1] /\ g[k] = m
      BY <2>1
    <3> QED
      BY <3>1, <3>2
  <2> HIDE DEF g
  <2>3. \A i \in 1 .. k : g[i] \in Select(g[i - 1], Tail(steps)[i])
    BY <1>0, <2>2
  <2>4. m \in After(f[1], Tail(steps), k)
    BY <2>2, <2>3 DEF After
  <2>5. f[1] \in Select(p, steps[1])
    BY <2>1
  <2> QED
    BY <2>4, <2>5
<1>2. ASSUME NEW q \in Select(p, steps[1]), NEW m \in After(q, Tail(steps), k)
      PROVE  m \in After(p, steps, k + 1)
  <2>1. PICK g \in [0 .. k -> Proper] :
          /\ g[0] = q /\ g[k] = m
          /\ \A i \in 1 .. k : g[i] \in Select(g[i - 1], Tail(steps)[i])
    BY DEF After
  <2> DEFINE f == [i \in 0 .. k + 1 |-> IF i = 0 THEN p ELSE g[i - 1]]
  <2>2. f \in [0 .. k + 1 -> Proper] /\ f[0] = p /\ f[1] = q /\ f[k + 1] = m
    BY <2>1
  <2>3. ASSUME NEW i \in 1 .. k + 1 PROVE f[i] \in Select(f[i - 1], steps[i])
    <3>1. CASE i = 1
      BY <2>2, <3>1
    <3>2. CASE i # 1
      <4>1. /\ i - 1 \in 1 .. k /\ i - 1 \in 0 .. k + 1 /\ i - 1 # 0 /\ i # 0
            /\ (i - 1) + 1 = i
        BY <3>2
      <4>2. f[i] = g[i - 1] /\ f[i - 1] = g[(i - 1) - 1]
        BY <4>1
      <4>3. steps[i] = Tail(steps)[i - 1]
        BY <1>0, <4>1
      <4> QED
        BY <2>1, <4>1, <4>2, <4>3
    <3> QED
      BY <3>1, <3>2
  <2> HIDE DEF f
  <2>4. m \in Proper
    BY DEF After
  <2> QED
    BY <2>2, <2>3, <2>4 DEF After
<1> QED
  BY <1>1, <1>2

\* Only the first k steps count.
LEMMA AfterSame ==
  ASSUME NEW p, NEW s, NEW t, NEW k \in Nat, \A i \in 1 .. k : s[i] = t[i]
  PROVE  After(p, s, k) = After(p, t, k)
  BY DEF After

\* After a step that selects nothing there is nothing.
LEMMA AfterEmpty ==
  ASSUME NEW p, NEW steps, NEW k \in Nat, NEW j \in 0 .. k, After(p, steps, j) = {}
  PROVE  After(p, steps, k) = {}
<1> SUFFICES ASSUME NEW q \in After(p, steps, k) PROVE FALSE
  OBVIOUS
<1>1. PICK f \in [0 .. k -> Proper] :
        f[0] = p /\ \A i \in 1 .. k : f[i] \in Select(f[i - 1], steps[i])
  BY DEF After
<1> DEFINE g == [i \in 0 .. j |-> f[i]]
<1>2. /\ g \in [0 .. j -> Proper] /\ g[0] = p /\ f[j] \in Proper /\ g[j] = f[j]
      /\ \A i \in 1 .. j : g[i] = f[i] /\ g[i - 1] = f[i - 1] /\ i \in 1 .. k
  BY <1>1
<1>3. \A i \in 1 .. j : g[i] \in Select(g[i - 1], steps[i])
  BY <1>1, <1>2
<1> HIDE DEF g
<1>4. f[j] \in After(p, steps, j)
  BY <1>2, <1>3 DEF After
<1> QED
  BY <1>4

\* Meaning, step by step.
LEMMA MeaningIsAfter ==
  ASSUME TypesKept, NEW n \in Nodes, NEW steps \in Seq(Step)
  PROVE  Meaning(n, steps) = After(Self(n), steps, Len(steps))
<1> DEFINE g == CHOOSE g : ArePlaces(g, n, steps)
<1>0. ArePlaces(g, n, steps)
  BY PlacesExist
<1>1. g = [k \in 0 .. Len(steps) |->
             IF k = 0 THEN {Self(n)}
             ELSE UNION {Select(place, steps[k]) : place \in g[k - 1]}]
  BY <1>0 DEF ArePlaces
<1>2. Meaning(n, steps) = g[Len(steps)]
  BY DEF Meaning, ArePlaces
<1> HIDE DEF g
<1> DEFINE A(k) == After(Self(n), steps, k)
           Bad == {k \in 0 .. Len(steps) : A(k) # g[k]}
<1>3. Self(n) \in Proper
  BY DEF Self, Proper, Places
<1>4. Bad = {}
  <2> SUFFICES ASSUME Bad # {} PROVE FALSE
    OBVIOUS
  <2>1. Bad \in SUBSET Nat
    OBVIOUS
  <2>2. PICK k \in Bad : \A j \in Bad : k <= j
    BY <2>1, LeastElement
  <2>3. k \in 0 .. Len(steps) /\ A(k) # g[k] /\ Len(steps) \in Nat
    BY <2>2
  <2>4. k # 0
    BY <1>1, <1>3, <2>3, AfterNone
  <2>5. k - 1 \in 0 .. Len(steps) /\ k \in 1 .. Len(steps) /\ ~ k <= k - 1
    BY <2>3, <2>4
  <2>6. A(k - 1) = g[k - 1]
    BY <2>2, <2>5
  <2>7. k - 1 \in Nat /\ (k - 1) + 1 = k
    BY <2>5
  <2>8. A(k) = UNION {Select(q, steps[k]) : q \in A(k - 1)}
    <3> DEFINE c == k - 1
    <3>1. c \in Nat /\ c + 1 = k /\ c + 1 \in 1 .. Len(steps)
      BY <2>5, <2>7
    <3> HIDE DEF c
    <3>2. After(Self(n), steps, c + 1) = UNION {Select(q, steps[c + 1]) : q \in After(Self(n), steps, c)}
      BY <3>1, AfterNext
    <3> QED
      BY <3>1, <3>2 DEF c
  <2>9. g[k] = UNION {Select(place, steps[k]) : place \in g[k - 1]}
    BY <1>1, <2>4, <2>5
  <2> QED
    BY <2>3, <2>6, <2>8, <2>9
<1>5. Len(steps) \in 0 .. Len(steps)
  OBVIOUS
<1> QED
  BY <1>2, <1>4, <1>5

\* What the first k steps mean.
LEMMA MeaningOfFirst ==
  ASSUME TypesKept, NEW n \in Nodes, NEW steps \in Seq(Step), NEW k \in 0 .. Len(steps)
  PROVE  Meaning(n, SubSeq(steps, 1, k)) = After(Self(n), steps, k)
<1>1. PICK first : first = SubSeq(steps, 1, k)
  OBVIOUS
<1>2. first \in Seq(Step) /\ Len(first) = k /\ \A i \in 1 .. k : first[i] = steps[i]
  BY <1>1
<1>3. Meaning(n, first) = After(Self(n), first, k)
  BY <1>2, MeaningIsAfter
<1>4. k \in Nat
  OBVIOUS
<1>5. After(Self(n), first, k) = After(Self(n), steps, k)
  BY <1>2, <1>4, AfterSame
<1> QED
  BY <1>1, <1>3, <1>5

-----------------------------------------------------------------------------
(***************************************************************************)
(* What ends a call without a node                                         *)
(***************************************************************************)
\* Where steps lead.
Ends(p, args) == After(p, args, Len(args))

\* The dispatchers give the place on the way but do not look into it.
Deeper(p, args) ==
  \E k \in 1 .. Len(args) - 1 : \E q \in After(p, args, k) : q.as = "self" /\ q.node \in OutOfReach

IntAfterValue(args) == \E k \in 2 .. Len(args) : Is(args[k - 1], ValueOps) /\ args[k].kind = "int"

Off(p, args) == Deeper(p, args) \/ IntAfterValue(args)

\* A read has made it a vector.
Misleads(q) == q.as = "self" /\ tid[q.node] # Tree[q.node].tid

\* An index that is past the end, or taken in what is no vector.
NoSuchIndex(p, args) ==
  \E k \in DOMAIN args :
    /\ IsIndex(args[k]) /\ After(p, args, k - 1) # {}
    /\ After(p, args, k) = {} \/ \E q \in After(p, args, k - 1) : Misleads(q)

IsPair(q) == q.as = "self" /\ Tree[q.node].tid \in {"Binding", "Dict_Entry"}

\* The process ends, or a NULL comes back, only where the steps lead nowhere
\* or off; what a NULL stands for has no value that :$ could ask for.
Fine(is, p, args) ==
  /\ is = "died" => Ends(p, args) = {} \/ Off(p, args)
  /\ is = "wrapped_NULL" => NoSuchIndex(p, args)
  /\ is \in {"NULL", "wrapped_NULL"} => Off(p, args) \/ \A q \in Ends(p, args) : ~IsPair(q)

Explained(results, p, args) == \A r \in results : Fine(r.is, p, args)

LEMMA Harmless ==
  ASSUME NEW p, NEW args
  PROVE  /\ \A is : is \notin {"died", "NULL", "wrapped_NULL"} => Fine(is, p, args)
         /\ Explained(Error, p, args) /\ Explained(Undefined, p, args)
         /\ \A n : Explained(Property(n), p, args) /\ (n # 0 => Explained(Wrap(n), p, args))
         /\ \A is, of : is \notin {"died", "NULL", "wrapped_NULL"} => Explained({R(is, of)}, p, args)
  BY DEF Fine, Explained, Error, Undefined, Property, Wrap, Bare, R

LEMMA CommonExplained ==
  ASSUME NEW p, NEW args, NEW n, n # 0, NEW op
  PROVE  Explained(CommonProperty(n, op), p, args)
<1> DEFINE X(S) == Explained(S, p, args)
<1>1. /\ X(Error) /\ X(Undefined) /\ X(Property(n)) /\ X({R("value", <<n>>)}) /\ X({Bare("nil")})
      /\ X({R("nodes", Kids(n))})
  BY Harmless DEF Bare
<1>2. CASE Is(op, {"$"})
  <2>1. CommonProperty(n, op) =
          IF tid[n] \in {"STRING", "ID", "INT"} THEN {R("value", <<n>>)} ELSE Undefined
    BY <1>2 DEF CommonProperty, Is, CommonProps, Predicates
  <2> QED
    BY <1>1, <2>1
<1>3. CASE Is(op, {"subnodes"})
  <2>1. CommonProperty(n, op) = IF Kids(n) = << >> THEN {Bare("nil")} ELSE {R("nodes", Kids(n))}
    BY <1>3 DEF CommonProperty, Is, CommonProps, Predicates
  <2> QED
    BY <1>1, <2>1
<1>4. CASE Is(op, CommonProps \cup Predicates)
  <2>1. CommonProperty(n, op) = Property(n)
    BY <1>4 DEF CommonProperty, Is, CommonProps, Predicates
  <2> QED
    BY <1>1, <2>1
<1>5. CASE ~Is(op, {"$"}) /\ ~Is(op, {"subnodes"}) /\ ~Is(op, CommonProps \cup Predicates)
  <2>1. CommonProperty(n, op) = Error
    BY <1>5 DEF CommonProperty
  <2> QED
    BY <1>1, <2>1
<1> QED
  BY <1>2, <1>3, <1>4, <1>5

LEMMA AfterOne ==
  ASSUME TypesKept, NEW p \in Proper, NEW args \in Seq(Step), args # << >>
  PROVE  After(p, args, 1) = Select(p, args[1])
<1>1. PICK z \in Nat : z = 0
  OBVIOUS
<1>2. z + 1 = 1 /\ z + 1 \in 1 .. Len(args)
  BY <1>1, EmptySeq
<1>3. After(p, args, z + 1) = UNION {Select(q, args[z + 1]) : q \in After(p, args, z)}
  BY <1>2, AfterNext
<1>4. After(p, args, z) = {p}
  BY <1>1, AfterNone
<1>5. After(p, args, 1) = UNION {Select(q, args[1]) : q \in {p}}
  BY <1>2, <1>3, <1>4
<1> QED
  BY <1>5

\* Where the first step leads nowhere.
LEMMA NothingSelected ==
  ASSUME TypesKept, NEW p \in Proper, NEW args \in Seq(Step), args # << >>,
         Select(p, args[1]) = {}
  PROVE  /\ Ends(p, args) = {}
         /\ \A is : is # "wrapped_NULL" \/ IsIndex(args[1]) => Fine(is, p, args)
         /\ Explained(Died, p, args) /\ Explained(Null, p, args)
         /\ \A n : IsIndex(args[1]) => Explained(Wrap(n), p, args)
<1>1. After(p, args, 1) = {} /\ After(p, args, 0) = {p}
  BY AfterOne, AfterNone
<1>2. Len(args) \in Nat /\ 1 \in 0 .. Len(args) /\ 1 \in DOMAIN args
  BY EmptySeq
<1>3. Ends(p, args) = {}
  BY <1>1, <1>2, AfterEmpty DEF Ends
<1>4. IsIndex(args[1]) => NoSuchIndex(p, args)
  BY <1>1, <1>2 DEF NoSuchIndex
<1>5. \A is : is # "wrapped_NULL" \/ IsIndex(args[1]) => Fine(is, p, args)
  BY <1>3, <1>4 DEF Fine
<1> QED
  BY <1>3, <1>5 DEF Explained, Died, Null, Wrap, Bare, R

\* Where the steps have gone off.
LEMMA OffExplained ==
  ASSUME NEW p, NEW args, Off(p, args)
  PROVE  /\ \A is : is # "wrapped_NULL" => Fine(is, p, args)
         /\ Explained(Died, p, args) /\ Explained(Null, p, args)
  BY DEF Fine, Explained, Died, Null, Bare, R

\* Where the first step leads on.
LEMMA OneSelected ==
  ASSUME TypesKept, NEW p \in Proper, NEW args \in Seq(Step), args # << >>,
         NEW q \in Select(p, args[1])
  PROVE  /\ q \in Proper /\ After(p, args, 1) = {q}
         /\ Len(args) = 1 => Ends(p, args) = {q}
         /\ \A k \in Nat : k + 1 \in 1 .. Len(args) => After(p, args, k + 1) = After(q, Tail(args), k)
<1>1. args[1] \in Step
  BY TailOfSteps
<1>2. q \in Proper /\ Select(p, args[1]) = {q}
  BY <1>1, SelectsOne
<1>3. After(p, args, 1) = {q}
  BY <1>2, AfterOne
<1>4. ASSUME NEW k \in Nat, k + 1 \in 1 .. Len(args)
      PROVE  After(p, args, k + 1) = After(q, Tail(args), k)
  <2>1. After(p, args, k + 1) = UNION {After(o, Tail(args), k) : o \in Select(p, args[1])}
    BY <1>4, AfterFirst
  <2> QED
    BY <1>2, <2>1
<1> QED
  BY <1>2, <1>3, <1>4 DEF Ends

LEMMA FurtherExplained ==
  ASSUME TypesKept, NEW p \in Proper, NEW args \in Seq(Step), Len(args) > 1,
         NEW q \in Select(p, args[1])
  PROVE  /\ Ends(p, args) = Ends(q, Tail(args))
         /\ Off(q, Tail(args)) => Off(p, args)
         /\ NoSuchIndex(q, Tail(args)) => NoSuchIndex(p, args)
         /\ q.as = "self" /\ q.node \in OutOfReach => Off(p, args)
         /\ \A is : Fine(is, q, Tail(args)) => Fine(is, p, args)
         /\ \A results : Explained(results, q, Tail(args)) => Explained(results, p, args)
<1> DEFINE rest == Tail(args)
<1>1. /\ args # << >> /\ rest \in Seq(Step) /\ Len(rest) = Len(args) - 1 /\ Len(args) \in Nat
      /\ \A i \in 1 .. Len(rest) : rest[i] = args[i + 1]
  BY MoreSteps, HeadTailProperties
<1>0. args # << >>
  BY MoreSteps
<1>2. /\ q \in Proper /\ After(p, args, 1) = {q}
      /\ \A k \in Nat : k + 1 \in 1 .. Len(args) => After(p, args, k + 1) = After(q, rest, k)
  BY <1>0, OneSelected
<1> HIDE DEF rest
<1>3. ASSUME NEW k \in 0 .. Len(rest) PROVE After(p, args, k + 1) = After(q, rest, k)
  <2>1. k \in Nat /\ k + 1 \in 1 .. Len(args)
    BY <1>1
  <2> QED
    BY <1>2, <2>1
<1>4. Ends(p, args) = Ends(q, rest)
  <2>1. Len(rest) \in 0 .. Len(rest) /\ Len(rest) + 1 = Len(args)
    BY <1>1
  <2> QED
    BY <1>3, <2>1 DEF Ends
<1>5. ASSUME Deeper(q, rest) PROVE Deeper(p, args)
  <2>1. PICK k \in 1 .. Len(rest) - 1 : \E m \in After(q, rest, k) : m.as = "self" /\ m.node \in OutOfReach
    BY <1>5 DEF Deeper
  <2>2. k + 1 \in 1 .. Len(args) - 1 /\ k \in 0 .. Len(rest)
    BY <1>1
  <2> QED
    BY <1>3, <2>1, <2>2 DEF Deeper
<1>6. ASSUME IntAfterValue(rest) PROVE IntAfterValue(args)
  <2>1. PICK k \in 2 .. Len(rest) : Is(rest[k - 1], ValueOps) /\ rest[k].kind = "int"
    BY <1>6 DEF IntAfterValue
  <2>2. k + 1 \in 2 .. Len(args) /\ k \in 1 .. Len(rest) /\ k - 1 \in 1 .. Len(rest) /\ (k + 1) - 1 = k
    BY <1>1
  <2>3. rest[k] = args[k + 1] /\ rest[k - 1] = args[(k - 1) + 1] /\ (k - 1) + 1 = k
    BY <1>1, <2>2
  <2> QED
    BY <2>1, <2>2, <2>3 DEF IntAfterValue
<1>7. ASSUME NoSuchIndex(q, rest) PROVE NoSuchIndex(p, args)
  <2>1. PICK k \in DOMAIN rest :
          /\ IsIndex(rest[k]) /\ After(q, rest, k - 1) # {}
          /\ After(q, rest, k) = {} \/ \E m \in After(q, rest, k - 1) : Misleads(m)
    BY <1>7 DEF NoSuchIndex
  <2>2. /\ k \in 1 .. Len(rest) /\ k \in 0 .. Len(rest) /\ k - 1 \in 0 .. Len(rest)
        /\ k + 1 \in DOMAIN args /\ (k - 1) + 1 = (k + 1) - 1
    BY <1>1
  <2>3. After(p, args, k + 1) = After(q, rest, k) /\ After(p, args, (k - 1) + 1) = After(q, rest, k - 1)
    BY <1>3, <2>2
  <2> QED
    BY <1>1, <2>1, <2>2, <2>3 DEF NoSuchIndex
<1>8. ASSUME q.as = "self", q.node \in OutOfReach PROVE Deeper(p, args)
  <2>1. 1 \in 1 .. Len(args) - 1
    BY <1>1
  <2> QED
    BY <1>2, <1>8, <2>1 DEF Deeper
<1>9. ASSUME NEW is, Fine(is, q, rest) PROVE Fine(is, p, args)
  BY <1>4, <1>5, <1>6, <1>7, <1>9 DEF Fine, Off
<1> QED
  BY <1>4, <1>5, <1>6, <1>7, <1>8, <1>9 DEF Off, Explained, rest

LEMMA RetypeExplained ==
  ASSUME NEW p, NEW args, NEW nodes, NEW results \in SUBSET Result, Explained(results, p, args)
  PROVE  Explained(Retype(nodes, results), p, args)
<1> SUFFICES ASSUME NEW r \in results PROVE Fine([r EXCEPT !.retyped = nodes].is, p, args)
  BY DEF Retype, Explained
<1>1. [r EXCEPT !.retyped = nodes].is = r.is
  BY DEF Result
<1> QED
  BY <1>1 DEF Explained

LEMMA OrErrorExplained ==
  ASSUME NEW p, NEW args, NEW results \in SUBSET Result, Explained(results, p, args)
  PROVE  Explained(OrError(results), p, args)
<1> SUFFICES ASSUME NEW r \in results
             PROVE  Fine((IF r.is = "NULL" THEN [r EXCEPT !.is = "error"] ELSE r).is, p, args)
  BY DEF OrError, Explained
<1>1. CASE r.is = "NULL"
  <2>1. [r EXCEPT !.is = "error"].is = "error"
    BY DEF Result
  <2> QED
    BY <1>1, <2>1, Harmless
<1>2. CASE r.is # "NULL"
  BY <1>2 DEF Explained
<1> QED
  BY <1>1, <1>2

-----------------------------------------------------------------------------
(***************************************************************************)
(* What a step does not select, and what is out of reach                   *)
(***************************************************************************)
LEMMA NotFound ==
  ASSUME NEW seq, NEW st
  PROVE  /\ ~IsIndex(st) \/ At(seq, KwIndex(st)) = 0 => ByIndex(seq, st) = {}
         /\ \A kind : st.kind # kind \/ Keyed(seq, st.s) = 0 => ByKey(seq, st, kind) = {}
  BY DEF ByIndex, ByKey, Found

\* What the nodes below a node are.
LEMMA GrammarTypes ==
  ASSUME NEW n \in Nodes
  PROVE  /\ Tree[n].tid = "Binding" => Tree[Key(n)].tid = "ID" /\ Tree[Val(n)].tid \in Exprs
         /\ Tree[n].tid = "Dict_Entry" => Tree[Val(n)].tid \in Exprs
         /\ Tree[n].tid = "Call_Expr" => Tree[Rule(n)].tid = "ID"
         /\ Tree[n].tid = "Load_Stmt" => Tree[Key(n)].tid = "STRING"
<1>1. PICK kids : kids = Tree[n].kids
  OBVIOUS
<1>2. kids = Kids(n) /\ kids \in Seq(Nodes)
  BY <1>1, NodeFacts DEF Kids
<1>3. /\ Tree[n].tid = "Binding" => Len(kids) = 2 /\ Tree[kids[1]].tid = "ID"
      /\ Tree[n].tid = "Dict_Entry" => Len(kids) = 2
      /\ Tree[n].tid \in {"Binding", "Dict_Entry"} =>
           {Tree[kids[k]].tid : k \in DOMAIN kids} \subseteq Exprs
      /\ Tree[n].tid = "Call_Expr" => Tree[kids[1]].tid = "ID"
      /\ Tree[n].tid = "Load_Stmt" => Tree[kids[1]].tid = "STRING"
  BY <1>1, GrammarAssumption
<1>4. Len(kids) = 2 => 2 \in DOMAIN kids
  BY <1>2
<1>5. Tree[n].tid \in {"Binding", "Dict_Entry"} => Tree[kids[2]].tid \in Exprs
  BY <1>3, <1>4
<1> QED
  BY <1>2, <1>3, <1>5 DEF Key, Val, Rule

LEMMA LoadValues ==
  ASSUME TypesKept, NEW l \in Nodes, Tree[l].tid = "Load_Stmt",
         NEW k \in DOMAIN LoadBindings(l)
  PROVE  Tree[Val(LoadBindings(l)[k])].tid = "STRING"
<1>1. PICK S \in SUBSET DOMAIN Kids(l) : S = {j \in DOMAIN Kids(l) : tid[Kids(l)[j]] = "Binding"}
  OBVIOUS
<1>2. Kids(l) \in Seq(Nodes)
  BY NodeFacts
<1>3. PICK b : b = LoadBindings(l)[k]
  OBVIOUS
<1>4. PICK j \in DOMAIN Kids(l) : b = Kids(l)[j]
  <2>1. LoadBindings(l) = Selected(Kids(l), S)
    BY <1>1 DEF LoadBindings, OfType
  <2>2. \A i \in DOMAIN Selected(Kids(l), S) : \E j \in S : Selected(Kids(l), S)[i] = Kids(l)[j]
    BY <1>2, PickIs
  <2> QED
    BY <1>3, <2>1, <2>2
<1>5. Tree[b].tid = "Binding"
  BY <1>3, ListsOfLoad
<1>6. PICK kids : kids = Tree[l].kids
  OBVIOUS
<1>7. Tree[kids[j]].tid = "Binding" => Tree[Tree[kids[j]].kids[2]].tid = "STRING"
  <2>1. j \in DOMAIN kids
    BY <1>4, <1>6 DEF Kids
  <2> QED
    BY <1>6, <2>1, GrammarAssumption
<1> QED
  BY <1>3, <1>4, <1>5, <1>6, <1>7 DEF Kids, Val

LEMMA LoadArgTypes ==
  ASSUME TypesKept, NEW l \in Nodes, Tree[l].tid = "Load_Stmt", NEW k \in DOMAIN LoadArgs(l)
  PROVE  Tree[LoadArgs(l)[k]].tid = "STRING"
<1>1. Tail(Kids(l)) \in Seq(Nodes)
  BY Grammar
<1>2. LoadArgs(l)[k] \in Nodes /\ tid[LoadArgs(l)[k]] = "STRING"
  BY <1>1, OfTypeIs DEF LoadArgs
<1> QED
  BY <1>2 DEF TypesKept

\* A leaf has nothing to select.
LEMMA NothingInLeaf ==
  ASSUME NEW n, Tree[n].tid \in {"ID", "STRING", "INT"}, NEW st
  PROVE  Select(Self(n), st) = {}
<1>1. SelectSelf(n, st) = {}
  BY DEF SelectSelf
<1> QED
  BY <1>1, SelfSelect

LEMMA NothingInList ==
  ASSUME NEW n, Tree[n].tid = "List_Expr", NEW st,
         ~IsIndex(st) \/ At(Kids(n), KwIndex(st)) = 0
  PROVE  Select(Self(n), st) = {}
<1>1. SelectSelf(n, st) = ByIndex(Kids(n), st)
  BY DEF SelectSelf
<1> QED
  BY <1>1, NotFound, SelfSelect

LEMMA NothingInDict ==
  ASSUME NEW n, Tree[n].tid = "Dict_Expr", NEW st,
         \/ ~IsKwIndex(st) /\ st.kind # "str"
         \/ IsKwIndex(st) /\ At(Kids(n), KwIndex(st)) = 0
         \/ st.kind = "str" /\ Keyed(Kids(n), st.s) = 0
  PROVE  Select(Self(n), st) = {}
<1>1. SelectSelf(n, st) =
        (IF IsKwIndex(st) THEN ByIndex(Kids(n), st) ELSE {}) \cup ByKey(Kids(n), st, "str")
  BY DEF SelectSelf
<1>2. st.kind = "str" => ~IsKwIndex(st)
  BY DEF IsKwIndex
<1> QED
  BY <1>1, <1>2, NotFound, SelfSelect

LEMMA NothingInArgList ==
  ASSUME NEW n, Tree[n].tid = "Arg_List", NEW st,
         \/ ~IsIndex(st) /\ st.kind # "sym"
         \/ IsIndex(st) /\ At(BindingsOf(n), KwIndex(st)) = 0
         \/ st.kind = "sym" /\ Keyed(BindingsOf(n), st.s) = 0
  PROVE  Select(Self(n), st) = {}
<1>1. SelectSelf(n, st) = ByIndex(BindingsOf(n), st) \cup ByKey(BindingsOf(n), st, "sym")
  BY DEF SelectSelf
<1>2. st.kind = "sym" => ~IsIndex(st)
  BY DEF IsIndex
<1> QED
  BY <1>1, <1>2, NotFound, SelfSelect

LEMMA NothingInPair ==
  ASSUME NEW n, Tree[n].tid \in {"Binding", "Dict_Entry"}, NEW st, ~Is(st, {"key"}), ~Is(st, ValueOps)
  PROVE  Select(Self(n), st) = {}
<1>1. SelectSelf(n, st) = {}
  BY DEF SelectSelf
<1> QED
  BY <1>1, SelfSelect

\* What the dispatchers give without looking into it.
LEMMA ItemsOutOfReach ==
  ASSUME NEW n \in Nodes, Tree[n].tid = "List_Expr", NEW st \in Step,
         NEW q \in Select(Self(n), st)
  PROVE  q.as = "self" /\ q.node \in OutOfReach
<1>1. IsIndex(st) /\ At(Kids(n), KwIndex(st)) # 0
  BY NothingInList
<1>2. PICK k \in DOMAIN Kids(n) : At(Kids(n), KwIndex(st)) = Kids(n)[k]
  BY <1>1, ItemIsNode
<1>3. q = Self(Kids(n)[k])
  <2>1. SelectSelf(n, st) = ByIndex(Kids(n), st)
    BY DEF SelectSelf
  <2>2. q \in Found(At(Kids(n), KwIndex(st)))
    BY <1>1, <2>1, SelfSelect DEF ByIndex
  <2> QED
    BY <1>1, <1>2, <2>2 DEF Found
<1>4. Kids(n)[k] \in Nodes /\ Kids(n)[k] \in Range(Kids(n))
  BY NodeFacts DEF Range
<1> QED
  BY <1>3, <1>4 DEF Self, OutOfReach

LEMMA PartsOutOfReach ==
  ASSUME NEW e \in Nodes
  PROVE  /\ Tree[e].tid = "Dict_Entry" => Key(e) \in OutOfReach
         /\ Tree[e].tid = "Dict_Entry" /\ Tree[Val(e)].tid # "List_Expr" => Val(e) \in OutOfReach
         /\ Tree[e].tid = "Binding" /\ Tree[Val(e)].tid = "Call_Expr" => Val(e) \in OutOfReach
<1> SUFFICES ASSUME Tree[e].tid \in {"Binding", "Dict_Entry"}
             PROVE  /\ Tree[e].tid = "Dict_Entry" => Key(e) \in OutOfReach
                    /\ Tree[e].tid = "Dict_Entry" /\ Tree[Val(e)].tid # "List_Expr" => Val(e) \in OutOfReach
                    /\ Tree[e].tid = "Binding" /\ Tree[Val(e)].tid = "Call_Expr" => Val(e) \in OutOfReach
  OBVIOUS
<1>1. Key(e) \in Nodes /\ Val(e) \in Nodes
  BY Grammar
<1>2. Key(e) \in Range(Kids(e)) /\ Val(e) \in Range(Kids(e))
  <2>1. PICK kids : kids = Tree[e].kids
    OBVIOUS
  <2>2. Len(kids) = 2
    BY <2>1, GrammarAssumption
  <2>3. kids = Kids(e) /\ kids \in Seq(Nodes)
    BY <2>1, NodeFacts DEF Kids
  <2>4. 1 \in DOMAIN kids /\ 2 \in DOMAIN kids
    BY <2>2, <2>3
  <2> QED
    BY <2>3, <2>4 DEF Key, Val, Range
<1> QED
  BY <1>1, <1>2 DEF OutOfReach

-----------------------------------------------------------------------------
(***************************************************************************)
(* Vectors and dictionaries, explained                                     *)
(***************************************************************************)
LEMMA SelfIsProper == ASSUME NEW n \in Nodes PROVE Self(n) \in Proper /\ n # 0
  BY NodeFacts DEF Self, Proper, Places

\* What is looked up is selected, or nothing is.
LEMMA VectorExplained ==
  ASSUME TypesKept, NEW v \in Nodes, Tree[v].tid = "List_Expr", NEW args \in Seq(Step), args # << >>
  PROVE  Explained(Vector(v, args), Self(v), args)
<1> DEFINE item == At(Kids(v), KwIndex(args[1]))
           X(S) == Explained(S, Self(v), args)
<1>1. Self(v) \in Proper /\ args[1] \in Step
  BY SelfIsProper, TailOfSteps
<1>2. CASE Is(args[1], {"list-expr?"})
  BY <1>2, Harmless DEF Vector
<1>3. CASE ~Is(args[1], {"list-expr?"}) /\ IsIndex(args[1])
  <2>1. Vector(v, args) = Wrap(item)
    BY <1>3 DEF Vector, Leaves
  <2>2. CASE item = 0
    <3>1. Select(Self(v), args[1]) = {}
      BY <2>2, NothingInList
    <3> QED
      BY <1>1, <1>3, <2>1, <3>1, NothingSelected
  <2>3. CASE item # 0
    BY <2>1, <2>3, Harmless
  <2> QED
    BY <2>2, <2>3
<1>4. CASE ~Is(args[1], {"list-expr?"}) /\ ~IsIndex(args[1])
  <2>1. Vector(v, args) = Null
    BY <1>4 DEF Vector, Leaves
  <2>2. Select(Self(v), args[1]) = {}
    BY <1>4, NothingInList
  <2> QED
    BY <1>1, <2>1, <2>2, NothingSelected
<1> QED
  BY <1>2, <1>3, <1>4

\* An index in what a read has made a vector.
LEMMA MisledHere ==
  ASSUME TypesKept, NEW v \in Nodes, tid[v] # Tree[v].tid, NEW args \in Seq(Step), args # << >>,
         IsIndex(args[1])
  PROVE  NoSuchIndex(Self(v), args)
<1>1. PICK z \in Nat : z = 0
  OBVIOUS
<1>2. 1 \in DOMAIN args /\ 1 - 1 = z
  BY <1>1, EmptySeq
<1>3. After(Self(v), args, z) = {Self(v)} /\ Self(v) \in {Self(v)}
  BY <1>1, SelfIsProper, AfterNone
<1>4. Misleads(Self(v))
  BY DEF Misleads, Self
<1> QED
  BY <1>2, <1>3, <1>4 DEF NoSuchIndex

\* What a vector that is none may give.
LEMMA MisreadIs ==
  ASSUME NEW v, NEW args, Tree[v].tid # "List_Expr", NEW r \in Vector(v, args)
  PROVE  /\ r.is \in {"property", "died", "NULL", "wrapped_NULL", "node", "undefined"}
         /\ r.is = "wrapped_NULL" => IsIndex(args[1])
<1>1. \A q \in Misread(v) : q.is \in {"node", "undefined"}
  BY DEF Misread, Undefined, Bare, R
<1>2. /\ \A q \in Property(v) : q.is = "property"
      /\ \A q \in Died : q.is = "died"
      /\ \A q \in Null : q.is = "NULL"
      /\ \A q \in Wrap(0) : q.is = "wrapped_NULL"
  BY DEF Property, Died, Null, Wrap, Bare, R
<1> QED
  BY <1>1, <1>2 DEF Vector

\* Steps after a dictionary entry: its key and its value are not looked into,
\* but for one item of a list.
LEMMA BeyondEntry ==
  ASSUME TypesKept, NEW e \in Nodes, Tree[e].tid = "Dict_Entry", NEW args \in Seq(Step), args # << >>
  PROVE  /\ Is(args[1], {"key"}) /\ Len(args) > 1 => Off(Self(e), args)
         /\ Is(args[1], ValueOps) /\ Len(args) > 1 /\ Tree[Val(e)].tid # "List_Expr" => Off(Self(e), args)
         /\ Is(args[1], ValueOps) /\ Len(args) > 2 => Off(Self(e), args) \/ Ends(Self(e), args) = {}
         /\ ~Is(args[1], {"key"}) /\ ~Is(args[1], ValueOps) => Ends(Self(e), args) = {}
<1>1. Self(e) \in Proper /\ args[1] \in Step /\ Key(e) \in Nodes /\ Val(e) \in Nodes
  BY SelfIsProper, TailOfSteps, Grammar
<1>2. /\ Is(args[1], {"key"}) => Self(Key(e)) \in Select(Self(e), args[1])
      /\ Is(args[1], ValueOps) => Self(Val(e)) \in Select(Self(e), args[1])
  BY <1>1, SelectsPart
<1>3. \A n : Self(n).as = "self" /\ Self(n).node = n
  BY DEF Self
<1>4. ASSUME Is(args[1], {"key"}), Len(args) > 1 PROVE Off(Self(e), args)
  <2>1. Key(e) \in OutOfReach
    BY PartsOutOfReach
  <2> QED
    BY <1>1, <1>2, <1>3, <1>4, <2>1, FurtherExplained
<1>5. ASSUME Is(args[1], ValueOps), Len(args) > 1, Tree[Val(e)].tid # "List_Expr"
      PROVE  Off(Self(e), args)
  <2>1. Val(e) \in OutOfReach
    BY <1>5, PartsOutOfReach
  <2> QED
    BY <1>1, <1>2, <1>3, <1>5, <2>1, FurtherExplained
<1>6. ASSUME Is(args[1], ValueOps), Len(args) > 2
      PROVE  Off(Self(e), args) \/ Ends(Self(e), args) = {}
  <2>1. Len(args) > 1 /\ Tail(args) \in Seq(Step) /\ Tail(args) # << >> /\ Len(Tail(args)) > 1
    BY <1>6, MoreSteps, ManySteps
  <2>2. CASE Tree[Val(e)].tid = "List_Expr"
    <3>1. Self(Val(e)) \in Proper /\ Tail(args)[1] \in Step
      BY <1>1, <2>1, SelfIsProper, TailOfSteps
    <3>2. CASE Select(Self(Val(e)), Tail(args)[1]) = {}
      <4>1. Ends(Self(Val(e)), Tail(args)) = {}
        BY <2>1, <3>1, <3>2, NothingSelected
      <4>2. Ends(Self(e), args) = Ends(Self(Val(e)), Tail(args))
        BY <1>1, <1>2, <1>6, <2>1, FurtherExplained
      <4> QED
        BY <4>1, <4>2
    <3>3. ASSUME NEW q \in Select(Self(Val(e)), Tail(args)[1]) PROVE Off(Self(e), args)
      <4>1. q.as = "self" /\ q.node \in OutOfReach
        BY <1>1, <2>2, <3>1, ItemsOutOfReach
      <4>2. Off(Self(Val(e)), Tail(args))
        BY <2>1, <3>1, <4>1, FurtherExplained
      <4> QED
        BY <1>1, <1>2, <1>6, <2>1, <4>2, FurtherExplained
    <3> QED
      BY <3>2, <3>3
  <2> QED
    BY <1>5, <1>6, <2>1, <2>2
<1>7. ASSUME ~Is(args[1], {"key"}), ~Is(args[1], ValueOps) PROVE Ends(Self(e), args) = {}
  <2>1. Select(Self(e), args[1]) = {}
    BY <1>7, NothingInPair
  <2> QED
    BY <1>1, <2>1, NothingSelected
<1> QED
  BY <1>4, <1>5, <1>6, <1>7

\* An item, after the value of an entry.
LEMMA EntryItemExplained ==
  ASSUME TypesKept, NEW e \in Nodes, Tree[e].tid = "Dict_Entry", NEW args \in Seq(Step), Len(args) = 2,
         Is(args[1], ValueOps)
  PROVE  Explained(EntryItem(Val(e), args[2]), Self(e), args)
<1> DEFINE v == Val(e)
           item == At(Kids(v), KwIndex(args[2]))
           X(S) == Explained(S, Self(e), args)
<1>0. Len(args) > 1
  OBVIOUS
<1>1. /\ Len(args) > 1 /\ args # << >> /\ args[1] \in Step /\ args[2] \in Step
      /\ Tail(args) \in Seq(Step) /\ Tail(args) # << >> /\ Tail(args)[1] = args[2]
  BY <1>0, MoreSteps
<1>2. Self(e) \in Proper /\ v \in Nodes /\ Self(v) \in Proper
  BY SelfIsProper, Grammar
<1>3. Self(v) \in Select(Self(e), args[1])
  BY <1>1, SelectsPart
<1>4. CASE Tree[v].tid # "List_Expr"
  <2>1. Off(Self(e), args)
    BY <1>1, <1>4, BeyondEntry
  <2>2. EntryItem(v, args[2]) \subseteq Null \cup Undefined \cup Misread(v)
    BY <1>4 DEF EntryItem
  <2>3. X(Misread(v))
    BY Harmless DEF Misread, Undefined, Explained, Bare, R
  <2>4. X(Null) /\ X(Undefined)
    BY <2>1, OffExplained, Harmless
  <2> QED
    BY <2>2, <2>3, <2>4 DEF Explained
<1>5. CASE Tree[v].tid = "List_Expr" /\ IsKwIndex(args[2])
  <2>1. EntryItem(v, args[2]) = IF item = 0 THEN Null ELSE Wrap(item)
    BY <1>5 DEF EntryItem, Leaves
  <2>2. CASE item = 0
    <3>1. Select(Self(v), args[2]) = {}
      BY <1>5, <2>2, NothingInList
    <3>2. Explained(Null, Self(v), Tail(args))
      BY <1>1, <1>2, <3>1, NothingSelected
    <3> QED
      BY <1>1, <1>2, <1>3, <2>1, <2>2, <3>2, FurtherExplained
  <2>3. CASE item # 0
    BY <2>1, <2>3, Harmless
  <2> QED
    BY <2>2, <2>3
<1>6. CASE Tree[v].tid = "List_Expr" /\ ~IsKwIndex(args[2])
  <2>1. EntryItem(v, args[2]) = Null
    BY <1>6 DEF EntryItem
  <2>2. CASE args[2].kind = "int"
    <3>1. 2 \in 2 .. Len(args)
      OBVIOUS
    <3>2. IntAfterValue(args)
      BY <2>2, <3>1 DEF IntAfterValue
    <3> QED
      BY <2>1, <3>2, OffExplained DEF Off
  <2>3. CASE args[2].kind # "int"
    <3>1. ~IsIndex(args[2])
      BY <1>6, <2>3 DEF IsIndex, IsKwIndex
    <3>2. Select(Self(v), args[2]) = {}
      BY <1>6, <3>1, NothingInList
    <3>3. Explained(Null, Self(v), Tail(args))
      BY <1>1, <1>2, <3>2, NothingSelected
    <3> QED
      BY <1>1, <1>2, <1>3, <2>1, <3>3, FurtherExplained
  <2> QED
    BY <2>2, <2>3
<1> QED
  BY <1>4, <1>5, <1>6

LEMMA EntryItemResult ==
  ASSUME NEW v \in Nodes, NEW st \in Step
  PROVE  EntryItem(v, st) \in SUBSET Result
<1> DEFINE item == At(Kids(v), KwIndex(st))
<1>1. item \in Nodes \cup {0}
  BY ItemIsNode DEF Nodal
<1>2. << >> \in Seq(Nodes) /\ (item # 0 => <<item>> \in Seq(Nodes))
  BY <1>1
<1>3. Null \subseteq Result /\ Undefined \subseteq Result
  BY <1>2 DEF Null, Undefined, Bare, R, Result
<1>4. item # 0 => Wrap(item) \subseteq Result
  BY <1>2 DEF Wrap, R, Result
<1>5. Misread(v) \subseteq Result
  BY MisreadOutcomes DEF Outcomes
<1> QED
  BY <1>3, <1>4, <1>5 DEF EntryItem

LEMMA EntryPartExplained ==
  ASSUME TypesKept, NEW d \in Nodes, Tree[d].tid = "Dict_Expr",
         NEW args \in Seq(Step), args # << >>, args[1].kind = "str"
  PROVE  Explained(EntryPart(d, args), Self(d), args)
<1> DEFINE entry == Keyed(Kids(d), args[1].s)
           rest == Tail(args)
           X(S) == Explained(S, Self(d), args)
<1>1. Self(d) \in Proper /\ args[1] \in Step /\ (Len(args) = 1 \/ Len(args) > 1)
  BY SelfIsProper, TailOfSteps
<1>2. CASE entry = 0
  <2>1. EntryPart(d, args) = Error
    BY <1>2 DEF EntryPart
  <2> QED
    BY <2>1, Harmless
<1>3. CASE entry # 0 /\ Len(args) = 1
  <2>1. EntryPart(d, args) = Wrap(entry)
    BY <1>3 DEF EntryPart
  <2> QED
    BY <1>3, <2>1, Harmless
<1>4. CASE entry # 0 /\ Len(args) > 1
  <2>1. entry \in Nodes /\ Tree[entry].tid = "Dict_Entry" /\ Self(entry) \in Select(Self(d), args[1])
    <3>1. \E k \in DOMAIN Kids(d) : entry = Kids(d)[k]
      BY <1>4, KeyedIsNode
    <3> QED
      BY <1>1, <1>4, <3>1, Grammar, SelectsKeyed
  <2>2. /\ rest \in Seq(Step) /\ rest # << >> /\ rest[1] = args[2] /\ Len(rest) = Len(args) - 1
        /\ Len(args) \in Nat
    BY <1>4, MoreSteps, TailOfSteps
  <2>3. /\ Off(Self(entry), rest) => Off(Self(d), args)
        /\ Ends(Self(entry), rest) = {} => Ends(Self(d), args) = {}
        /\ \A results : Explained(results, Self(entry), rest) => X(results)
    BY <1>1, <1>4, <2>1, FurtherExplained
  <2>4. Key(entry) # 0 /\ Val(entry) # 0 /\ Val(entry) \in Nodes
    BY <2>1, Grammar, NodeFacts
  <2>5. Off(Self(d), args) \/ Ends(Self(d), args) = {} => X(Null)
    BY DEF Fine, Explained, Null, Bare, R
  <2>6. CASE Is(args[2], {"key"})
    <3>1. ~Is(args[2], ValueOps)
      BY <2>6 DEF Is, ValueOps
    <3>2. CASE Len(args) = 2
      <4>1. EntryPart(d, args) = Wrap(Key(entry))
        BY <1>4, <2>6, <3>1, <3>2 DEF EntryPart
      <4> QED
        BY <2>4, <4>1, Harmless
    <3>3. CASE Len(args) # 2
      <4>1. EntryPart(d, args) = Null
        BY <1>4, <2>6, <3>1, <3>3 DEF EntryPart
      <4>2. Len(rest) > 1
        BY <1>4, <2>2, <3>3
      <4>3. Off(Self(entry), rest)
        BY <2>1, <2>2, <2>6, <4>2, BeyondEntry
      <4> QED
        BY <2>3, <2>5, <4>1, <4>3
    <3> QED
      BY <3>2, <3>3
  <2>7. CASE Is(args[2], ValueOps)
    <3>1. ~Is(args[2], {"key"})
      BY <2>7 DEF Is, ValueOps
    <3>2. CASE Len(args) = 2
      <4>1. EntryPart(d, args) = Wrap(Val(entry))
        BY <1>4, <2>7, <3>1, <3>2 DEF EntryPart
      <4> QED
        BY <2>4, <4>1, Harmless
    <3>3. CASE Len(args) = 3
      <4>1. EntryPart(d, args) = Retype({Val(entry)}, EntryItem(Val(entry), args[3]))
        BY <1>4, <2>7, <3>1, <3>3 DEF EntryPart
      <4>2. Len(rest) = 2 /\ args[3] \in Step /\ rest[2] = args[3]
        <5>1. Len(args) > 2
          BY <3>3
        <5> QED
          BY <2>2, <3>3, <5>1, ManySteps
      <4>3. Explained(EntryItem(Val(entry), args[3]), Self(entry), rest)
        BY <2>1, <2>2, <2>7, <4>2, EntryItemExplained
      <4>4. EntryItem(Val(entry), args[3]) \in SUBSET Result
        BY <2>4, <4>2, EntryItemResult
      <4>5. Explained(EntryItem(Val(entry), args[3]), Self(d), args)
        BY <2>3, <4>3
      <4>6. Explained(Retype({Val(entry)}, EntryItem(Val(entry), args[3])), Self(d), args)
        BY <4>4, <4>5, RetypeExplained
      <4> QED
        BY <4>1, <4>6
    <3>4. CASE Len(args) # 2 /\ Len(args) # 3
      <4>1. EntryPart(d, args) = Null
        BY <1>4, <2>7, <3>1, <3>4 DEF EntryPart
      <4>2. Len(rest) > 2
        BY <1>4, <2>2, <3>4
      <4>3. Off(Self(entry), rest) \/ Ends(Self(entry), rest) = {}
        BY <2>1, <2>2, <2>7, <4>2, BeyondEntry
      <4> QED
        BY <2>3, <2>5, <4>1, <4>3
    <3> QED
      BY <3>2, <3>3, <3>4
  <2>8. CASE ~Is(args[2], {"key"}) /\ ~Is(args[2], ValueOps)
    <3>1. EntryPart(d, args) = Null
      BY <1>4, <2>8 DEF EntryPart
    <3>2. Ends(Self(entry), rest) = {}
      BY <2>1, <2>2, <2>8, BeyondEntry
    <3> QED
      BY <2>3, <2>5, <3>1, <3>2
  <2> QED
    BY <2>6, <2>7, <2>8
<1> QED
  BY <1>1, <1>2, <1>3, <1>4

LEMMA EntryPartAtExplained ==
  ASSUME TypesKept, NEW d \in Nodes, Tree[d].tid = "Dict_Expr",
         NEW args \in Seq(Step), args # << >>, IsKwIndex(args[1])
  PROVE  Explained(EntryPartAt(d, args), Self(d), args)
<1> DEFINE entry == At(Kids(d), KwIndex(args[1]))
           rest == Tail(args)
           X(S) == Explained(S, Self(d), args)
<1>1. Self(d) \in Proper /\ args[1] \in Step /\ (Len(args) = 1 \/ Len(args) > 1)
  BY SelfIsProper, TailOfSteps
<1>2. CASE entry = 0
  <2>1. Select(Self(d), args[1]) = {}
    BY <1>2, NothingInDict
  <2>2. X(Null) /\ X(Died)
    BY <1>1, <2>1, NothingSelected
  <2> QED
    BY <1>2, <2>2 DEF EntryPartAt
<1>3. CASE entry # 0
  <2>1. entry \in Nodes /\ Tree[entry].tid = "Dict_Entry" /\ Self(entry) \in Select(Self(d), args[1])
    <3>1. \E k \in DOMAIN Kids(d) : entry = Kids(d)[k]
      BY <1>1, <1>3, ItemIsNode
    <3> QED
      BY <1>1, <1>3, <3>1, Grammar, SelectsItem
  <2>2. X(Wrap(entry)) /\ X(Wrap(Key(entry))) /\ X(Wrap(Val(entry)))
    <3>1. Key(entry) # 0 /\ Val(entry) # 0
      BY <2>1, Grammar, NodeFacts
    <3> QED
      BY <1>3, <3>1, Harmless
  <2>3. CASE Len(args) = 1
    <3>1. EntryPartAt(d, args) = Wrap(entry)
      BY <1>3, <2>3 DEF EntryPartAt
    <3> QED
      BY <2>2, <3>1
  <2>4. CASE Len(args) > 1 /\ ~Is(args[2], {"key"}) /\ ~Is(args[2], ValueOps)
    <3>1. EntryPartAt(d, args) = Null
      BY <2>4 DEF EntryPartAt
    <3>2. rest \in Seq(Step) /\ rest # << >> /\ rest[1] = args[2]
      BY <2>4, MoreSteps
    <3>3. Ends(Self(entry), rest) = {}
      BY <2>1, <2>4, <3>2, BeyondEntry
    <3>4. Ends(Self(d), args) = {}
      BY <1>1, <2>1, <2>4, <3>3, FurtherExplained
    <3> QED
      BY <3>1, <3>4 DEF Fine, Explained, Null, Bare, R
  <2>5. CASE Len(args) > 1 /\ Is(args[2], {"key"})
    <3>1. EntryPartAt(d, args) = Wrap(Key(entry))
      BY <1>3, <2>5 DEF EntryPartAt, Is, ValueOps
    <3> QED
      BY <2>2, <3>1
  <2>6. CASE Len(args) > 1 /\ Is(args[2], ValueOps)
    <3>1. EntryPartAt(d, args) = Wrap(Val(entry))
      BY <1>3, <2>6 DEF EntryPartAt, Is, ValueOps
    <3> QED
      BY <2>2, <3>1
  <2> QED
    BY <1>1, <2>3, <2>4, <2>5, <2>6
<1> QED
  BY <1>2, <1>3

LEMMA DictExprExplained ==
  ASSUME TypesKept, NEW d \in Nodes, Tree[d].tid = "Dict_Expr", NEW args \in Seq(Step), args # << >>
  PROVE  Explained(DictExpr(d, args), Self(d), args)
<1>1. Self(d) \in Proper /\ args[1] \in Step /\ d # 0
  BY SelfIsProper, TailOfSteps
<1>2. CASE args[1].kind = "int"
  <2>1. DictExpr(d, args) = Null /\ ~IsKwIndex(args[1])
    BY <1>2 DEF DictExpr, IsKwIndex
  <2>2. Select(Self(d), args[1]) = {}
    BY <1>2, <2>1, NothingInDict
  <2> QED
    BY <1>1, <2>1, <2>2, NothingSelected
<1>3. CASE args[1].kind = "str"
  <2>1. DictExpr(d, args) = EntryPart(d, args)
    BY <1>3 DEF DictExpr, IsKwIndex
  <2> QED
    BY <1>3, <2>1, EntryPartExplained
<1>4. CASE IsKwIndex(args[1])
  <2>1. DictExpr(d, args) = EntryPartAt(d, args)
    BY <1>4 DEF DictExpr, IsKwIndex
  <2> QED
    BY <1>4, <2>1, EntryPartAtExplained
<1>5. CASE args[1].kind # "int" /\ args[1].kind # "str" /\ ~IsKwIndex(args[1])
  <2>1. DictExpr(d, args) = CommonProperty(d, args[1])
    BY <1>5 DEF DictExpr
  <2> QED
    BY <1>1, <2>1, CommonExplained
<1> QED
  BY <1>2, <1>3, <1>4, <1>5

LEMMA DictEntryExplained ==
  ASSUME TypesKept, NEW e \in Nodes, Tree[e].tid = "Dict_Entry", NEW args \in Seq(Step), args # << >>
  PROVE  Explained(DictEntry(e, args), Self(e), args)
<1> DEFINE v == Val(e)
           X(S) == Explained(S, Self(e), args)
<1>1. /\ Self(e) \in Proper /\ args[1] \in Step /\ v \in Nodes /\ v # 0 /\ Key(e) # 0
      /\ (Len(args) = 1 \/ Len(args) > 1)
  BY SelfIsProper, TailOfSteps, Grammar, NodeFacts
<1>2. CASE Is(args[1], {"key"})
  <2>1. DictEntry(e, args) = Wrap(Key(e))
    BY <1>2 DEF DictEntry, Is, ValueOps
  <2> QED
    BY <1>1, <2>1, Harmless
<1>3. CASE Is(args[1], ValueOps) /\ Len(args) = 1
  <2>1. DictEntry(e, args) = Wrap(v)
    BY <1>3 DEF DictEntry, Is, ValueOps
  <2> QED
    BY <1>1, <2>1, Harmless
<1>4. CASE Is(args[1], ValueOps) /\ Len(args) > 1
  <2>1. DictEntry(e, args) =
          IF Len(args) > 2 \/ tid[v] \notin {"List_Expr", "Dict_Expr"} THEN Error
          ELSE IF tid[v] = "List_Expr" THEN Vector(v, Tail(args))
          ELSE Null
    BY <1>4 DEF DictEntry, Is, ValueOps
  <2>2. Tail(args) \in Seq(Step) /\ Tail(args) # << >>
    BY <1>4, MoreSteps
  <2>3. CASE Tree[v].tid = "List_Expr"
    <3>1. tid[v] = "List_Expr"
      BY <1>1, <2>3 DEF TypesKept
    <3>2. Self(v) \in Select(Self(e), args[1])
      BY <1>1, <1>4, SelectsPart
    <3>3. Explained(Vector(v, Tail(args)), Self(v), Tail(args))
      BY <1>1, <2>2, <2>3, VectorExplained
    <3>4. X(Vector(v, Tail(args)))
      BY <1>1, <1>4, <3>2, <3>3, FurtherExplained
    <3> QED
      BY <2>1, <3>1, <3>4, Harmless
  <2>4. CASE Tree[v].tid # "List_Expr"
    <3>1. Off(Self(e), args)
      BY <1>4, <2>4, BeyondEntry
    <3>2. ASSUME tid[v] = "List_Expr", NEW r \in Vector(v, Tail(args)) PROVE Fine(r.is, Self(e), args)
      <4>1. CASE r.is = "wrapped_NULL"
        <5>1. NoSuchIndex(Self(v), Tail(args))
          BY <1>1, <2>2, <2>4, <3>2, <4>1, MisreadIs, MisledHere
        <5>2. Self(v) \in Select(Self(e), args[1])
          BY <1>1, <1>4, SelectsPart
        <5>3. NoSuchIndex(Self(e), args)
          BY <1>1, <1>4, <5>1, <5>2, FurtherExplained
        <5> QED
          BY <3>1, <4>1, <5>3 DEF Fine
      <4>2. CASE r.is # "wrapped_NULL"
        BY <3>1, <4>2, OffExplained
      <4> QED
        BY <4>1, <4>2
    <3>3. X(Null) /\ X(Error)
      BY <3>1, OffExplained, Harmless
    <3> QED
      BY <2>1, <3>2, <3>3 DEF Explained
  <2> QED
    BY <2>3, <2>4
<1>5. CASE ~Is(args[1], {"key"}) /\ ~Is(args[1], ValueOps)
  <2>1. DictEntry(e, args) = Null
    BY <1>5 DEF DictEntry
  <2>2. Select(Self(e), args[1]) = {}
    BY <1>5, NothingInPair
  <2> QED
    BY <1>1, <2>1, <2>2, NothingSelected
<1> QED
  BY <1>1, <1>2, <1>3, <1>4, <1>5

-----------------------------------------------------------------------------
(***************************************************************************)
(* Bindings and targets, explained                                         *)
(***************************************************************************)
\* After the value of a binding that is no dictionary: there is nothing, or
\* an item, or a call that the dispatchers do not look into.
LEMMA ValueExplained ==
  ASSUME TypesKept, NEW b \in Nodes, Tree[b].tid = "Binding", NEW args \in Seq(Step), Len(args) > 1,
         Is(args[1], ValueOps), tid[Val(b)] # "Dict_Expr"
  PROVE  /\ ~IsKwIndex(args[2]) => Explained(Died, Self(b), args)
         /\ tid[Val(b)] # "List_Expr" => Explained(Died, Self(b), args) /\ Explained(Null, Self(b), args)
         /\ tid[Val(b)] = "List_Expr" /\ IsKwIndex(args[2]) =>
              Explained(Wrap(At(Kids(Val(b)), KwIndex(args[2]))), Self(b), args)
<1> DEFINE v == Val(b)
           item == At(Kids(v), KwIndex(args[2]))
           X(S) == Explained(S, Self(b), args)
<1>1. /\ args # << >> /\ args[1] \in Step /\ args[2] \in Step
      /\ Tail(args) \in Seq(Step) /\ Tail(args) # << >> /\ Tail(args)[1] = args[2]
  BY MoreSteps
<1>2. Self(b) \in Proper /\ v \in Nodes /\ Self(v) \in Proper
  BY SelfIsProper, Grammar
<1>3. Self(v) \in Select(Self(b), args[1])
  BY <1>1, SelectsPart
<1>4. tid[v] = Tree[v].tid /\ Tree[v].tid \in Exprs
  BY ValueKeepsType, GrammarTypes
<1>5. ASSUME Off(Self(b), args) PROVE X(Died) /\ X(Null)
  BY <1>5, OffExplained
<1>6. ASSUME Select(Self(v), args[2]) = {}
      PROVE  X(Died) /\ X(Null) /\ (IsIndex(args[2]) => X(Wrap(item)))
  <2>1. /\ Explained(Died, Self(v), Tail(args)) /\ Explained(Null, Self(v), Tail(args))
        /\ IsIndex(args[2]) => Explained(Wrap(item), Self(v), Tail(args))
    BY <1>1, <1>2, <1>6, NothingSelected
  <2> QED
    BY <1>1, <1>2, <1>3, <2>1, FurtherExplained
<1>7. CASE Tree[v].tid = "Call_Expr"
  <2>1. v \in OutOfReach /\ Self(v).as = "self" /\ Self(v).node = v
    BY <1>7, PartsOutOfReach DEF Self
  <2>2. Off(Self(b), args)
    BY <1>1, <1>2, <1>3, <2>1, FurtherExplained
  <2> QED
    BY <1>4, <1>5, <1>7, <2>2
<1>8. CASE Tree[v].tid \in {"ID", "STRING", "INT"}
  <2>1. Select(Self(v), args[2]) = {}
    BY <1>8, NothingInLeaf
  <2> QED
    BY <1>4, <1>6, <1>8, <2>1
<1>9. CASE Tree[v].tid = "List_Expr"
  <2>1. CASE args[2].kind = "int"
    <3>1. 2 \in 2 .. Len(args)
      OBVIOUS
    <3>2. Off(Self(b), args)
      BY <2>1, <3>1 DEF IntAfterValue, Off
    <3> QED
      BY <1>4, <1>5, <1>9, <2>1, <3>2 DEF IsKwIndex
  <2>2. CASE args[2].kind # "int" /\ ~IsKwIndex(args[2])
    <3>1. ~IsIndex(args[2])
      BY <2>2 DEF IsIndex, IsKwIndex
    <3>2. Select(Self(v), args[2]) = {}
      BY <1>9, <3>1, NothingInList
    <3> QED
      BY <1>4, <1>6, <1>9, <2>2, <3>2
  <2>3. CASE IsKwIndex(args[2]) /\ item = 0
    <3>1. IsIndex(args[2])
      BY <2>3 DEF IsIndex, IsKwIndex
    <3>2. Select(Self(v), args[2]) = {}
      BY <1>9, <2>3, NothingInList
    <3> QED
      BY <1>4, <1>6, <1>9, <2>3, <3>1, <3>2
  <2>4. CASE IsKwIndex(args[2]) /\ item # 0
    BY <1>4, <1>9, <2>4, Harmless
  <2> QED
    BY <2>1, <2>2, <2>3, <2>4
<1> QED
  BY <1>4, <1>7, <1>8, <1>9 DEF Exprs

\* The parts of a binding, and what its value, a dictionary, gives.
LEMMA PartsExplained ==
  ASSUME TypesKept, NEW b \in Nodes, Tree[b].tid = "Binding", NEW args \in Seq(Step), args # << >>
  PROVE  /\ Explained(Wrap(Key(b)), Self(b), args) /\ Explained(Wrap(Val(b)), Self(b), args)
         /\ Explained(Wrap(b), Self(b), args)
         /\ Is(args[1], ValueOps) /\ Tail(args) # << >> /\ tid[Val(b)] = "Dict_Expr" =>
              Explained(DictExpr(Val(b), Tail(args)), Self(b), args)
         /\ Is(args[1], {"key"}) /\ Tail(args) # << >> => Explained(Null, Self(b), args)
<1>1. /\ args[1] \in Step /\ Key(b) \in Nodes /\ Val(b) \in Nodes /\ Tail(args) \in Seq(Step)
      /\ Tail(args) # << >> => Len(args) > 1
  BY TailOfSteps, Grammar
<1>2. /\ Key(b) # 0 /\ Val(b) # 0 /\ b # 0
      /\ Self(b) \in Proper /\ Self(Key(b)) \in Proper
  BY <1>1, SelfIsProper
<1>3. ASSUME Is(args[1], ValueOps), Tail(args) # << >>, tid[Val(b)] = "Dict_Expr"
      PROVE  Explained(DictExpr(Val(b), Tail(args)), Self(b), args)
  <2>1. Tree[Val(b)].tid = "Dict_Expr"
    BY <1>3, ValueKeepsType
  <2>2. Explained(DictExpr(Val(b), Tail(args)), Self(Val(b)), Tail(args))
    BY <1>1, <1>3, <2>1, DictExprExplained
  <2>3. Self(Val(b)) \in Select(Self(b), args[1])
    BY <1>1, <1>3, SelectsPart
  <2> QED
    BY <1>1, <1>2, <1>3, <2>2, <2>3, FurtherExplained
<1>4. ASSUME Is(args[1], {"key"}), Tail(args) # << >> PROVE Explained(Null, Self(b), args)
  <2>1. Select(Self(Key(b)), Tail(args)[1]) = {}
    BY GrammarTypes, NothingInLeaf
  <2>2. Explained(Null, Self(Key(b)), Tail(args))
    BY <1>1, <1>2, <1>4, <2>1, NothingSelected
  <2>3. Self(Key(b)) \in Select(Self(b), args[1])
    BY <1>1, <1>4, SelectsPart
  <2> QED
    BY <1>1, <1>2, <1>4, <2>2, <2>3, FurtherExplained
<1> QED
  BY <1>2, <1>3, <1>4, Harmless

LEMMA BindingExplained ==
  ASSUME TypesKept, NEW b \in Nodes, Tree[b].tid = "Binding", NEW args \in Seq(Step), args # << >>
  PROVE  Explained(Binding(b, args), Self(b), args)
<1> DEFINE v == Val(b)
           rest == Tail(args)
           X(S) == Explained(S, Self(b), args)
<1>1. X(Wrap(Key(b))) /\ X(Wrap(v)) /\ X(Error)
  BY PartsExplained, Harmless
<1>2. CASE Is(args[1], {"key"})
  <2>1. ~Is(args[1], ValueOps)
    BY <1>2 DEF Is, ValueOps
  <2> QED
    BY <1>1, <1>2, <2>1 DEF Binding
<1>3. CASE Is(args[1], ValueOps)
  <2>1. ~Is(args[1], {"key"})
    BY <1>3 DEF Is, ValueOps
  <2>2. CASE rest = << >>
    BY <1>1, <1>3, <2>1, <2>2 DEF Binding
  <2>3. CASE rest # << >> /\ tid[v] = "Dict_Expr"
    <3>1. Binding(b, args) = DictExpr(v, rest)
      BY <1>3, <2>1, <2>3 DEF Binding
    <3> QED
      BY <1>3, <2>3, <3>1, PartsExplained
  <2>4. CASE rest # << >> /\ tid[v] # "Dict_Expr"
    <3>1. Len(args) > 1 /\ rest[1] = args[2]
      BY <2>4, TailOfSteps
    <3>2. Binding(b, args) =
            IF ~IsKwIndex(rest[1]) THEN Died
            ELSE IF tid[v] = "List_Expr" THEN Wrap(At(Kids(v), KwIndex(rest[1])))
            ELSE Null
      BY <1>3, <2>1, <2>4 DEF Binding
    <3>3. /\ ~IsKwIndex(args[2]) => X(Died)
          /\ tid[v] # "List_Expr" => X(Null)
          /\ tid[v] = "List_Expr" /\ IsKwIndex(args[2]) => X(Wrap(At(Kids(v), KwIndex(args[2]))))
      BY <1>3, <2>4, <3>1, ValueExplained
    <3> QED
      BY <3>1, <3>2, <3>3
  <2> QED
    BY <2>2, <2>3, <2>4
<1>4. CASE ~Is(args[1], {"key"}) /\ ~Is(args[1], ValueOps)
  BY <1>1, <1>4 DEF Binding
<1> QED
  BY <1>2, <1>3, <1>4

LEMMA ComponentExplained ==
  ASSUME TypesKept, NEW b \in Nodes, Tree[b].tid = "Binding", NEW args \in Seq(Step), args # << >>
  PROVE  Explained(Component(b, args), Self(b), args)
<1> DEFINE v == Val(b)
           rest == Tail(args)
           X(S) == Explained(S, Self(b), args)
<1>1. X(Wrap(Key(b))) /\ X(Wrap(v)) /\ X(Error)
  BY PartsExplained, Harmless
<1>2. CASE Is(args[1], {"key"})
  <2>1. ~Is(args[1], ValueOps)
    BY <1>2 DEF Is, ValueOps
  <2>2. Component(b, args) = IF rest = << >> THEN Wrap(Key(b)) ELSE Null
    BY <1>2, <2>1 DEF Component
  <2> QED
    BY <1>1, <1>2, <2>2, PartsExplained
<1>3. CASE Is(args[1], ValueOps)
  <2>1. ~Is(args[1], {"key"})
    BY <1>3 DEF Is, ValueOps
  <2>2. CASE rest = << >>
    BY <1>1, <1>3, <2>1, <2>2 DEF Component
  <2>3. CASE rest # << >> /\ tid[v] = "Dict_Expr"
    <3>1. Component(b, args) = DictExpr(v, rest)
      BY <1>3, <2>1, <2>3 DEF Component
    <3> QED
      BY <1>3, <2>3, <3>1, PartsExplained
  <2>4. CASE rest # << >> /\ tid[v] = "List_Expr"
    <3>1. Len(args) > 1 /\ rest[1] = args[2]
      BY <2>4, TailOfSteps
    <3>2. Component(b, args) =
            CASE IsKwIndex(rest[1]) -> Wrap(At(Kids(v), KwIndex(rest[1])))
              [] rest[1].kind = "str" -> {R("copies", WithText(Kids(v), "STRING", rest[1].s))}
              [] rest[1].kind = "int" -> {R("copies", WithText(Kids(v), "INT", rest[1].s))}
              [] OTHER -> Error
      BY <1>3, <2>1, <2>4 DEF Component
    <3>3. IsKwIndex(args[2]) => X(Wrap(At(Kids(v), KwIndex(args[2]))))
      BY <1>3, <2>4, <3>1, ValueExplained
    <3>4. \A seq : X({R("copies", seq)})
      BY Harmless
    <3>5. CASE IsKwIndex(rest[1])
      BY <3>1, <3>2, <3>3, <3>5 DEF IsKwIndex
    <3>6. CASE rest[1].kind = "str"
      <4>1. ~IsKwIndex(rest[1]) /\ rest[1].kind # "int"
        BY <3>6 DEF IsKwIndex
      <4>2. Component(b, args) = {R("copies", WithText(Kids(v), "STRING", rest[1].s))}
        BY <3>2, <3>6, <4>1
      <4> QED
        BY <3>4, <4>2
    <3>7. CASE rest[1].kind = "int"
      <4>1. ~IsKwIndex(rest[1]) /\ rest[1].kind # "str"
        BY <3>7 DEF IsKwIndex
      <4>2. Component(b, args) = {R("copies", WithText(Kids(v), "INT", rest[1].s))}
        BY <3>2, <3>7, <4>1
      <4> QED
        BY <3>4, <4>2
    <3>8. CASE ~IsKwIndex(rest[1]) /\ rest[1].kind # "str" /\ rest[1].kind # "int"
      BY <1>1, <3>2, <3>8
    <3> QED
      BY <3>5, <3>6, <3>7, <3>8
  <2>5. CASE rest # << >> /\ tid[v] # "Dict_Expr" /\ tid[v] # "List_Expr"
    BY <1>1, <1>3, <2>1, <2>5 DEF Component
  <2> QED
    BY <2>2, <2>3, <2>4, <2>5
<1>4. CASE ~Is(args[1], {"key"}) /\ ~Is(args[1], ValueOps)
  BY <1>1, <1>4 DEF Component
<1> QED
  BY <1>2, <1>3, <1>4

\* A binding that the first step finds answers the rest of the steps.
LEMMA FoundExplained ==
  ASSUME TypesKept, NEW p \in Proper, NEW b \in Nodes, Tree[b].tid = "Binding",
         NEW args \in Seq(Step), args # << >>, Self(b) \in Select(p, args[1])
  PROVE  /\ Explained(Wrap(b), p, args) /\ Explained(Binding(b, Tail(args)), p, args)
         /\ Len(args) > 1 => Explained(Component(b, Tail(args)), p, args)
<1>1. b # 0 /\ Tail(args) \in Seq(Step) /\ (Tail(args) # << >> <=> Len(args) > 1)
  BY SelfIsProper, TailOfSteps
<1>2. Explained(Wrap(b), p, args)
  BY <1>1, Harmless
<1>3. CASE Tail(args) = << >>
  BY <1>1, <1>2, <1>3 DEF Binding
<1>4. CASE Tail(args) # << >>
  <2>1. /\ Explained(Binding(b, Tail(args)), Self(b), Tail(args))
        /\ Explained(Component(b, Tail(args)), Self(b), Tail(args))
    BY <1>1, <1>4, BindingExplained, ComponentExplained
  <2> QED
    BY <1>1, <1>2, <1>4, <2>1, FurtherExplained
<1> QED
  BY <1>3, <1>4

LEMMA BindingsListExplained ==
  ASSUME TypesKept, NEW al \in Nodes, Tree[al].tid = "Arg_List",
         NEW args \in Seq(Step), args # << >>
  PROVE  Explained(BindingsList(al, args), Self(al), args)
<1> DEFINE X(S) == Explained(S, Self(al), args)
           b == IF args[1].kind = "sym" THEN Keyed(BindingsOf(al), args[1].s)
                ELSE At(BindingsOf(al), KwIndex(args[1]))
<1>1. args[1] \in Step /\ Self(al) \in Proper /\ al # 0
  BY TailOfSteps, SelfIsProper
<1>2. CASE IsKw(args[1])
  <2>1. BindingsList(al, args) = CommonProperty(al, args[1])
    BY <1>2 DEF BindingsList, IsKw
  <2> QED
    BY <1>1, <2>1, CommonExplained
<1>3. CASE args[1].kind \in {"sym", "int"} /\ b # 0
  <2>1. ~IsKw(args[1]) /\ (args[1].kind = "int" => IsIndex(args[1]))
    BY <1>3 DEF IsKw, IsIndex
  <2>2. \E k \in DOMAIN BindingsOf(al) : b = BindingsOf(al)[k]
    BY <1>1, <1>3, BindingsOfIs, KwIndexInt, AtIs, KeyedIs
  <2>3. b \in Nodes /\ Tree[b].tid = "Binding"
    BY <2>2, BindingsOfIs
  <2>4. Self(b) \in Select(Self(al), args[1])
    BY <1>1, <1>3, <2>1, SelectsBinding
  <2>5. X(Binding(b, Tail(args)))
    BY <1>1, <2>3, <2>4, FoundExplained
  <2>6. BindingsList(al, args) = Binding(b, Tail(args))
    BY <1>3, <2>1 DEF BindingsList
  <2> QED
    BY <2>5, <2>6
<1>4. CASE ~IsKw(args[1]) /\ ~(args[1].kind \in {"sym", "int"} /\ b # 0)
  <2>1. BindingsList(al, args) = Died
    BY <1>4 DEF BindingsList
  <2>2. Select(Self(al), args[1]) = {}
    <3>1. \/ ~IsIndex(args[1]) /\ args[1].kind # "sym"
          \/ args[1].kind = "int" /\ At(BindingsOf(al), KwIndex(args[1])) = 0
          \/ args[1].kind = "sym" /\ Keyed(BindingsOf(al), args[1].s) = 0
      BY <1>4 DEF IsKw, IsIndex
    <3>2. args[1].kind = "int" => IsIndex(args[1])
      BY DEF IsIndex
    <3> QED
      BY <3>1, <3>2, NothingInArgList
  <2> QED
    BY <1>1, <2>1, <2>2, NothingSelected
<1> QED
  BY <1>2, <1>3, <1>4 DEF IsKw

LEMMA TargetBindingExplained ==
  ASSUME TypesKept, NEW t \in Nodes, Tree[t].tid = "Call_Expr",
         NEW args \in Seq(Step), args # << >>
  PROVE  Explained(TargetBinding(t, args), Self(ArgList(t)), args)
<1> DEFINE al == ArgList(t)
           X(S) == Explained(S, Self(al), args)
           b == IF args[1].kind = "sym" THEN Keyed(Bindings(t), args[1].s)
                ELSE At(Bindings(t), KwIndex(args[1]))
<1>1. X(Error) /\ X({Bare("nil")})
  BY Harmless DEF Bare
<1>2. al \in Nodes /\ Tree[al].tid = "Arg_List" /\ args[1] \in Step
  BY Grammar, TailOfSteps
<1>3. Self(al) \in Proper /\ Bindings(t) = BindingsOf(al) /\ KwIndex(args[1]) \in Int
  BY <1>2, SelfIsProper, KwIndexInt DEF Bindings
<1>4. CASE ~IsIndex(args[1]) /\ args[1].kind # "sym"
  BY <1>1, <1>4 DEF TargetBinding
<1>5. CASE IsIndex(args[1]) /\ b = 0
  <2>1. args[1].kind # "sym"
    BY <1>5 DEF IsIndex
  <2>2. TargetBinding(t, args) = Error \cup Null
    BY <1>5, <2>1 DEF TargetBinding
  <2>3. Select(Self(al), args[1]) = {}
    BY <1>2, <1>3, <1>5, <2>1, NothingInArgList
  <2>4. X(Null)
    BY <1>3, <2>3, NothingSelected
  <2> QED
    BY <1>1, <2>2, <2>4 DEF Explained
<1>6. CASE args[1].kind = "sym" /\ b = 0
  <2>1. ~IsIndex(args[1])
    BY <1>6 DEF IsIndex
  <2>2. TargetBinding(t, args) = {Bare("nil")}
    BY <1>6, <2>1 DEF TargetBinding
  <2> QED
    BY <1>1, <2>2
<1>7. CASE (IsIndex(args[1]) \/ args[1].kind = "sym") /\ b # 0
  <2>1. \E k \in DOMAIN Bindings(t) : b = Bindings(t)[k]
    BY <1>3, <1>7, Attributes, AtIs, KeyedIs
  <2>2. b \in Nodes /\ Tree[b].tid = "Binding"
    BY <2>1, Attributes
  <2>3. Self(b) \in Select(Self(al), args[1])
    BY <1>2, <1>3, <1>7, SelectsBinding
  <2>4. X(Wrap(b)) /\ (Len(args) > 1 => X(Component(b, Tail(args))))
    BY <1>3, <2>2, <2>3, FoundExplained
  <2>5. TargetBinding(t, args) = IF Len(args) = 1 THEN Wrap(b) ELSE Component(b, Tail(args))
    BY <1>7 DEF TargetBinding
  <2>6. Len(args) = 1 \/ Len(args) > 1
    BY TailOfSteps
  <2> QED
    BY <2>4, <2>5, <2>6
<1> QED
  BY <1>4, <1>5, <1>6, <1>7

\* A call has no name, and the steps lead nowhere, or what it gives is fine.
LEMMA TargetExplained ==
  ASSUME TypesKept, NEW t \in Nodes, Tree[t].tid = "Call_Expr",
         NEW args \in Seq(Step), args # << >>
  PROVE  \/ Explained(Target(t, args), Self(t), args)
         \/ /\ Is(args[1], {"name", "key"}) /\ NameOf(t) = 0
            /\ Target(t, args) = {Bare("wrapped_NULL")} /\ Ends(Self(t), args) = {}
<1> DEFINE X(S) == Explained(S, Self(t), args)
<1>1. /\ t # 0 /\ args[1] \in Step /\ Self(t) \in Proper /\ (Len(args) = 1 \/ Len(args) > 1)
      /\ ArgList(t) \in Nodes /\ ArgList(t) # 0 /\ Rule(t) # 0
  BY SelfIsProper, TailOfSteps, Grammar, NodeFacts
<1>2. CASE Is(args[1], AllBindings) /\ Len(args) = 1
  <2>1. Target(t, args) = Wrap(ArgList(t))
    BY <1>1, <1>2 DEF Target, Is, OneBinding, AllBindings
  <2> QED
    BY <1>1, <2>1, Harmless
<1>3. CASE Is(args[1], OneBinding)
  <2>1. ~Is(args[1], AllBindings) /\ ~Is(args[1], {"name", "key"}) /\ ~Is(args[1], {"rule"})
        /\ ~Is(args[1], {"arg-list"})
    BY <1>3 DEF Is, OneBinding, AllBindings
  <2>2. Target(t, args) = IF Len(args) = 1 THEN Wrap(ArgList(t)) ELSE TargetBinding(t, Tail(args))
    BY <1>1, <1>3, <2>1 DEF Target
  <2>3. X(Wrap(ArgList(t)))
    BY <1>1, Harmless
  <2>4. ASSUME Len(args) > 1 PROVE X(TargetBinding(t, Tail(args)))
    <3>1. Tail(args) \in Seq(Step) /\ Tail(args) # << >>
      BY <2>4, MoreSteps
    <3>2. Explained(TargetBinding(t, Tail(args)), Self(ArgList(t)), Tail(args))
      BY <3>1, TargetBindingExplained
    <3>3. Self(ArgList(t)) \in Select(Self(t), args[1])
      <4>1. Is(args[1], OneBinding \cup AllBindings)
        BY <1>3 DEF Is
      <4> QED
        BY <1>1, <4>1, SelectsOfTarget
    <3> QED
      BY <1>1, <2>4, <3>2, <3>3, FurtherExplained
  <2> QED
    BY <1>1, <2>2, <2>3, <2>4
<1>4. CASE Is(args[1], {"name", "key"})
  <2>1. ~Is(args[1], AllBindings) /\ ~Is(args[1], OneBinding) /\ ~Is(args[1], {"rule"})
        /\ ~Is(args[1], {"arg-list"}) /\ ~Is(args[1], OneBinding \cup AllBindings)
    BY <1>4 DEF Is, OneBinding, AllBindings
  <2>2. Target(t, args) = Wrap(NameOf(t))
    BY <1>1, <1>4, <2>1 DEF Target
  <2>3. CASE NameOf(t) = 0
    <3>1. SelectSelf(t, args[1]) = Found(NameOf(t))
      BY <1>4, <2>1 DEF SelectSelf
    <3>2. Select(Self(t), args[1]) = {}
      BY <2>3, <3>1, SelfSelect DEF Found
    <3>3. Ends(Self(t), args) = {}
      BY <1>1, <3>2, NothingSelected
    <3> QED
      BY <1>4, <2>2, <2>3, <3>3 DEF Wrap
  <2>4. CASE NameOf(t) # 0
    BY <2>2, <2>4, Harmless
  <2> QED
    BY <2>3, <2>4
<1>5. CASE Is(args[1], {"rule"})
  <2>1. ~Is(args[1], AllBindings) /\ ~Is(args[1], OneBinding) /\ ~Is(args[1], {"name", "key"})
        /\ ~Is(args[1], {"arg-list"})
    BY <1>5 DEF Is, OneBinding, AllBindings
  <2>2. Target(t, args) = Wrap(Rule(t))
    BY <1>1, <1>5, <2>1 DEF Target
  <2> QED
    BY <1>1, <2>2, Harmless
<1>6. CASE Is(args[1], {"arg-list"})
  <2>1. ~Is(args[1], AllBindings) /\ ~Is(args[1], OneBinding) /\ ~Is(args[1], {"name", "key"})
        /\ ~Is(args[1], {"rule"})
    BY <1>6 DEF Is, OneBinding, AllBindings
  <2>2. Target(t, args) = {R("nodes", Kids(ArgList(t)))}
    BY <1>1, <1>6, <2>1 DEF Target
  <2>3. X({R("nodes", Kids(ArgList(t)))})
    BY Harmless
  <2> QED
    BY <2>2, <2>3
<1>7. CASE /\ ~(Is(args[1], AllBindings) /\ Len(args) = 1) /\ ~Is(args[1], OneBinding)
           /\ ~Is(args[1], {"name", "key"}) /\ ~Is(args[1], {"rule"}) /\ ~Is(args[1], {"arg-list"})
  <2>1. Target(t, args) = CommonProperty(t, args[1])
    BY <1>1, <1>7 DEF Target
  <2> QED
    BY <1>1, <2>1, CommonExplained
<1> QED
  BY <1>2, <1>3, <1>4, <1>5, <1>6, <1>7

LEMMA Counts == \A c \in Nat \ {0} : (c > 1 => c # 1) /\ (c # 1 /\ c # 2 => c > 2 /\ c > 1)
  OBVIOUS

LEMMA FacetIsProper ==
  ASSUME NEW n \in Nodes
  PROVE  /\ Facet(n, "targets") \in Proper /\ Facet(n, "loads") \in Proper
         /\ Tree[n].tid = "Load_Stmt" => Facet(n, "args") \in Proper /\ Facet(n, "bindings") \in Proper
         /\ \A as \in {"targets", "loads", "args", "bindings"} : ~IsPair(Facet(n, as))
  BY DEF Facet, Proper, Places, IsPair

LEMMA NothingInFacet ==
  ASSUME NEW n \in Nodes, NEW st \in Step
  PROVE  /\ IsIndex(st) /\ At(Targets, KwIndex(st)) = 0 => Select(Facet(n, "targets"), st) = {}
         /\ ~IsIndex(st) /\ st.kind # "str" => Select(Facet(n, "targets"), st) = {}
         /\ IsIndex(st) /\ At(Loads, KwIndex(st)) = 0 => Select(Facet(n, "loads"), st) = {}
         /\ st.kind = "str" /\ Keyed(Loads, st.s) = 0 => Select(Facet(n, "loads"), st) = {}
         /\ ~IsIndex(st) /\ st.kind # "str" => Select(Facet(n, "loads"), st) = {}
         /\ IsIndex(st) /\ At(LoadArgs(n), KwIndex(st)) = 0 => Select(Facet(n, "args"), st) = {}
         /\ st.kind = "str" /\ FirstOf(WithText(LoadArgs(n), "STRING", st.s)) = 0 =>
              Select(Facet(n, "args"), st) = {}
         /\ ~IsIndex(st) /\ st.kind # "str" => Select(Facet(n, "args"), st) = {}
         /\ IsIndex(st) /\ At(LoadBindings(n), KwIndex(st)) = 0 => Select(Facet(n, "bindings"), st) = {}
         /\ st.kind = "sym" /\ Keyed(LoadBindings(n), st.s) = 0 => Select(Facet(n, "bindings"), st) = {}
         /\ ~IsIndex(st) /\ st.kind # "sym" => Select(Facet(n, "bindings"), st) = {}
<1>1. /\ Facet(n, "targets").as = "targets" /\ Facet(n, "loads").as = "loads"
      /\ Facet(n, "args").as = "args" /\ Facet(n, "args").node = n
      /\ Facet(n, "bindings").as = "bindings" /\ Facet(n, "bindings").node = n
  BY DEF Facet
<1>2. Select(Facet(n, "targets"), st) =
        ByIndex(Targets, st) \cup IF st.kind = "str" THEN Found(TargetNamed(st.s)) ELSE {}
  BY <1>1 DEF Select
<1>3. Select(Facet(n, "loads"), st) = ByIndex(Loads, st) \cup ByKey(Loads, st, "str")
  BY <1>1 DEF Select
<1>4. Select(Facet(n, "args"), st) =
        ByIndex(LoadArgs(n), st)
        \cup IF st.kind = "str" THEN Found(FirstOf(WithText(LoadArgs(n), "STRING", st.s))) ELSE {}
  BY <1>1 DEF Select
<1>5. Select(Facet(n, "bindings"), st) =
        ByIndex(LoadBindings(n), st) \cup ByKey(LoadBindings(n), st, "sym")
  BY <1>1 DEF Select
<1>6. IsIndex(st) => st.kind # "str" /\ st.kind # "sym"
  BY DEF IsIndex
<1> QED
  BY <1>2, <1>3, <1>4, <1>5, <1>6 DEF ByIndex, ByKey, Found

LEMMA PkgTargetExplained ==
  ASSUME TypesKept, NEW args \in Seq(Step), args # << >>
  PROVE  Explained(PkgTarget(args), Facet(Root, "targets"), args)
<1> DEFINE p == Facet(Root, "targets")
           t == IF args[1].kind = "str" THEN TargetNamed(args[1].s) ELSE At(Targets, KwIndex(args[1]))
           X(S) == Explained(S, p, args)
<1>1. /\ args[1] \in Step /\ p \in Proper /\ Root \in Nodes /\ (Len(args) = 1 \/ Len(args) > 1)
      /\ Tail(args) \in Seq(Step) /\ KwIndex(args[1]) \in Int /\ Len(args) \in Nat \ {0}
  BY TailOfSteps, FacetIsProper, NodeFacts, KwIndexInt
<1>2. t = 0 \/ \E k \in DOMAIN Targets : t = Targets[k]
  BY <1>1, ListsOfPackage, AtIs
<1>3. t # 0 => t \in Nodes /\ Tree[t].tid = "Call_Expr" /\ NameOf(t) # 0
  BY <1>2, ListsOfPackage
<1>4. CASE (args[1].kind = "str" /\ t = 0) \/ (args[1].kind # "str" /\ ~IsIndex(args[1]))
  BY <1>4, Harmless DEF PkgTarget
<1>5. CASE ~((args[1].kind = "str" /\ t = 0) \/ (args[1].kind # "str" /\ ~IsIndex(args[1])))
  <2>1. PkgTarget(args) = IF Len(args) = 1 THEN Wrap(t) ELSE Target(t, Tail(args))
    BY <1>5 DEF PkgTarget
  <2>2. CASE t = 0
    <3>1. Target(t, Tail(args)) = Died
      BY <2>2 DEF Target
    <3>2. IsIndex(args[1]) /\ At(Targets, KwIndex(args[1])) = 0
      BY <1>5, <2>2
    <3>3. Select(p, args[1]) = {}
      BY <1>1, <3>2, NothingInFacet
    <3>4. X(Wrap(t)) /\ X(Died)
      BY <1>1, <3>2, <3>3, NothingSelected
    <3> QED
      BY <2>1, <3>1, <3>4
  <2>3. CASE t # 0 /\ Len(args) > 1
    <3>1. Tail(args) # << >>
      BY <2>3, MoreSteps
    <3>2. Explained(Target(t, Tail(args)), Self(t), Tail(args))
      BY <1>1, <1>3, <2>3, <3>1, TargetExplained
    <3>3. Self(t) \in Select(p, args[1])
      BY <1>1, <1>5, <2>3, SelectsFromFacet
    <3>4. X(Target(t, Tail(args)))
      BY <1>1, <2>3, <3>2, <3>3, FurtherExplained
    <3> HIDE DEF t
    <3>5. Len(args) # 1
      BY <1>1, <2>3, Counts
    <3> QED
      BY <2>1, <3>4, <3>5
  <2>4. CASE t # 0 /\ Len(args) = 1
    BY <2>1, <2>4, Harmless
  <2> QED
    BY <1>1, <2>2, <2>3, <2>4
<1> QED
  BY <1>4, <1>5

-----------------------------------------------------------------------------
(***************************************************************************)
(* Load statements, explained                                              *)
(***************************************************************************)
\* Steps after a leaf lead nowhere.
LEMMA BeyondLeaf ==
  ASSUME TypesKept, NEW p \in Proper, NEW args \in Seq(Step), Len(args) > 1,
         NEW n \in Nodes, Tree[n].tid \in {"ID", "STRING", "INT"}, Self(n) \in Select(p, args[1])
  PROVE  Ends(p, args) = {} /\ Explained(Null, p, args)
<1>1. Tail(args) \in Seq(Step) /\ Tail(args) # << >> /\ Self(n) \in Proper
  BY MoreSteps, SelfIsProper
<1>2. Select(Self(n), Tail(args)[1]) = {}
  BY NothingInLeaf
<1>3. Ends(Self(n), Tail(args)) = {} /\ Explained(Null, Self(n), Tail(args))
  BY <1>1, <1>2, NothingSelected
<1> QED
  BY <1>1, <1>3, FurtherExplained

LEMMA LoadArgExplained ==
  ASSUME TypesKept, NEW l \in Nodes, Tree[l].tid = "Load_Stmt",
         NEW args \in Seq(Step), args # << >>
  PROVE  Explained(LoadArg(l, args), Facet(l, "args"), args)
<1> DEFINE p == Facet(l, "args")
           X(S) == Explained(S, p, args)
           arg == IF args[1].kind = "str"
                  THEN FirstOf(WithText(LoadArgs(l), "STRING", args[1].s))
                  ELSE At(LoadArgs(l), KwIndex(args[1]))
<1>1. args[1] \in Step /\ p \in Proper /\ (Len(args) = 1 \/ Len(args) > 1) /\ l # 0
  BY TailOfSteps, FacetIsProper, NodeFacts
<1>2. /\ LoadArgs(l) \in Seq(Nodes) /\ KwIndex(args[1]) \in Int
      /\ \A k \in DOMAIN LoadArgs(l) : LoadArgs(l)[k] \in Nodes /\ Tree[LoadArgs(l)[k]].tid = "STRING"
  BY <1>1, ListsOfLoad, LoadArgTypes, KwIndexInt
<1>3. arg = 0 \/ \E k \in DOMAIN LoadArgs(l) : arg = LoadArgs(l)[k]
  BY <1>2, WithTextIs, AtIs
<1>4. arg # 0 => arg \in Nodes /\ Tree[arg].tid = "STRING"
  BY <1>2, <1>3
<1>5. CASE args[1].kind = "str" \/ IsIndex(args[1])
  <2>1. /\ arg # 0 => Self(arg) \in Select(p, args[1])
        /\ arg = 0 => Select(p, args[1]) = {}
    <3>1. IsIndex(args[1]) => args[1].kind # "str"
      BY DEF IsIndex
    <3> QED
      BY <1>1, <1>5, <3>1, SelectsFromFacet, NothingInFacet
  <2>2. ~(IsKw(args[1]) /\ ~IsKwIndex(args[1]))
    BY <1>5 DEF IsKw, IsKwIndex, IsIndex
  <2>3. LoadArg(l, args) =
          CASE Len(args) = 1 -> IF arg = 0 THEN Null ELSE Wrap(arg)
            [] Len(args) = 2 /\ IsKw(args[2]) -> CommonProperty(arg, args[2])
            [] OTHER -> Null
    BY <1>5, <2>2 DEF LoadArg
  <2> HIDE DEF arg
  <2>4. CASE arg = 0
    <3>1. X(Null) /\ X(Died)
      BY <1>1, <2>1, <2>4, NothingSelected
    <3>2. CommonProperty(arg, args[2]) = Died
      BY <2>4 DEF CommonProperty
    <3> QED
      BY <2>3, <2>4, <3>1, <3>2
  <2>5. CASE arg # 0
    <3>1. X(Wrap(arg)) /\ X(CommonProperty(arg, args[2]))
      BY <2>5, Harmless, CommonExplained
    <3>2. Len(args) > 1 => X(Null)
      BY <1>1, <1>4, <2>1, <2>5, BeyondLeaf
    <3> QED
      BY <1>1, <2>3, <2>5, <3>1, <3>2
  <2> QED
    BY <2>4, <2>5
<1>6. CASE IsKw(args[1]) /\ ~IsKwIndex(args[1])
  <2>1. ~(args[1].kind = "str" \/ IsIndex(args[1]))
    BY <1>6 DEF IsKw, IsKwIndex, IsIndex
  <2>2. LoadArg(l, args) = CommonProperty(l, args[1])
    BY <1>6, <2>1 DEF LoadArg
  <2> QED
    BY <1>1, <2>2, CommonExplained
<1>7. CASE ~(args[1].kind = "str" \/ IsIndex(args[1])) /\ ~(IsKw(args[1]) /\ ~IsKwIndex(args[1]))
  <2>1. LoadArg(l, args) = Null
    BY <1>7 DEF LoadArg
  <2>2. Select(p, args[1]) = {}
    BY <1>1, <1>7, NothingInFacet
  <2> QED
    BY <1>1, <2>1, <2>2, NothingSelected
<1> QED
  BY <1>5, <1>6, <1>7

\* After a binding of a load statement that is found.
LEMMA BeyondLoadBinding ==
  ASSUME TypesKept, NEW l \in Nodes, Tree[l].tid = "Load_Stmt", NEW p \in Proper,
         NEW args \in Seq(Step), Len(args) > 1,
         NEW k \in DOMAIN LoadBindings(l), Self(LoadBindings(l)[k]) \in Select(p, args[1])
  PROVE  /\ ~Is(args[2], {"key"}) /\ ~Is(args[2], ValueOps) => Ends(p, args) = {}
         /\ Len(args) > 2 => Ends(p, args) = {}
<1>1. PICK b : b = LoadBindings(l)[k]
  OBVIOUS
<1>2. /\ b \in Nodes /\ Tree[b].tid = "Binding" /\ Tree[Val(b)].tid = "STRING"
      /\ Tree[Key(b)].tid = "ID" /\ Key(b) \in Nodes /\ Val(b) \in Nodes /\ Self(b) \in Proper
  BY <1>1, ListsOfLoad, LoadValues, GrammarTypes, Grammar, SelfIsProper
<1>3. /\ args # << >> /\ args[2] \in Step /\ Tail(args) \in Seq(Step) /\ Tail(args) # << >>
      /\ Tail(args)[1] = args[2]
  BY MoreSteps
<1>4. Ends(p, args) = Ends(Self(b), Tail(args))
  BY <1>1, FurtherExplained
<1>5. ASSUME ~Is(args[2], {"key"}), ~Is(args[2], ValueOps) PROVE Ends(p, args) = {}
  <2>1. Select(Self(b), Tail(args)[1]) = {}
    BY <1>2, <1>3, <1>5, NothingInPair
  <2> QED
    BY <1>2, <1>3, <1>4, <2>1, NothingSelected
<1>6. ASSUME Len(args) > 2 PROVE Ends(p, args) = {}
  <2>1. Len(Tail(args)) > 1
    BY <1>6, ManySteps
  <2>2. /\ Is(args[2], {"key"}) => Self(Key(b)) \in Select(Self(b), Tail(args)[1])
        /\ Is(args[2], ValueOps) => Self(Val(b)) \in Select(Self(b), Tail(args)[1])
    BY <1>2, <1>3, SelectsPart
  <2>3. CASE Is(args[2], {"key"})
    BY <1>2, <1>3, <1>4, <2>1, <2>2, <2>3, BeyondLeaf
  <2>4. CASE Is(args[2], ValueOps)
    BY <1>2, <1>3, <1>4, <2>1, <2>2, <2>4, BeyondLeaf
  <2> QED
    BY <1>5, <2>3, <2>4
<1> QED
  BY <1>5, <1>6

LEMMA LoadBindingExplained ==
  ASSUME TypesKept, NEW l \in Nodes, Tree[l].tid = "Load_Stmt",
         NEW args \in Seq(Step), args # << >>
  PROVE  Explained(LoadBinding(l, args), Facet(l, "bindings"), args)
<1> DEFINE p == Facet(l, "bindings")
           X(S) == Explained(S, p, args)
           bs == LoadBindings(l)
           b == CASE IsIndex(args[1])     -> At(bs, KwIndex(args[1]))
                  [] args[1].kind = "sym" -> Keyed(bs, args[1].s)
                  [] OTHER                -> 0
<1>1. args[1] \in Step /\ p \in Proper /\ Len(args) \in Nat \ {0}
  BY TailOfSteps, FacetIsProper
<1>2. /\ bs \in Seq(Nodes) /\ KwIndex(args[1]) \in Int
      /\ \A k \in DOMAIN bs : bs[k] \in Nodes /\ Tree[bs[k]].tid = "Binding"
  BY <1>1, ListsOfLoad, KwIndexInt
<1>3. /\ b = 0 \/ \E k \in DOMAIN bs : b = bs[k]
      /\ b # 0 => Self(b) \in Select(p, args[1])
      /\ b = 0 => Select(p, args[1]) = {}
  <2>1. CASE IsIndex(args[1])
    <3>1. b = At(bs, KwIndex(args[1])) /\ args[1].kind # "sym"
      BY <2>1 DEF IsIndex
    <3> QED
      BY <1>1, <1>2, <2>1, <3>1, AtIs, SelectsFromFacet, NothingInFacet
  <2>2. CASE args[1].kind = "sym"
    <3>1. b = Keyed(bs, args[1].s) /\ ~IsIndex(args[1])
      BY <2>2 DEF IsIndex
    <3> QED
      BY <1>1, <1>2, <2>2, <3>1, KeyedIs, SelectsFromFacet, NothingInFacet
  <2>3. CASE ~IsIndex(args[1]) /\ args[1].kind # "sym"
    BY <1>1, <2>3, NothingInFacet
  <2> QED
    BY <2>1, <2>2, <2>3
<1>4. LoadBinding(l, args) =
        CASE b = 0 -> Null
          [] b # 0 /\ Len(args) = 1 -> Wrap(b)
          [] b # 0 /\ Len(args) = 2 /\ IsIndex(args[1]) /\ Is(args[2], {"key", "value"}) ->
               Binding(b, <<args[2]>>)
          [] b # 0 /\ Len(args) = 2 /\ args[1].kind = "sym" /\ Is(args[2], {"key"}) -> Binding(b, << >>)
          [] b # 0 /\ Len(args) = 2 /\ IsKw(args[2]) /\ ~Is(args[2], {"key"})
               /\ ~(IsIndex(args[1]) /\ Is(args[2], {"value"})) ->
               CommonProperty(b, args[2])
          [] OTHER -> Null
  BY DEF LoadBinding
<1> HIDE DEF b
<1>5. CASE b = 0
  <2>1. X(Null)
    BY <1>1, <1>3, <1>5, NothingSelected
  <2> QED
    BY <1>4, <1>5, <2>1
<1>6. CASE b # 0
  <2>1. b \in Nodes /\ Tree[b].tid = "Binding" /\ Self(b) \in Select(p, args[1])
    BY <1>2, <1>3, <1>6
  <2>2. X(Wrap(b)) /\ X(Binding(b, Tail(args))) /\ X(CommonProperty(b, args[2]))
    BY <1>1, <1>6, <2>1, FoundExplained, CommonExplained
  <2>3. Binding(b, << >>) = Wrap(b)
    BY DEF Binding
  <2>4. ASSUME Ends(p, args) = {} PROVE X(Null)
    BY <2>4 DEF Fine, Explained, Null, Bare, R
  <2>5. CASE Len(args) = 1
    BY <1>4, <1>6, <2>2, <2>5
  <2>6. CASE Len(args) = 2
    <3>1. Len(args) > 1 /\ Len(args) # 1
      BY <2>6
    <3>2. /\ args[2] \in Step /\ Tail(args) \in Seq(Step) /\ Tail(args)[1] = args[2]
          /\ Len(Tail(args)) = 1
      BY <2>6, <3>1, MoreSteps
    <3>3. Tail(args) = <<args[2]>>
      <4>1. PICK t \in Seq(Step) : t = Tail(args)
        BY <3>2
      <4>2. Len(t) = 1 /\ t[1] = args[2]
        BY <3>2, <4>1
      <4>3. t = <<args[2]>>
        BY <4>2
      <4> QED
        BY <4>1, <4>3
    <3>4. X(Binding(b, <<args[2]>>))
      BY <2>2, <3>3
    <3>5. CASE IsIndex(args[1]) /\ Is(args[2], {"key", "value"})
      <4>1. args[1].kind # "sym"
        BY <3>5 DEF IsIndex
      <4>2. \/ LoadBinding(l, args) = Binding(b, <<args[2]>>)
            \/ LoadBinding(l, args) = CommonProperty(b, args[2])
        BY <1>4, <1>6, <2>6, <3>1, <3>5, <4>1
      <4> QED
        BY <2>2, <3>4, <4>2
    <3>6. CASE args[1].kind = "sym" /\ Is(args[2], {"key"})
      <4>1. ~IsIndex(args[1])
        BY <3>6 DEF IsIndex
      <4>2. LoadBinding(l, args) = Wrap(b)
        BY <1>4, <1>6, <2>3, <2>6, <3>1, <3>6, <4>1
      <4> QED
        BY <2>2, <4>2
    <3>7. CASE /\ ~(IsIndex(args[1]) /\ Is(args[2], {"key", "value"}))
               /\ ~(args[1].kind = "sym" /\ Is(args[2], {"key"}))
               /\ IsKw(args[2]) /\ ~Is(args[2], {"key"})
      <4>1. ~(IsIndex(args[1]) /\ Is(args[2], {"value"}))
        BY <3>7 DEF Is
      <4>2. LoadBinding(l, args) = CommonProperty(b, args[2])
        BY <1>4, <1>6, <2>6, <3>1, <3>7, <4>1
      <4> QED
        BY <2>2, <4>2
    <3>8. CASE /\ ~(IsIndex(args[1]) /\ Is(args[2], {"key", "value"}))
               /\ ~(args[1].kind = "sym" /\ Is(args[2], {"key"}))
               /\ ~(IsKw(args[2]) /\ ~Is(args[2], {"key"}))
      <4>1. IsIndex(args[1]) \/ args[1].kind = "sym"
        BY <1>6 DEF b
      <4>2. ~Is(args[2], {"key"}) /\ ~Is(args[2], ValueOps)
        <5>1. ~Is(args[2], {"key"})
          BY <3>8, <4>1 DEF Is
        <5> QED
          BY <3>8, <5>1 DEF Is, IsKw
      <4>3. Ends(p, args) = {}
        BY <1>1, <1>3, <1>6, <3>1, <4>2, BeyondLoadBinding
      <4>4. LoadBinding(l, args) = Null
        BY <1>4, <1>6, <2>6, <3>1, <3>8
      <4> QED
        BY <2>4, <4>3, <4>4
    <3> QED
      BY <3>5, <3>6, <3>7, <3>8
  <2>7. CASE Len(args) # 1 /\ Len(args) # 2
    <3>1. Len(args) > 2 /\ Len(args) > 1
      BY <1>1, <2>7, Counts
    <3>2. Ends(p, args) = {}
      BY <1>1, <1>3, <1>6, <3>1, BeyondLoadBinding
    <3>3. LoadBinding(l, args) = Null
      BY <1>4, <1>6, <2>7
    <3> QED
      BY <2>4, <3>2, <3>3
  <2> QED
    BY <2>5, <2>6, <2>7
<1> QED
  BY <1>5, <1>6

LEMMA LoadExplained ==
  ASSUME TypesKept, NEW l \in Nodes, Tree[l].tid = "Load_Stmt",
         NEW args \in Seq(Step), args # << >>
  PROVE  Explained(Load(l, args), Self(l), args)
<1> DEFINE X(S) == Explained(S, Self(l), args)
           words == {"arg", "args", "key"} \cup OneBinding \cup AllBindings
<1>1. /\ args[1] \in Step /\ Self(l) \in Proper /\ l # 0 /\ (Len(args) = 1 \/ Len(args) > 1)
      /\ Tail(args) \in Seq(Step) /\ Key(l) \in Nodes
  BY TailOfSteps, SelfIsProper, Grammar
<1>2. X(Error) /\ X({R("copies", LoadArgs(l))}) /\ X({R("copies", LoadBindings(l))})
  BY Harmless
<1>3. Len(args) > 1 => Tail(args) # << >>
  BY MoreSteps
<1>4. SelectSelf(l, args[1]) =
        IF Is(args[1], OneBinding) THEN As(l, "bindings")
        ELSE IF Is(args[1], {"arg"}) THEN As(l, "args")
        ELSE IF Is(args[1], {"key"}) THEN Found(Key(l)) ELSE {}
  BY DEF SelectSelf
<1>5. ASSUME ~Is(args[1], OneBinding), ~Is(args[1], {"arg"}), ~Is(args[1], {"key"}) PROVE X(Null)
  <2>1. Select(Self(l), args[1]) = {}
    BY <1>4, <1>5, SelfSelect
  <2> QED
    BY <1>1, <2>1, NothingSelected
<1>6. CASE Is(args[1], {"arg"})
  <2>1. Load(l, args) = IF Len(args) = 1 THEN {R("copies", LoadArgs(l))} ELSE LoadArg(l, Tail(args))
    BY <1>6 DEF Load, Is, OneBinding, AllBindings
  <2>2. ASSUME Len(args) > 1 PROVE X(LoadArg(l, Tail(args)))
    <3>1. Explained(LoadArg(l, Tail(args)), Facet(l, "args"), Tail(args))
      BY <1>1, <1>3, <2>2, LoadArgExplained
    <3>2. Facet(l, "args") \in Select(Self(l), args[1])
      BY <1>1, <1>6, SelectsFacet
    <3> QED
      BY <1>1, <2>2, <3>1, <3>2, FurtherExplained
  <2> QED
    BY <1>1, <1>2, <2>1, <2>2
<1>7. CASE Is(args[1], {"args"})
  <2>1. Load(l, args) = IF Len(args) = 1 THEN {R("copies", LoadArgs(l))} ELSE Null
    BY <1>7 DEF Load, Is, OneBinding, AllBindings
  <2>2. X(Null)
    BY <1>5, <1>7 DEF Is, OneBinding
  <2> QED
    BY <1>2, <2>1, <2>2
<1>8. CASE Is(args[1], AllBindings)
  <2>1. Load(l, args) = IF Len(args) = 1 THEN {R("copies", LoadBindings(l))} ELSE Null
    BY <1>8 DEF Load, Is, OneBinding, AllBindings
  <2>2. X(Null)
    BY <1>5, <1>8 DEF Is, OneBinding, AllBindings
  <2> QED
    BY <1>2, <2>1, <2>2
<1>9. CASE Is(args[1], OneBinding)
  <2>1. Load(l, args) = IF Len(args) = 1 THEN Null ELSE LoadBinding(l, Tail(args))
    BY <1>9 DEF Load, Is, OneBinding, AllBindings
  <2>2. Facet(l, "bindings") \in Select(Self(l), args[1])
    BY <1>1, <1>9, SelectsFacet
  <2>3. ASSUME Len(args) > 1 PROVE X(LoadBinding(l, Tail(args)))
    <3>1. Explained(LoadBinding(l, Tail(args)), Facet(l, "bindings"), Tail(args))
      BY <1>1, <1>3, <2>3, LoadBindingExplained
    <3> QED
      BY <1>1, <2>2, <2>3, <3>1, FurtherExplained
  <2>4. ASSUME Len(args) = 1 PROVE X(Null)
    <3>1. Ends(Self(l), args) = {Facet(l, "bindings")}
      BY <1>1, <2>2, <2>4, OneSelected
    <3>2. ~IsPair(Facet(l, "bindings"))
      BY FacetIsProper
    <3> QED
      BY <3>1, <3>2 DEF Fine, Explained, Null, Bare, R
  <2> QED
    BY <1>1, <2>1, <2>3, <2>4
<1>10. CASE Is(args[1], {"key"})
  <2>1. Load(l, args) = IF Len(args) = 1 THEN Wrap(Key(l)) ELSE Error
    BY <1>10 DEF Load, Is, OneBinding, AllBindings
  <2>2. X(Wrap(Key(l)))
    <3>1. Key(l) # 0
      BY <1>1, SelfIsProper
    <3> QED
      BY <3>1, Harmless
  <2> QED
    BY <1>2, <2>1, <2>2
<1>11. CASE IsKw(args[1]) /\ ~Is(args[1], words)
  <2>1. /\ ~Is(args[1], {"arg"}) /\ ~Is(args[1], {"args"}) /\ ~Is(args[1], {"key"})
        /\ ~Is(args[1], OneBinding) /\ ~Is(args[1], AllBindings)
    BY <1>11 DEF Is
  <2>2. Load(l, args) = CommonProperty(l, args[1])
    BY <1>11, <2>1 DEF Load
  <2> QED
    BY <1>1, <2>2, CommonExplained
<1>12. CASE /\ ~Is(args[1], {"arg"}) /\ ~Is(args[1], {"args"}) /\ ~Is(args[1], {"key"})
            /\ ~Is(args[1], OneBinding) /\ ~Is(args[1], AllBindings)
            /\ ~(IsKw(args[1]) /\ ~Is(args[1], words))
  BY <1>5, <1>12 DEF Load
<1> QED
  BY <1>6, <1>7, <1>8, <1>9, <1>10, <1>11, <1>12

LEMMA PkgLoadExplained ==
  ASSUME TypesKept, NEW args \in Seq(Step)
  PROVE  Explained(PkgLoad(args), Facet(Root, "loads"), args)
<1> DEFINE p == Facet(Root, "loads")
           X(S) == Explained(S, p, args)
           l == IF args = << >> THEN 0
                ELSE IF args[1].kind = "str" THEN Keyed(Loads, args[1].s)
                ELSE IF IsIndex(args[1]) THEN At(Loads, KwIndex(args[1])) ELSE 0
<1>1. PkgLoad(args) = IF l = 0 THEN Null ELSE IF Len(args) = 1 THEN Wrap(l) ELSE Load(l, Tail(args))
  BY DEF PkgLoad
<1>2. p \in Proper /\ Root \in Nodes
  BY FacetIsProper, NodeFacts
<1>3. CASE args = << >>
  <2>1. PkgLoad(args) = Null /\ Len(args) = 0
    BY <1>1, <1>3
  <2>2. Ends(p, args) = {p}
    BY <1>2, <2>1, AfterNone DEF Ends
  <2>3. ~IsPair(p)
    BY <1>2, FacetIsProper
  <2> QED
    BY <2>1, <2>2, <2>3 DEF Fine, Explained, Null, Bare, R
<1>4. CASE args # << >> /\ l = 0
  <2>1. args[1] \in Step
    BY <1>4, TailOfSteps
  <2>2. Select(p, args[1]) = {}
    BY <1>2, <1>4, <2>1, NothingInFacet
  <2>3. X(Null)
    BY <1>2, <1>4, <2>2, NothingSelected
  <2> QED
    BY <1>1, <1>4, <2>3
<1>5. CASE args # << >> /\ l # 0
  <2>1. /\ args[1] \in Step /\ (Len(args) = 1 \/ Len(args) > 1)
        /\ Tail(args) \in Seq(Step) /\ KwIndex(args[1]) \in Int
    BY <1>5, TailOfSteps, KwIndexInt
  <2>2. \E k \in DOMAIN Loads : l = Loads[k]
    BY <1>5, <2>1, ListsOfPackage, AtIs, KeyedIs
  <2>3. l \in Nodes /\ Tree[l].tid = "Load_Stmt" /\ l # 0
    BY <1>5, <2>2, ListsOfPackage
  <2>4. Self(l) \in Select(p, args[1])
    BY <1>2, <1>5, <2>1, SelectsFromFacet
  <2> HIDE DEF l
  <2>5. X(Wrap(l))
    BY <2>3, Harmless
  <2>6. ASSUME Len(args) > 1 PROVE X(Load(l, Tail(args)))
    <3>1. Tail(args) # << >>
      BY <2>6, MoreSteps
    <3>2. Explained(Load(l, Tail(args)), Self(l), Tail(args))
      BY <2>1, <2>3, <3>1, LoadExplained
    <3> QED
      BY <1>2, <2>4, <2>6, <3>2, FurtherExplained
  <2> QED
    BY <1>1, <1>5, <2>1, <2>5, <2>6
<1> QED
  BY <1>3, <1>4, <1>5

-----------------------------------------------------------------------------
(***************************************************************************)
(* The package, and the dispatchers together, explained                    *)
(***************************************************************************)
\* What selects from the targets found by a filter list names none of them.
FromFilter(args) ==
  \E k \in 2 .. Len(args) :
    args[k - 1].kind = "list" /\ (~IsIndex(args[k]) \/ KwIndex(args[k]) = IntMin)

\* The name of a call that has none.
Nameless(n, args) == Is(args[1], {"name", "key"}) /\ tid[n] = "Call_Expr" /\ NameOf(n) = 0

Answer(is, n, args) ==
  \/ Fine(is, Self(n), args)
  \/ is = "wrapped_NULL" /\ Ends(Self(n), args) = {} /\ (FromFilter(args) \/ Nameless(n, args))

LEMMA FilterNull ==
  ASSUME NEW args \in Seq(Step), NEW r \in ForAllTargets(args), r.is = "wrapped_NULL"
  PROVE  Len(args) = 2 /\ FromFilter(args)
<1>1. \A seq : R("copies", seq).is # "wrapped_NULL"
  BY DEF R
<1>2. r \notin Error /\ r # Bare("unspecified")
  BY DEF Error, Bare, R
<1>3. args # << >> /\ r \notin {R("copies", Targets)}
  <2>1. CASE args = << >>
    <3>1. ForAllTargets(args) = {R("copies", Targets)}
      BY <2>1 DEF ForAllTargets
    <3> QED
      BY <1>1, <3>1
  <2> QED
    BY <1>1, <2>1
<1>4. r \notin ForAllBindings(Tail(args))
  <2>1. \A part : R("copies", AllNamed(Tail(args)[1].s, part)) # r
    BY <1>1
  <2> QED
    BY <1>1, <1>2, <2>1 DEF ForAllBindings
<1>5. args[1].kind = "list" /\ Len(args) = 2 /\ r \in FilteredAt(Filtered(Filters[args[1].n]), args[2])
  BY <1>1, <1>2, <1>3, <1>4 DEF ForAllTargets
<1>6. ~IsIndex(args[2]) \/ KwIndex(args[2]) = IntMin
  <2>1. r \notin Null /\ \A t : r \notin {R("copy", <<t>>)}
    BY DEF Null, Bare, R
  <2> QED
    BY <1>2, <1>5, <2>1 DEF FilteredAt
<1>7. 2 \in 2 .. Len(args) /\ 2 - 1 = 1
  BY <1>5
<1> QED
  BY <1>5, <1>6, <1>7 DEF FromFilter

LEMMA PackageExplained ==
  ASSUME TypesKept, NEW args \in Seq(Step), args # << >>, NEW r \in Package(args)
  PROVE  Answer(r.is, Root, args)
<1> DEFINE X(S) == Explained(S, Self(Root), args)
           words == {">>", "targets", ">", "target", "load", "loadstmts", "package", "format",
                     "filename", "save"}
<1>0. ASSUME X(Package(args)) PROVE Answer(r.is, Root, args)
  BY <1>0 DEF Explained, Answer
<1>1. /\ X(Error) /\ X({Bare("nil")}) /\ X({Bare("unspecified")}) /\ X(Property(Root))
      /\ X({R("copies", Loads)}) /\ \A of : X({R("copy", of)})
  BY Harmless DEF Bare
<1>2. /\ args[1] \in Step /\ Self(Root) \in Proper /\ Root \in Nodes /\ Root # 0
      /\ (Len(args) = 1 \/ Len(args) > 1) /\ Tail(args) \in Seq(Step) /\ Tree[Root].tid = "Package"
      /\ Len(Tail(args)) = Len(args) - 1
  BY TailOfSteps, SelfIsProper, NodeFacts, TreeAssumption
<1>3. SelectSelf(Root, args[1]) =
        IF Is(args[1], {">", "target"}) THEN As(Root, "targets")
        ELSE IF Is(args[1], {"load"}) THEN As(Root, "loads") ELSE {}
  BY <1>2 DEF SelectSelf
<1>4. ASSUME ~Is(args[1], {">", "target"}), ~Is(args[1], {"load"}) PROVE Select(Self(Root), args[1]) = {}
  BY <1>3, <1>4, SelfSelect
<1>5. CASE ~IsKw(args[1])
  <2>1. Package(args) = Died
    BY <1>5 DEF Package, Is, IsKw
  <2>2. X(Died)
    BY <1>2, <1>4, <1>5, NothingSelected DEF Is, IsKw
  <2> QED
    BY <1>0, <2>1, <2>2
<1>6. CASE Is(args[1], {">>", "targets"})
  <2>1. r \in ForAllTargets(Tail(args))
    BY <1>6 DEF Package, Is, IsKw
  <2>2. Select(Self(Root), args[1]) = {}
    BY <1>4, <1>6 DEF Is
  <2>3. Ends(Self(Root), args) = {} /\ (r.is # "wrapped_NULL" => Fine(r.is, Self(Root), args))
    BY <1>2, <2>2, NothingSelected
  <2>4. ASSUME r.is = "wrapped_NULL" PROVE FromFilter(args)
    <3>1. Len(Tail(args)) = 2 /\ FromFilter(Tail(args))
      BY <1>2, <2>1, <2>4, FilterNull
    <3>2. PICK k \in 2 .. Len(Tail(args)) :
            /\ Tail(args)[k - 1].kind = "list"
            /\ ~IsIndex(Tail(args)[k]) \/ KwIndex(Tail(args)[k]) = IntMin
      BY <3>1 DEF FromFilter
    <3>3. \A i \in 1 .. Len(Tail(args)) : Tail(args)[i] = args[i + 1]
      BY HeadTailProperties
    <3>4. /\ k \in 1 .. Len(Tail(args)) /\ k - 1 \in 1 .. Len(Tail(args)) /\ (k - 1) + 1 = (k + 1) - 1
          /\ k + 1 \in 2 .. Len(args)
      BY <1>2, <3>1
    <3>5. Tail(args)[k] = args[k + 1] /\ Tail(args)[k - 1] = args[(k + 1) - 1]
      BY <3>3, <3>4
    <3> QED
      BY <3>2, <3>4, <3>5 DEF FromFilter
  <2> QED
    BY <2>3, <2>4 DEF Answer
<1>7. CASE Is(args[1], {">", "target"})
  <2>1. Package(args) = IF Len(args) = 1 THEN Error ELSE PkgTarget(Tail(args))
    BY <1>7 DEF Package, Is, IsKw
  <2>2. ASSUME Len(args) > 1 PROVE X(PkgTarget(Tail(args)))
    <3>1. Explained(PkgTarget(Tail(args)), Facet(Root, "targets"), Tail(args))
      BY <1>2, <2>2, MoreSteps, PkgTargetExplained
    <3>2. Facet(Root, "targets") \in Select(Self(Root), args[1])
      BY <1>2, <1>7, SelectsFacet
    <3> QED
      BY <1>2, <2>2, <3>1, <3>2, FurtherExplained
  <2> QED
    BY <1>0, <1>1, <1>2, <2>1, <2>2
<1>8. CASE Is(args[1], {"load"})
  <2>1. Package(args) = OrError(PkgLoad(Tail(args)))
    BY <1>8 DEF Package, Is, IsKw
  <2>2. PkgLoad(Tail(args)) \in SUBSET Result
    BY <1>2, PkgLoadAllowed DEF Allowed, Outcomes
  <2>3. Facet(Root, "loads") \in Select(Self(Root), args[1])
    BY <1>2, <1>8, SelectsFacet
  <2>4. CASE Len(args) > 1
    <3>1. Explained(PkgLoad(Tail(args)), Facet(Root, "loads"), Tail(args))
      BY <1>2, PkgLoadExplained
    <3>2. X(PkgLoad(Tail(args)))
      BY <1>2, <2>3, <2>4, <3>1, FurtherExplained
    <3> QED
      BY <1>0, <2>1, <2>2, <3>2, OrErrorExplained
  <2>5. CASE Len(args) = 1
    <3>1. Len(Tail(args)) = 0
      BY <1>2, <2>5
    <3>2. Tail(args) = << >>
      BY <1>2, <3>1, EmptySeq
    <3>3. PkgLoad(Tail(args)) = Null
      BY <3>2 DEF PkgLoad
    <3>4. Ends(Self(Root), args) = {Facet(Root, "loads")}
      <4>1. PICK p \in Proper : p = Self(Root)
        BY <1>2
      <4>2. PICK q \in Select(p, args[1]) : q = Facet(Root, "loads")
        BY <2>3, <4>1
      <4>3. Ends(p, args) = {q}
        BY <2>5, <4>2, OneSelected
      <4> QED
        BY <4>1, <4>2, <4>3
    <3>5. X(Null)
      BY <1>2, <3>4, FacetIsProper DEF Fine, Explained, Null, Bare, R
    <3> QED
      BY <1>0, <2>1, <2>2, <3>3, <3>5, OrErrorExplained
  <2> QED
    BY <1>2, <2>4, <2>5
<1>9. CASE Is(args[1], {"loadstmts"})
  <2>1. Package(args) = {R("copies", Loads)}
    BY <1>9 DEF Package, Is, IsKw
  <2> QED
    BY <1>0, <1>1, <2>1
<1>10. CASE Is(args[1], {"package"})
  <2>1. PICK procs : procs = WithRule("package")
    OBVIOUS
  <2>2. Package(args) = IF Len(procs) = 1 THEN {R("copy", procs)} ELSE {Bare("nil")}
    BY <1>10, <2>1 DEF Package, Is, IsKw
  <2> QED
    BY <1>0, <1>1, <2>2
<1>11. CASE Is(args[1], {"format"})
  <2>1. Package(args) = {Bare("unspecified")}
    BY <1>11 DEF Package, Is, IsKw
  <2> QED
    BY <1>0, <1>1, <2>1
<1>12. CASE Is(args[1], {"filename"})
  <2>1. Package(args) = Property(Root)
    BY <1>12 DEF Package, Is, IsKw
  <2> QED
    BY <1>0, <1>1, <2>1
<1>13. CASE Is(args[1], {"save"})
  <2>1. Package(args) = Error \cup {Bare("unspecified")}
    BY <1>13 DEF Package, Is, IsKw
  <2>2. X(Error \cup {Bare("unspecified")})
    BY <1>1 DEF Explained
  <2> QED
    BY <1>0, <2>1, <2>2
<1>14. CASE IsKw(args[1]) /\ ~Is(args[1], words)
  <2>1. /\ ~Is(args[1], {">>", "targets"}) /\ ~Is(args[1], {">", "target"}) /\ ~Is(args[1], {"load"})
        /\ ~Is(args[1], {"loadstmts"}) /\ ~Is(args[1], {"package"}) /\ ~Is(args[1], {"format"})
        /\ ~Is(args[1], {"filename"}) /\ ~Is(args[1], {"save"})
    BY <1>14 DEF Is
  <2>2. Package(args) = CommonProperty(Root, args[1])
    BY <1>14, <2>1 DEF Package
  <2> QED
    BY <1>0, <1>2, <2>2, CommonExplained
<1> QED
  BY <1>5, <1>6, <1>7, <1>8, <1>9, <1>10, <1>11, <1>12, <1>13, <1>14 DEF Is

LEMMA LeafExplained ==
  ASSUME NEW n \in Nodes, NEW args
  PROVE  Explained(Leaf(n, args), Self(n), args)
<1>1. n # 0
  BY NodeFacts
<1> QED
  BY <1>1, Harmless, CommonExplained DEF Leaf

\* What is put in place of the NULLs is no NULL.
LEMMA OrCommonExplained ==
  ASSUME NEW n \in Nodes, NEW args, NEW results, Explained(results, Self(n), args)
  PROVE  Explained(UNION {IF r.is = "NULL" THEN CommonProperty(n, args[1]) ELSE {r} : r \in results},
                   Self(n), args)
<1>1. n # 0
  BY NodeFacts
<1>2. Explained(CommonProperty(n, args[1]), Self(n), args)
  BY <1>1, CommonExplained
<1> QED
  BY <1>2 DEF Explained

\* A node that a read has made a vector gives no node of an index only.
LEMMA RetypedGives ==
  ASSUME TypesKept, NEW n \in Nodes, tid[n] # Tree[n].tid, NEW args, NEW r \in ByType(n, args),
         r.is = "wrapped_NULL"
  PROVE  IsIndex(args[1])
<1>1. tid[n] = "List_Expr" /\ Tree[n].tid # "List_Expr"
  BY DEF TypesKept
<1>2. ByType(n, args) =
        UNION {IF q.is = "NULL" THEN CommonProperty(n, args[1]) ELSE {q} : q \in Vector(n, args)}
  BY <1>1 DEF ByType
<1>3. PICK q \in Vector(n, args) : r \in IF q.is = "NULL" THEN CommonProperty(n, args[1]) ELSE {q}
  BY <1>2
<1>4. n # 0
  BY NodeFacts
<1>5. \A x \in CommonProperty(n, args[1]) : x.is # "wrapped_NULL"
  BY <1>4 DEF CommonProperty, Undefined, Property, Error, Bare, R
<1>6. q = r
  BY <1>3, <1>5
<1> QED
  BY <1>1, <1>6, MisreadIs

LEMMA ByTypeExplained ==
  ASSUME TypesKept, NEW n \in Nodes, NEW args \in Seq(Step), args # << >>, tid[n] = Tree[n].tid,
         NEW r \in ByType(n, args)
  PROVE  Answer(r.is, n, args)
<1> DEFINE X(S) == Explained(S, Self(n), args)
           OrCommon(results) ==
             UNION {IF q.is = "NULL" THEN CommonProperty(n, args[1]) ELSE {q} : q \in results}
           IfPredicate(results) == IF IsPredicate(args[1]) THEN Property(n) ELSE results
<1>0. ASSUME X(ByType(n, args)) PROVE Answer(r.is, n, args)
  BY <1>0 DEF Explained, Answer
<1>1. X(Property(n))
  BY Harmless
<1>2. ASSUME NEW results, X(results) PROVE X(IfPredicate(results))
  BY <1>1, <1>2
<1>3. ASSUME NEW results, X(results) PROVE X(OrCommon(results))
  BY <1>3, OrCommonExplained
<1>4. tid[n] \in Tids
  BY DEF TypesKept
<1>5. ByType(n, args) =
        CASE tid[n] = "Package"    -> Package(args)
          [] tid[n] = "Load_Stmt"  -> Load(n, args)
          [] tid[n] = "Call_Expr"  -> IfPredicate(Target(n, args))
          [] tid[n] = "Arg_List"   -> BindingsList(n, args)
          [] tid[n] = "Binding"    -> IfPredicate(OrError(Binding(n, args)))
          [] tid[n] = "Dict_Entry" -> OrCommon(DictEntry(n, args))
          [] tid[n] = "Dict_Expr"  -> DictExpr(n, args)
          [] tid[n] = "List_Expr"  -> OrCommon(Vector(n, args))
          [] OTHER                 -> Leaf(n, args)
  BY DEF ByType
<1> HIDE DEF OrCommon, IfPredicate
<1>6. CASE tid[n] = "Package"
  <2>1. ByType(n, args) = Package(args) /\ n = Root
    BY <1>5, <1>6, TreeAssumption
  <2> QED
    BY <2>1, PackageExplained
<1>7. CASE tid[n] = "Load_Stmt"
  <2>1. ByType(n, args) = Load(n, args)
    BY <1>5, <1>7
  <2> QED
    BY <1>0, <1>7, <2>1, LoadExplained
<1>8. CASE tid[n] = "Call_Expr"
  <2>1. ByType(n, args) = IfPredicate(Target(n, args))
    BY <1>5, <1>8
  <2>2. CASE X(Target(n, args))
    BY <1>0, <1>2, <2>1, <2>2
  <2>3. CASE /\ Is(args[1], {"name", "key"}) /\ NameOf(n) = 0
             /\ Target(n, args) = {Bare("wrapped_NULL")} /\ Ends(Self(n), args) = {}
    <3>1. ~IsPredicate(args[1])
      BY <2>3 DEF IsPredicate, Is, Predicates
    <3>2. r = Bare("wrapped_NULL")
      BY <2>1, <2>3, <3>1 DEF IfPredicate
    <3> QED
      BY <1>8, <2>3, <3>2 DEF Answer, Nameless, Bare, R
  <2> QED
    BY <1>8, <2>2, <2>3, TargetExplained
<1>9. CASE tid[n] = "Arg_List"
  <2>1. ByType(n, args) = BindingsList(n, args)
    BY <1>5, <1>9
  <2> QED
    BY <1>0, <1>9, <2>1, BindingsListExplained
<1>10. CASE tid[n] = "Binding"
  <2>1. ByType(n, args) = IfPredicate(OrError(Binding(n, args)))
    BY <1>5, <1>10
  <2>2. Binding(n, args) \in SUBSET Result /\ X(Binding(n, args))
    BY <1>10, BindingAllowed, BindingExplained DEF Allowed, Outcomes
  <2>3. X(OrError(Binding(n, args)))
    BY <2>2, OrErrorExplained
  <2> QED
    BY <1>0, <1>2, <2>1, <2>3
<1>11. CASE tid[n] = "Dict_Entry"
  <2>1. ByType(n, args) = OrCommon(DictEntry(n, args))
    BY <1>5, <1>11
  <2>2. X(DictEntry(n, args))
    BY <1>11, DictEntryExplained
  <2> QED
    BY <1>0, <1>3, <2>1, <2>2
<1>12. CASE tid[n] = "Dict_Expr"
  <2>1. ByType(n, args) = DictExpr(n, args)
    BY <1>5, <1>12
  <2> QED
    BY <1>0, <1>12, <2>1, DictExprExplained
<1>13. CASE tid[n] = "List_Expr"
  <2>1. ByType(n, args) = OrCommon(Vector(n, args))
    BY <1>5, <1>13
  <2>2. X(Vector(n, args))
    BY <1>13, VectorExplained
  <2> QED
    BY <1>0, <1>3, <2>1, <2>2
<1>14. CASE tid[n] \in {"ID", "STRING", "INT"}
  <2>1. ByType(n, args) = Leaf(n, args)
    BY <1>5, <1>14
  <2> QED
    BY <1>0, <2>1, LeafExplained
<1> QED
  BY <1>4, <1>6, <1>7, <1>8, <1>9, <1>10, <1>11, <1>12, <1>13, <1>14 DEF Tids

-----------------------------------------------------------------------------
(***************************************************************************)
(* A call, explained                                                       *)
(***************************************************************************)
\* Only a pair has a value that :$ could ask for.
LEMMA DollarSelects ==
  ASSUME NEW q \in Proper, ~IsPair(q), NEW st \in Step, Is(st, {"$"})
  PROVE  Select(q, st) = {}
<1>1. st.kind = "kw" /\ st.s = "$" /\ ~IsIndex(st) /\ ~IsKwIndex(st)
  BY DEF Is, IsIndex, IsKwIndex
<1>2. \A seq, kind : ByIndex(seq, st) = {} /\ (kind # "kw" => ByKey(seq, st, kind) = {})
  BY <1>1 DEF ByIndex, ByKey
<1>3. CASE q.as = "self"
  <2>1. Select(q, st) = SelectSelf(q.node, st)
    BY <1>3 DEF Select
  <2>2. Tree[q.node].tid \in Tids /\ Tree[q.node].tid \notin {"Binding", "Dict_Entry"}
    BY <1>3, NodeFacts DEF IsPair, Proper, Places
  <2>3. /\ ~Is(st, {">", "target"}) /\ ~Is(st, {"load"}) /\ ~Is(st, OneBinding \cup AllBindings)
        /\ ~Is(st, {"name", "key"}) /\ ~Is(st, {"rule"}) /\ ~Is(st, OneBinding)
        /\ ~Is(st, {"arg"}) /\ ~Is(st, {"key"})
    BY <1>1 DEF Is, OneBinding, AllBindings
  <2> QED
    BY <1>1, <1>2, <2>1, <2>2, <2>3 DEF SelectSelf, Tids
<1>4. CASE q.as # "self"
  BY <1>1, <1>2, <1>4 DEF Select, Proper, Places
<1> QED
  BY <1>3, <1>4

\* What is true of the steps but the last, and then of all of them.
LEMMA FrontExplained ==
  ASSUME TypesKept, NEW n \in Nodes, NEW steps \in Seq(Step), Len(steps) > 1
  PROVE  /\ Ends(Self(n), Front(steps)) = {} => Ends(Self(n), steps) = {}
         /\ Off(Self(n), Front(steps)) => Off(Self(n), steps)
         /\ NoSuchIndex(Self(n), Front(steps)) => NoSuchIndex(Self(n), steps)
         /\ FromFilter(Front(steps)) => FromFilter(steps)
         /\ Nameless(n, Front(steps)) => Nameless(n, steps)
         /\ Is(Last(steps), {"$"}) /\ (\A q \in Ends(Self(n), Front(steps)) : ~IsPair(q)) =>
              Ends(Self(n), steps) = {}
<1>1. PICK p \in Proper : p = Self(n)
  BY SelfIsProper
<1>2. PICK args \in Seq(Step) : args = Front(steps)
  BY FrontAndLast
<1>3. /\ Len(args) = Len(steps) - 1 /\ Len(args) \in Nat /\ Len(args) + 1 = Len(steps)
      /\ Len(args) \in 1 .. Len(steps) /\ Last(steps) \in Step /\ Last(steps) = steps[Len(steps)]
      /\ \A i \in 1 .. Len(args) : args[i] = steps[i]
  BY <1>2, FrontAndLast
<1>4. ASSUME NEW k \in 0 .. Len(args) PROVE After(p, args, k) = After(p, steps, k)
  <2>1. k \in Nat /\ \A i \in 1 .. k : args[i] = steps[i]
    BY <1>3
  <2> QED
    BY <2>1, AfterSame
<1>5. Ends(p, args) = After(p, steps, Len(args))
  BY <1>3, <1>4 DEF Ends
<1>6. ASSUME Ends(p, args) = {} PROVE Ends(p, steps) = {}
  <2>1. Len(steps) \in Nat /\ Len(args) \in 0 .. Len(steps)
    BY <1>3
  <2> QED
    BY <1>5, <1>6, <2>1, AfterEmpty DEF Ends
<1>7. ASSUME Deeper(p, args) PROVE Deeper(p, steps)
  <2>1. PICK k \in 1 .. Len(args) - 1 : \E q \in After(p, args, k) : q.as = "self" /\ q.node \in OutOfReach
    BY <1>7 DEF Deeper
  <2>2. k \in 0 .. Len(args) /\ k \in 1 .. Len(steps) - 1
    BY <1>3
  <2> QED
    BY <1>4, <2>1, <2>2 DEF Deeper
<1>8. ASSUME IntAfterValue(args) PROVE IntAfterValue(steps)
  <2>1. PICK k \in 2 .. Len(args) : Is(args[k - 1], ValueOps) /\ args[k].kind = "int"
    BY <1>8 DEF IntAfterValue
  <2>2. k \in 1 .. Len(args) /\ k - 1 \in 1 .. Len(args) /\ k \in 2 .. Len(steps)
    BY <1>3
  <2> QED
    BY <1>3, <2>1, <2>2 DEF IntAfterValue
<1>9. ASSUME NoSuchIndex(p, args) PROVE NoSuchIndex(p, steps)
  <2>1. PICK k \in DOMAIN args :
          /\ IsIndex(args[k]) /\ After(p, args, k - 1) # {}
          /\ After(p, args, k) = {} \/ \E q \in After(p, args, k - 1) : Misleads(q)
    BY <1>9 DEF NoSuchIndex
  <2>2. /\ k \in 1 .. Len(args) /\ k \in 0 .. Len(args) /\ k - 1 \in 0 .. Len(args)
        /\ k \in DOMAIN steps
    BY <1>3
  <2> QED
    BY <1>3, <1>4, <2>1, <2>2 DEF NoSuchIndex
<1>10. ASSUME FromFilter(args) PROVE FromFilter(steps)
  <2>1. PICK k \in 2 .. Len(args) :
          args[k - 1].kind = "list" /\ (~IsIndex(args[k]) \/ KwIndex(args[k]) = IntMin)
    BY <1>10 DEF FromFilter
  <2>2. k \in 1 .. Len(args) /\ k - 1 \in 1 .. Len(args) /\ k \in 2 .. Len(steps)
    BY <1>3
  <2> QED
    BY <1>3, <2>1, <2>2 DEF FromFilter
<1>11. Nameless(n, args) => Nameless(n, steps)
  <2>1. args[1] = steps[1]
    BY <1>3
  <2> QED
    BY <2>1 DEF Nameless
<1>12. ASSUME Is(Last(steps), {"$"}), \A q \in Ends(p, args) : ~IsPair(q) PROVE Ends(p, steps) = {}
  <2>1. PICK c \in Nat : c = Len(args)
    BY <1>3
  <2>2. c + 1 = Len(steps) /\ c + 1 \in 1 .. Len(steps) /\ steps[c + 1] = Last(steps)
    BY <1>3, <2>1
  <2>3. After(p, steps, c + 1) = UNION {Select(q, steps[c + 1]) : q \in After(p, steps, c)}
    <3>1. \A k \in Nat : k + 1 \in 1 .. Len(steps) =>
            After(p, steps, k + 1) = UNION {Select(q, steps[k + 1]) : q \in After(p, steps, k)}
      BY AfterNext
    <3> QED
      BY <2>2, <3>1
  <2>4. \A q \in After(p, steps, c) : q \in Proper /\ ~IsPair(q)
    BY <1>5, <1>12, <2>1, AfterIsProper
  <2>5. \A q \in After(p, steps, c) : Select(q, steps[c + 1]) = {}
    BY <1>3, <1>12, <2>2, <2>4, DollarSelects
  <2> QED
    BY <2>2, <2>3, <2>5 DEF Ends
<1> QED
  BY <1>1, <1>2, <1>6, <1>7, <1>8, <1>9, <1>10, <1>11, <1>12 DEF Off

LEMMA NodeToSchemeIs ==
  ASSUME TypesKept, NEW m \in Nodes, NEW r \in NodeToScheme(m), NEW nodes
  PROVE  /\ r.is \notin {"died", "NULL", "wrapped_NULL"}
         /\ [r EXCEPT !.retyped = nodes].is = r.is
<1>1. CASE tid[m] \in {"STRING", "ID", "INT"}
  BY <1>1 DEF NodeToScheme, R
<1>2. CASE tid[m] = "Binding"
  <2>1. Tree[m].tid = "Binding"
    BY <1>2 DEF TypesKept
  <2>2. Val(m) \in Nodes
    BY <2>1, Grammar
  <2>3. Val(m) # 0
    BY <2>2, SelfIsProper
  <2> QED
    BY <1>2, <2>3 DEF NodeToScheme, Wrap, R
<1>3. CASE tid[m] \notin {"STRING", "ID", "INT"} /\ tid[m] # "Binding"
  BY <1>3 DEF NodeToScheme, Undefined, Bare, R
<1> QED
  BY <1>1, <1>2, <1>3

\* :$ of what is no node ends the process, or gives anything.
LEMMA ToSchemeIs ==
  ASSUME TypesKept, NEW r \in Outcomes, NEW s \in ToScheme({r})
  PROVE  s.is # "wrapped_NULL" /\ (s.is = "died" => r.is \in {"died", "NULL", "wrapped_NULL"})
<1> DEFINE X == CASE r.is \in {"node", "copy"}         -> NodeToScheme(r.of[1])
                  [] r.is \in {"error", "died"}        -> {r}
                  [] r.is \in {"NULL", "wrapped_NULL"} -> Died
                  [] OTHER                             -> Undefined
<1>1. PICK q \in X : s = [q EXCEPT !.retyped = r.retyped]
  BY DEF ToScheme, Retype
<1>2. CASE r.is \in {"node", "copy"}
  <2>1. q \in NodeToScheme(r.of[1])
    BY <1>1, <1>2
  <2>2. r.of[1] \in Nodes
    BY <1>2 DEF Outcomes, Result
  <2> QED
    BY <1>1, <2>1, <2>2, NodeToSchemeIs
<1>3. CASE r.is \in {"error", "died"}
  <2>1. q = r
    BY <1>1, <1>3
  <2>2. s.is = r.is
    BY <1>1, <2>1 DEF Outcomes, Result
  <2> QED
    BY <1>3, <2>2
<1>4. CASE r.is \in {"NULL", "wrapped_NULL"}
  <2>1. q \in Died
    BY <1>1, <1>4
  <2>2. s.is = "died"
    BY <1>1, <2>1 DEF Died, Bare, R
  <2> QED
    BY <1>4, <2>2
<1>5. CASE r.is \notin {"node", "copy", "error", "died", "NULL", "wrapped_NULL"}
  <2>1. q \in Undefined
    BY <1>1, <1>5
  <2>2. s.is = "undefined"
    BY <1>1, <2>1 DEF Undefined, Bare, R
  <2> QED
    BY <2>2
<1> QED
  BY <1>2, <1>3, <1>4, <1>5

\* Why a call may end the process or give a wrapper around NULL.
Reason(is, n, steps) ==
  /\ is = "died" =>
       Ends(Self(n), steps) = {} \/ Off(Self(n), steps) \/ tid[n] # Tree[n].tid
  /\ is = "wrapped_NULL" =>
       NoSuchIndex(Self(n), steps) \/ FromFilter(steps) \/ Nameless(n, steps)

LEMMA DispatchExplained ==
  ASSUME TypesKept, NEW n \in Nodes, NEW steps \in Seq(Step), Len(steps) > 0,
         NEW s \in Dispatch(n, steps)
  PROVE  Reason(s.is, n, steps)
<1> DEFINE dollar == Is(Last(steps), {"$"})
           args == IF dollar THEN Front(steps) ELSE steps
           applied == \/ tid[n] \in {"Package", "Load_Stmt"}
                      \/ tid[n] = "Call_Expr" /\ ~IsPredicate(args[1])
           Converted(r) == CASE dollar /\ applied                -> ToScheme({r})
                             [] ~dollar /\ tid[n] = "Call_Expr" -> OrError({r})
                             [] OTHER                           -> {r}
<1>1. Dispatch(n, steps) =
        IF args = << >> THEN NodeToScheme(n) ELSE UNION {Converted(r) : r \in ByType(n, args)}
  BY DEF Dispatch
<1>2. /\ Front(steps) \in Seq(Step) /\ Len(steps) \in Nat
      /\ steps # << >> /\ (Len(steps) = 1 <=> Front(steps) = << >>)
  BY FrontAndLast, EmptySeq
<1>3. args \in Seq(Step)
  BY <1>2
<1>4. args # << >> /\ dollar => Len(steps) > 1
  <2>1. Len(steps) = 1 \/ Len(steps) > 1
    BY <1>2, TailOfSteps
  <2> QED
    BY <1>2, <2>1
<1>5. CASE args = << >>
  <2>1. s \in NodeToScheme(n)
    BY <1>1, <1>5
  <2> QED
    BY <2>1, NodeToSchemeIs DEF Reason
<1>6. ASSUME args # << >>, NEW r \in ByType(n, args), s \in Converted(r) PROVE Reason(s.is, n, steps)
  <2>1. r \in Outcomes
    BY <1>3, <1>6, ByTypeAllowed DEF Allowed
  <2>2. \/ s.is = r.is /\ ~(dollar /\ applied)
        \/ s.is \notin {"died", "wrapped_NULL"}
        \/ dollar /\ s.is = "died" /\ r.is \in {"died", "NULL", "wrapped_NULL"}
    <3>1. CASE dollar /\ applied
      <4>1. s \in ToScheme({r})
        BY <1>6, <3>1
      <4> QED
        BY <2>1, <3>1, <4>1, ToSchemeIs
    <3>2. CASE ~dollar /\ tid[n] = "Call_Expr"
      <4>1. s \in OrError({r})
        BY <1>6, <3>2
      <4>2. r.is = "NULL" => [r EXCEPT !.is = "error"].is = "error"
        BY <2>1 DEF Outcomes, Result
      <4> QED
        BY <3>2, <4>1, <4>2 DEF OrError
    <3>3. CASE ~(dollar /\ applied) /\ ~(~dollar /\ tid[n] = "Call_Expr")
      <4>1. Converted(r) = {r}
        BY <3>3
      <4>2. s = r
        BY <1>6, <4>1
      <4> QED
        BY <3>3, <4>2
    <3> QED
      BY <3>1, <3>2, <3>3
  <2>3. CASE tid[n] # Tree[n].tid
    <3>1. ASSUME s.is = "wrapped_NULL" PROVE NoSuchIndex(Self(n), steps)
      <4>1. r.is = "wrapped_NULL"
        BY <2>2, <3>1
      <4>2. IsIndex(args[1])
        BY <1>6, <2>3, <4>1, RetypedGives
      <4>3. args[1] = steps[1]
        BY <1>4, <1>6, FrontAndLast
      <4> QED
        BY <1>2, <2>3, <4>2, <4>3, MisledHere
    <3> QED
      BY <2>3, <3>1 DEF Reason
  <2>4. CASE tid[n] = Tree[n].tid
    <3>1. Answer(r.is, n, args)
      BY <1>3, <1>6, <2>4, ByTypeExplained
    <3>2. CASE ~dollar
      <4>1. args = steps /\ (s.is = r.is \/ s.is \notin {"died", "wrapped_NULL"})
        BY <2>2, <3>2
      <4> QED
        BY <3>1, <4>1 DEF Answer, Fine, Reason
    <3>3. CASE dollar
      <4>1. args = Front(steps) /\ Len(steps) > 1 /\ Is(Last(steps), {"$"})
        BY <1>4, <1>6, <3>3
      <4>2. Answer(r.is, n, Front(steps))
        BY <3>1, <4>1
      <4>3. \/ s.is = r.is
            \/ s.is \notin {"died", "wrapped_NULL"}
            \/ s.is = "died" /\ r.is \in {"died", "NULL", "wrapped_NULL"}
        BY <2>2
      <4> HIDE DEF dollar, args, applied, Converted
      <4>4. /\ Ends(Self(n), Front(steps)) = {} => Ends(Self(n), steps) = {}
            /\ Off(Self(n), Front(steps)) => Off(Self(n), steps)
            /\ NoSuchIndex(Self(n), Front(steps)) => NoSuchIndex(Self(n), steps)
            /\ FromFilter(Front(steps)) => FromFilter(steps)
            /\ Nameless(n, Front(steps)) => Nameless(n, steps)
            /\ (\A q \in Ends(Self(n), Front(steps)) : ~IsPair(q)) => Ends(Self(n), steps) = {}
        BY <4>1, FrontExplained
      <4>5. r.is = "died" => Ends(Self(n), steps) = {} \/ Off(Self(n), steps)
        BY <4>2, <4>4 DEF Answer, Fine
      <4>6. r.is = "wrapped_NULL" => NoSuchIndex(Self(n), steps) \/ FromFilter(steps) \/ Nameless(n, steps)
        BY <4>2, <4>4 DEF Answer, Fine
      <4>7. r.is \in {"NULL", "wrapped_NULL"} => Ends(Self(n), steps) = {} \/ Off(Self(n), steps)
        BY <4>2, <4>4 DEF Answer, Fine
      <4> QED
        BY <4>3, <4>5, <4>6, <4>7 DEF Reason
    <3> QED
      BY <3>2, <3>3
  <2> QED
    BY <2>3, <2>4
<1> HIDE DEF dollar, args, applied, Converted
<1> QED
  BY <1>1, <1>5, <1>6

\* A call, its steps, and why it ends the process or gives a wrapper around NULL.
LEMMA CallExplained ==
  ASSUME IInv, Apply
  PROVE  /\ Origin \in Nodes /\ Chunk \in Seq(Step) /\ Len(Chunk) \in Nat
         /\ Reason(cur'.is, Origin, Chunk)
<1>1. Origin \in Nodes
  BY ApplyGives
<1>2. PICK taken \in done + 1 .. Len(path) :
        \E r \in Dispatch(Origin, SubSeq(path, done + 1, taken)) : Becomes(r, taken)
  BY DEF Apply, Origin
<1>3. PICK r \in Dispatch(Origin, SubSeq(path, done + 1, taken)) : Becomes(r, taken)
  BY <1>2
<1>4. Chunk = SubSeq(path, done + 1, taken) /\ cur' = r
  BY <1>3 DEF Becomes, Chunk
<1>5. Chunk \in Seq(Step) /\ Len(Chunk) > 0
  BY <1>4, StepsOfPath
<1>6. Reason(r.is, Origin, Chunk)
  BY <1>1, <1>3, <1>4, <1>5, DispatchExplained DEF IInv
<1> QED
  BY <1>1, <1>4, <1>5, <1>6, FrontAndLast

\* Only Apply makes a call of a node.
LEMMA CallIsApply ==
  ASSUME IInv, Next, IsCall
  PROVE  Apply
<1>1. done \in Nat
  BY StepsOfPath
<1>2. ASSUME NEW p \in Paths, Ask(p) PROVE FALSE
  BY <1>1, <1>2 DEF Ask, IsCall
<1>3. ~ApplyToNothing
  BY DEF ApplyToNothing, IsCall
<1>4. ~Pick
  BY <1>1 DEF Pick, IsCall
<1> QED
  BY <1>2, <1>3, <1>4 DEF Next

LEMMA DeeperIs ==
  ASSUME TypesKept, NEW n \in Nodes, NEW steps \in Seq(Step), Deeper(Self(n), steps)
  PROVE  GoesDeeper(n, steps)
<1>1. PICK k \in 1 .. Len(steps) - 1 :
        \E q \in After(Self(n), steps, k) : q.as = "self" /\ q.node \in OutOfReach
  BY DEF Deeper
<1>2. k \in 0 .. Len(steps)
  OBVIOUS
<1>3. Meaning(n, SubSeq(steps, 1, k)) = After(Self(n), steps, k)
  BY <1>2, MeaningOfFirst
<1> QED
  BY <1>1, <1>3 DEF GoesDeeper

LEMMA NoSuchIndexIs ==
  ASSUME TypesKept, NEW n \in Nodes, NEW steps \in Seq(Step), NoSuchIndex(Self(n), steps)
  PROVE  \E k \in DOMAIN steps :
           /\ IsIndex(steps[k])
           /\ \/ /\ Meaning(n, SubSeq(steps, 1, k - 1)) # {}
                 /\ Meaning(n, SubSeq(steps, 1, k)) = {}
              \/ \E q \in Meaning(n, SubSeq(steps, 1, k - 1)) : Misleads(q)
<1>1. PICK k \in DOMAIN steps :
        /\ IsIndex(steps[k]) /\ After(Self(n), steps, k - 1) # {}
        /\ After(Self(n), steps, k) = {} \/ \E q \in After(Self(n), steps, k - 1) : Misleads(q)
  BY DEF NoSuchIndex
<1>2. k - 1 \in 0 .. Len(steps) /\ k \in 0 .. Len(steps)
  OBVIOUS
<1>3. \A j \in 0 .. Len(steps) : Meaning(n, SubSeq(steps, 1, j)) = After(Self(n), steps, j)
  BY MeaningOfFirst
<1>4. Meaning(n, SubSeq(steps, 1, k - 1)) = After(Self(n), steps, k - 1)
  BY <1>2, <1>3
<1>5. Meaning(n, SubSeq(steps, 1, k)) = After(Self(n), steps, k)
  BY <1>2, <1>3
<1> QED
  BY <1>1, <1>4, <1>5

\* Whatever the package and the path, a call of steps that lead to a node does
\* not end the process: sunlark_dispatch reads no type of what a lookup did not
\* find, but for the cases that the property names.
THEOREM PathsSurvive == Spec => Survives
<1> DEFINE A == IsCall /\ cur'.is = "died" =>
                  \/ Meaning(Origin, Chunk) = {}
                  \/ GoesDeeper(Origin, Chunk)
                  \/ tid[Origin] # Tree[Origin].tid
                  \/ \E k \in 2 .. Len(Chunk) : Is(Chunk[k - 1], ValueOps) /\ Chunk[k].kind = "int"
<1>1. IInv /\ [Next]_vars => [A]_vars
  <2> SUFFICES ASSUME IInv, Next, IsCall, cur'.is = "died",
                      tid[Origin] = Tree[Origin].tid, ~IntAfterValue(Chunk)
               PROVE  Meaning(Origin, Chunk) = {} \/ GoesDeeper(Origin, Chunk)
    BY DEF IntAfterValue
  <2>1. Origin \in Nodes /\ Chunk \in Seq(Step) /\ Reason(cur'.is, Origin, Chunk)
    BY CallIsApply, CallExplained
  <2>2. Ends(Self(Origin), Chunk) = {} \/ Deeper(Self(Origin), Chunk)
    BY <2>1 DEF Reason, Off
  <2>3. TypesKept
    BY DEF IInv
  <2>4. Meaning(Origin, Chunk) = Ends(Self(Origin), Chunk)
    BY <2>1, <2>3, MeaningIsAfter DEF Ends
  <2> QED
    BY <2>1, <2>2, <2>3, <2>4, DeeperIs
<1> QED
  BY <1>1, Invariant, PTL DEF Spec, Survives

\* A node that a read has made a vector remains one.
LEMMA MisleadsIsMisled ==
  ASSUME IInv, Apply, Chunk \in Seq(Step), NEW k \in DOMAIN Chunk, IsIndex(Chunk[k]),
         NEW q \in Meaning(Origin, SubSeq(Chunk, 1, k - 1)), q.node \in Nodes, Misleads(q)
  PROVE  Misled
<1>1. PICK taken \in done + 1 .. Len(path) :
        \E r \in Dispatch(Origin, SubSeq(path, done + 1, taken)) : Becomes(r, taken)
  BY DEF Apply, Origin
<1>2. tid'[q.node] \in {"List_Expr", tid[q.node]}
  BY <1>1 DEF Becomes
<1>3. tid[q.node] = "List_Expr"
  BY DEF IInv, TypesKept, Misleads
<1>4. q.as = "self" /\ tid'[q.node] # Tree[q.node].tid
  BY <1>2, <1>3 DEF Misleads
<1> QED
  BY <1>4 DEF Misled

\* Whatever the package and the path, sunlark_new_node is given NULL only by an
\* index past the end, for a call with no name, after a filter list, or by an
\* index in a value whose type a read has changed.
THEOREM NullsExplained == Spec => NullFromIndex
<1> DEFINE A == IsCall /\ cur'.is = "wrapped_NULL" =>
                  \/ Misled
                  \/ \E k \in DOMAIN Chunk :
                       /\ IsIndex(Chunk[k])
                       /\ Meaning(Origin, SubSeq(Chunk, 1, k - 1)) # {}
                       /\ Meaning(Origin, SubSeq(Chunk, 1, k)) = {}
                  \/ \E k \in 2 .. Len(Chunk) :
                       Chunk[k - 1].kind = "list" /\ (~IsIndex(Chunk[k]) \/ KwIndex(Chunk[k]) = IntMin)
                  \/ Is(Chunk[1], {"name", "key"}) /\ tid[Origin] = "Call_Expr" /\ NameOf(Origin) = 0
<1>1. IInv /\ [Next]_vars => [A]_vars
  <2> SUFFICES ASSUME IInv, Next, IsCall, cur'.is = "wrapped_NULL",
                      ~FromFilter(Chunk), ~Nameless(Origin, Chunk)
               PROVE  \/ Misled
                      \/ \E k \in DOMAIN Chunk :
                           /\ IsIndex(Chunk[k])
                           /\ Meaning(Origin, SubSeq(Chunk, 1, k - 1)) # {}
                           /\ Meaning(Origin, SubSeq(Chunk, 1, k)) = {}
    BY DEF FromFilter, Nameless
  <2>1. Origin \in Nodes /\ Chunk \in Seq(Step) /\ Reason(cur'.is, Origin, Chunk)
    BY CallIsApply, CallExplained
  <2>2. NoSuchIndex(Self(Origin), Chunk)
    BY <2>1 DEF Reason
  <2>3. TypesKept
    BY DEF IInv
  <2>4. PICK k \in DOMAIN Chunk :
          /\ IsIndex(Chunk[k])
          /\ \/ /\ Meaning(Origin, SubSeq(Chunk, 1, k - 1)) # {}
                /\ Meaning(Origin, SubSeq(Chunk, 1, k)) = {}
             \/ \E q \in Meaning(Origin, SubSeq(Chunk, 1, k - 1)) : Misleads(q)
    BY <2>1, <2>2, <2>3, NoSuchIndexIs
  <2>5. ASSUME NEW q \in Meaning(Origin, SubSeq(Chunk, 1, k - 1)), Misleads(q) PROVE Misled
    <3>1. Meaning(Origin, SubSeq(Chunk, 1, k - 1)) = After(Self(Origin), Chunk, k - 1)
      BY <2>1, <2>3, MeaningOfFirst
    <3>2. q.node \in Nodes
      BY <3>1, AfterIsProper DEF Proper, Places
    <3> QED
      BY <2>1, <2>4, <2>5, <3>2, CallIsApply, MisleadsIsMisled
  <2> QED
    BY <2>4, <2>5
<1> QED
  BY <1>1, Invariant, PTL DEF Spec, NullFromIndex

-----------------------------------------------------------------------------
(***************************************************************************)
(* The node that steps lead to                                             *)
(***************************************************************************)
\* Steps that the dispatchers have no case for: see Unsupported.
PastAll(args) == \E k \in 1 .. Len(args) - 1 : Is(args[k], AllBindings \cup {"name", "key"})

PartByPosition(args) ==
  \E k \in 2 .. Len(args) - 2 : Is(args[k - 1], ValueOps) /\ IsKwIndex(args[k]) /\ Is(args[k + 1], ValueOps)

Odd(p, args) == Off(p, args) \/ PastAll(args) \/ PartByPosition(args)

\* The result is the node that the steps lead to, if they lead to one.
Exact(r, p, args) == \A q \in Ends(p, args) : q.as = "self" => r.is = "node" /\ r.of = <<q.node>>

Reached(results, p, args) == Odd(p, args) \/ \A r \in results : Exact(r, p, args)

LEMMA NothingReached ==
  ASSUME NEW p, NEW args, Ends(p, args) = {} \/ Odd(p, args), NEW results
  PROVE  Reached(results, p, args)
  BY DEF Reached, Exact

LEMMA NoneReached ==
  ASSUME TypesKept, NEW p \in Proper, NEW args \in Seq(Step), args # << >>,
         Select(p, args[1]) = {}, NEW results
  PROVE  Reached(results, p, args)
  BY NothingSelected, NothingReached

LEMMA OneStep ==
  ASSUME NEW args \in Seq(Step), Len(args) = 1
  PROVE  args # << >> /\ args[1] \in Step
<1>1. args # << >>
  BY EmptySeq
<1> QED
  BY <1>1, TailOfSteps

\* The last step finds the node, or what holds the nodes.
LEMMA FoundReached ==
  ASSUME TypesKept, NEW p \in Proper, NEW args \in Seq(Step), Len(args) = 1,
         NEW n \in Nodes, Self(n) \in Select(p, args[1])
  PROVE  Reached(Wrap(n), p, args)
<1>1. args # << >> /\ n # 0
  BY OneStep, SelfIsProper
<1>2. Ends(p, args) = {Self(n)}
  <2>1. PICK q \in Select(p, args[1]) : q = Self(n)
    OBVIOUS
  <2>2. Ends(p, args) = {q}
    BY <1>1, OneSelected
  <2> QED
    BY <2>1, <2>2
<1> QED
  BY <1>1, <1>2 DEF Reached, Exact, Wrap, R, Self

LEMMA FacetReached ==
  ASSUME TypesKept, NEW p \in Proper, NEW args \in Seq(Step), Len(args) = 1,
         NEW q \in Select(p, args[1]), q.as # "self", NEW results
  PROVE  Reached(results, p, args)
<1>1. args # << >>
  BY OneStep
<1>2. Ends(p, args) = {q}
  BY <1>1, OneSelected
<1> QED
  BY <1>2 DEF Reached, Exact

\* From the place that the first step leads to.
LEMMA FurtherReached ==
  ASSUME TypesKept, NEW p \in Proper, NEW args \in Seq(Step), Len(args) > 1,
         NEW q \in Select(p, args[1])
  PROVE  /\ Odd(q, Tail(args)) => Odd(p, args)
         /\ \A results : Reached(results, q, Tail(args)) => Reached(results, p, args)
<1>1. PICK rest \in Seq(Step) : rest = Tail(args)
  BY MoreSteps
<1>2. /\ Len(rest) = Len(args) - 1 /\ Len(args) \in Nat
      /\ \A i \in 1 .. Len(rest) : rest[i] = args[i + 1]
  BY <1>1, MoreSteps, HeadTailProperties
<1>3. Ends(p, args) = Ends(q, rest) /\ (Off(q, rest) => Off(p, args))
  BY <1>1, FurtherExplained
<1>4. ASSUME PastAll(rest) PROVE PastAll(args)
  <2>1. PICK k \in 1 .. Len(rest) - 1 : Is(rest[k], AllBindings \cup {"name", "key"})
    BY <1>4 DEF PastAll
  <2>2. k + 1 \in 1 .. Len(args) - 1 /\ k \in 1 .. Len(rest)
    BY <1>2
  <2> QED
    BY <1>2, <2>1, <2>2 DEF PastAll
<1>5. ASSUME PartByPosition(rest) PROVE PartByPosition(args)
  <2>1. PICK k \in 2 .. Len(rest) - 2 :
          Is(rest[k - 1], ValueOps) /\ IsKwIndex(rest[k]) /\ Is(rest[k + 1], ValueOps)
    BY <1>5 DEF PartByPosition
  <2>2. /\ k + 1 \in 2 .. Len(args) - 2 /\ k - 1 \in 1 .. Len(rest) /\ k \in 1 .. Len(rest)
        /\ k + 1 \in 1 .. Len(rest) /\ (k - 1) + 1 = (k + 1) - 1
    BY <1>2
  <2>3. /\ rest[k - 1] = args[(k + 1) - 1] /\ rest[k] = args[k + 1]
        /\ rest[k + 1] = args[(k + 1) + 1]
    BY <1>2, <2>2
  <2> QED
    BY <2>1, <2>2, <2>3 DEF PartByPosition
<1>6. Odd(q, rest) => Odd(p, args)
  BY <1>3, <1>4, <1>5 DEF Odd
<1> QED
  BY <1>1, <1>3, <1>6 DEF Reached, Exact

LEMMA RetypeReached ==
  ASSUME NEW p, NEW args, NEW nodes, NEW results \in SUBSET Result, Reached(results, p, args)
  PROVE  Reached(Retype(nodes, results), p, args)
<1>1. \A r \in results : [r EXCEPT !.retyped = nodes].is = r.is /\ [r EXCEPT !.retyped = nodes].of = r.of
  BY DEF Result
<1>2. ASSUME NEW r \in results, Exact(r, p, args) PROVE Exact([r EXCEPT !.retyped = nodes], p, args)
  BY <1>1, <1>2 DEF Exact
<1> QED
  BY <1>2 DEF Reached, Retype

LEMMA OrErrorReached ==
  ASSUME NEW p, NEW args, NEW results, Reached(results, p, args)
  PROVE  Reached(OrError(results), p, args)
<1>1. ASSUME NEW r \in results, Exact(r, p, args)
      PROVE  Exact(IF r.is = "NULL" THEN [r EXCEPT !.is = "error"] ELSE r, p, args)
  BY <1>1 DEF Exact
<1> QED
  BY <1>1 DEF Reached, OrError

-----------------------------------------------------------------------------
(***************************************************************************)
(* Dictionaries and bindings                                               *)
(***************************************************************************)
LEMMA EntryItemReached ==
  ASSUME TypesKept, NEW e \in Nodes, Tree[e].tid = "Dict_Entry", NEW args \in Seq(Step), Len(args) = 2,
         Is(args[1], ValueOps)
  PROVE  Reached(EntryItem(Val(e), args[2]), Self(e), args)
<1> DEFINE v == Val(e)
           item == At(Kids(v), KwIndex(args[2]))
           X(S) == Reached(S, Self(e), args)
<1>0. Len(args) > 1
  OBVIOUS
<1>1. /\ Len(args) > 1 /\ args # << >> /\ args[1] \in Step /\ args[2] \in Step
      /\ Tail(args) \in Seq(Step) /\ Tail(args) # << >> /\ Tail(args)[1] = args[2] /\ Len(Tail(args)) = 1
  BY <1>0, MoreSteps
<1>2. Self(e) \in Proper /\ v \in Nodes /\ Self(v) \in Proper
  BY SelfIsProper, Grammar
<1>3. Self(v) \in Select(Self(e), args[1])
  BY <1>1, SelectsPart
<1>4. CASE Tree[v].tid # "List_Expr"
  <2>1. Off(Self(e), args)
    BY <1>1, <1>4, BeyondEntry
  <2> QED
    BY <2>1, NothingReached DEF Odd
<1>5. CASE args[2].kind = "int"
  <2>1. 2 \in 2 .. Len(args)
    OBVIOUS
  <2>2. Off(Self(e), args)
    BY <1>5, <2>1 DEF IntAfterValue, Off
  <2> QED
    BY <2>2, NothingReached DEF Odd
<1>6. CASE Tree[v].tid = "List_Expr" /\ args[2].kind # "int" /\ (~IsKwIndex(args[2]) \/ item = 0)
  <2>1. ~IsIndex(args[2]) \/ item = 0
    BY <1>6 DEF IsIndex, IsKwIndex
  <2>2. Select(Self(v), args[2]) = {}
    BY <1>6, <2>1, NothingInList
  <2>3. Reached(EntryItem(v, args[2]), Self(v), Tail(args))
    BY <1>1, <1>2, <2>2, NoneReached
  <2> QED
    BY <1>1, <1>2, <1>3, <2>3, FurtherReached
<1>7. CASE Tree[v].tid = "List_Expr" /\ IsKwIndex(args[2]) /\ item # 0
  <2>1. EntryItem(v, args[2]) = Wrap(item)
    BY <1>7 DEF EntryItem, Leaves
  <2>2. IsIndex(args[2]) /\ item \in Nodes
    BY <1>1, <1>2, <1>7, ItemIsNode DEF IsIndex, IsKwIndex, Nodal
  <2>3. Self(item) \in Select(Self(v), args[2])
    BY <1>1, <1>2, <1>7, <2>2, SelectsItem
  <2>4. Reached(Wrap(item), Self(v), Tail(args))
    BY <1>1, <1>2, <2>2, <2>3, FoundReached
  <2> QED
    BY <1>1, <1>2, <1>3, <2>1, <2>4, FurtherReached
<1> QED
  BY <1>4, <1>5, <1>6, <1>7

\* The parts of an entry or a binding, asked for last.
LEMMA PartReached ==
  ASSUME TypesKept, NEW n \in Nodes, Tree[n].tid \in {"Binding", "Dict_Entry"},
         NEW args \in Seq(Step), Len(args) = 1
  PROVE  /\ Is(args[1], {"key"}) => Reached(Wrap(Key(n)), Self(n), args)
         /\ Is(args[1], ValueOps) => Reached(Wrap(Val(n)), Self(n), args)
<1>1. Self(n) \in Proper /\ Key(n) \in Nodes /\ Val(n) \in Nodes /\ args[1] \in Step
  BY SelfIsProper, Grammar, OneStep
<1>2. /\ Is(args[1], {"key"}) => Self(Key(n)) \in Select(Self(n), args[1])
      /\ Is(args[1], ValueOps) => Self(Val(n)) \in Select(Self(n), args[1])
  BY <1>1, SelectsPart
<1> QED
  BY <1>1, <1>2, FoundReached

LEMMA RestCounts ==
  ASSUME NEW args \in Seq(Step), Len(args) > 1
  PROVE  /\ Tail(args) \in Seq(Step) /\ Tail(args) # << >> /\ Tail(args)[1] = args[2]
         /\ args[2] \in Step /\ Len(args) # 1 /\ (Len(args) > 2 <=> Len(args) # 2)
         /\ (Len(Tail(args)) = 1 <=> Len(args) = 2) /\ (Len(Tail(args)) = 2 <=> Len(args) = 3)
         /\ (Len(Tail(args)) > 1 <=> Len(args) # 2)
         /\ (Len(Tail(args)) > 2 <=> Len(args) # 2 /\ Len(args) # 3)
<1>1. PICK c \in Int : c = Len(args)
  OBVIOUS
<1>2. c > 1 /\ Len(Tail(args)) = c - 1
  BY <1>1, MoreSteps
<1>3. /\ c # 1 /\ (c > 2 <=> c # 2) /\ (c - 1 = 1 <=> c = 2) /\ (c - 1 = 2 <=> c = 3)
      /\ (c - 1 > 1 <=> c # 2) /\ (c - 1 > 2 <=> c # 2 /\ c # 3)
  BY <1>2
<1> QED
  BY <1>1, <1>2, <1>3, MoreSteps

LEMMA EntryPartReached ==
  ASSUME TypesKept, NEW d \in Nodes, Tree[d].tid = "Dict_Expr",
         NEW args \in Seq(Step), args # << >>, args[1].kind = "str"
  PROVE  Reached(EntryPart(d, args), Self(d), args)
<1> DEFINE entry == Keyed(Kids(d), args[1].s)
           rest == Tail(args)
           X(S) == Reached(S, Self(d), args)
<1>1. /\ Self(d) \in Proper /\ args[1] \in Step /\ (Len(args) = 1 \/ Len(args) > 1)
      /\ Len(args) \in Nat \ {0}
  BY SelfIsProper, TailOfSteps
<1>2. CASE entry = 0
  <2>1. Select(Self(d), args[1]) = {}
    BY <1>2, NothingInDict
  <2> QED
    BY <1>1, <2>1, NoneReached
<1>3. CASE entry # 0
  <2>1. entry \in Nodes /\ Tree[entry].tid = "Dict_Entry" /\ Self(entry) \in Select(Self(d), args[1])
    <3>1. \E k \in DOMAIN Kids(d) : entry = Kids(d)[k]
      BY <1>3, KeyedIsNode
    <3> QED
      BY <1>1, <1>3, <3>1, Grammar, SelectsKeyed
  <2>2. CASE Len(args) = 1
    <3>1. EntryPart(d, args) = Wrap(entry)
      BY <1>3, <2>2 DEF EntryPart
    <3> QED
      BY <1>1, <2>1, <2>2, <3>1, FoundReached
  <2>3. CASE Len(args) > 1
    <3>1. /\ rest \in Seq(Step) /\ rest # << >> /\ rest[1] = args[2]
          /\ (Len(rest) = 1 <=> Len(args) = 2) /\ (Len(rest) = 2 <=> Len(args) = 3)
          /\ (Len(rest) > 1 <=> Len(args) # 2) /\ (Len(rest) > 2 <=> Len(args) # 2 /\ Len(args) # 3)
      BY <2>3, RestCounts
    <3>2. \A results : Reached(results, Self(entry), rest) => X(results)
      BY <1>1, <2>1, <2>3, FurtherReached
    <3>3. ASSUME Off(Self(entry), rest) \/ Ends(Self(entry), rest) = {} PROVE X(EntryPart(d, args))
      <4>1. Reached(EntryPart(d, args), Self(entry), rest)
        BY <3>3, NothingReached DEF Odd
      <4> QED
        BY <3>2, <4>1
    <3>4. CASE Is(args[2], {"key"}) /\ Len(args) = 2
      <4>1. ~Is(args[2], ValueOps)
        BY <3>4 DEF Is, ValueOps
      <4>2. EntryPart(d, args) = Wrap(Key(entry))
        BY <1>3, <2>3, <3>4, <4>1 DEF EntryPart
      <4>3. Reached(Wrap(Key(entry)), Self(entry), rest)
        BY <2>1, <3>1, <3>4, PartReached
      <4> QED
        BY <3>2, <4>2, <4>3
    <3>5. CASE Is(args[2], ValueOps) /\ Len(args) = 2
      <4>1. ~Is(args[2], {"key"})
        BY <3>5 DEF Is, ValueOps
      <4>2. EntryPart(d, args) = Wrap(Val(entry))
        BY <1>3, <2>3, <3>5, <4>1 DEF EntryPart
      <4>3. Reached(Wrap(Val(entry)), Self(entry), rest)
        BY <2>1, <3>1, <3>5, PartReached
      <4> QED
        BY <3>2, <4>2, <4>3
    <3>6. CASE Is(args[2], ValueOps) /\ Len(args) = 3
      <4>1. EntryPart(d, args) = Retype({Val(entry)}, EntryItem(Val(entry), args[3]))
        BY <1>3, <2>3, <3>6 DEF EntryPart, Is, ValueOps
      <4>2. Len(rest) = 2 /\ args[3] \in Step /\ rest[2] = args[3]
        <5>1. Len(args) > 2
          BY <3>6
        <5> QED
          BY <3>1, <3>6, <5>1, ManySteps
      <4>3. Reached(EntryItem(Val(entry), args[3]), Self(entry), rest)
        BY <2>1, <3>1, <3>6, <4>2, EntryItemReached
      <4>4. EntryItem(Val(entry), args[3]) \in SUBSET Result
        BY <2>1, <4>2, EntryItemResult, Grammar
      <4>5. Reached(EntryItem(Val(entry), args[3]), Self(d), args)
        BY <3>2, <4>3
      <4>6. Reached(Retype({Val(entry)}, EntryItem(Val(entry), args[3])), Self(d), args)
        BY <4>4, <4>5, RetypeReached
      <4> QED
        BY <4>1, <4>6
    <3>7. CASE Is(args[2], {"key"}) /\ Len(args) # 2
      BY <2>1, <3>1, <3>3, <3>7, BeyondEntry
    <3>8. CASE Is(args[2], ValueOps) /\ Len(args) # 2 /\ Len(args) # 3
      BY <2>1, <3>1, <3>3, <3>8, BeyondEntry
    <3>9. CASE ~Is(args[2], {"key"}) /\ ~Is(args[2], ValueOps)
      BY <2>1, <3>1, <3>3, <3>9, BeyondEntry
    <3> QED
      BY <3>4, <3>5, <3>6, <3>7, <3>8, <3>9
  <2> QED
    BY <1>1, <2>2, <2>3
<1> QED
  BY <1>2, <1>3

\* What follows the value of an entry found by position is not looked at.
LEMMA EntryPartAtReached ==
  ASSUME TypesKept, NEW d \in Nodes, Tree[d].tid = "Dict_Expr",
         NEW args \in Seq(Step), args # << >>, IsKwIndex(args[1]),
         ~(Len(args) > 2 /\ Is(args[2], ValueOps))
  PROVE  Reached(EntryPartAt(d, args), Self(d), args)
<1> DEFINE entry == At(Kids(d), KwIndex(args[1]))
           rest == Tail(args)
           X(S) == Reached(S, Self(d), args)
<1>1. /\ Self(d) \in Proper /\ args[1] \in Step /\ (Len(args) = 1 \/ Len(args) > 1)
      /\ Len(args) \in Nat \ {0}
  BY SelfIsProper, TailOfSteps
<1>2. CASE entry = 0
  <2>1. Select(Self(d), args[1]) = {}
    BY <1>2, NothingInDict
  <2> QED
    BY <1>1, <2>1, NoneReached
<1>3. CASE entry # 0
  <2>1. entry \in Nodes /\ Tree[entry].tid = "Dict_Entry" /\ Self(entry) \in Select(Self(d), args[1])
    <3>1. \E k \in DOMAIN Kids(d) : entry = Kids(d)[k]
      BY <1>1, <1>3, ItemIsNode
    <3> QED
      BY <1>1, <1>3, <3>1, Grammar, SelectsItem
  <2>2. CASE Len(args) = 1
    <3>1. EntryPartAt(d, args) = Wrap(entry)
      BY <1>3, <2>2 DEF EntryPartAt
    <3> QED
      BY <1>1, <2>1, <2>2, <3>1, FoundReached
  <2>3. CASE Len(args) > 1
    <3>1. /\ rest \in Seq(Step) /\ rest # << >> /\ rest[1] = args[2]
          /\ (Len(rest) = 1 <=> Len(args) = 2) /\ (Len(rest) > 1 <=> Len(args) # 2)
          /\ (Len(args) > 2 <=> Len(args) # 2)
      BY <2>3, RestCounts
    <3>2. \A results : Reached(results, Self(entry), rest) => X(results)
      BY <1>1, <2>1, <2>3, FurtherReached
    <3>3. ASSUME Off(Self(entry), rest) \/ Ends(Self(entry), rest) = {} PROVE X(EntryPartAt(d, args))
      <4>1. Reached(EntryPartAt(d, args), Self(entry), rest)
        BY <3>3, NothingReached DEF Odd
      <4> QED
        BY <3>2, <4>1
    <3>4. CASE Is(args[2], {"key"}) /\ Len(args) = 2
      <4>1. EntryPartAt(d, args) = Wrap(Key(entry))
        BY <1>3, <2>3, <3>4 DEF EntryPartAt, Is, ValueOps
      <4>2. Reached(Wrap(Key(entry)), Self(entry), rest)
        BY <2>1, <3>1, <3>4, PartReached
      <4> QED
        BY <3>2, <4>1, <4>2
    <3>5. CASE Is(args[2], ValueOps)
      <4>1. EntryPartAt(d, args) = Wrap(Val(entry))
        BY <1>3, <2>3, <3>5 DEF EntryPartAt, Is, ValueOps
      <4>2. Reached(Wrap(Val(entry)), Self(entry), rest)
        BY <2>1, <3>1, <3>5, PartReached
      <4> QED
        BY <3>2, <4>1, <4>2
    <3>6. CASE Is(args[2], {"key"}) /\ Len(args) # 2
      BY <2>1, <3>1, <3>3, <3>6, BeyondEntry
    <3>7. CASE ~Is(args[2], {"key"}) /\ ~Is(args[2], ValueOps)
      BY <2>1, <3>1, <3>3, <3>7, BeyondEntry
    <3> QED
      BY <3>4, <3>5, <3>6, <3>7
  <2> QED
    BY <1>1, <2>2, <2>3
<1> QED
  BY <1>2, <1>3

LEMMA DictExprReached ==
  ASSUME TypesKept, NEW d \in Nodes, Tree[d].tid = "Dict_Expr", NEW args \in Seq(Step), args # << >>,
         ~(IsKwIndex(args[1]) /\ Len(args) > 2 /\ Is(args[2], ValueOps))
  PROVE  Reached(DictExpr(d, args), Self(d), args)
<1>1. CASE args[1].kind = "str"
  <2>1. DictExpr(d, args) = EntryPart(d, args)
    BY <1>1 DEF DictExpr, IsKwIndex
  <2> QED
    BY <1>1, <2>1, EntryPartReached
<1>2. CASE IsKwIndex(args[1])
  <2>1. DictExpr(d, args) = EntryPartAt(d, args)
    BY <1>2 DEF DictExpr, IsKwIndex
  <2> QED
    BY <1>2, <2>1, EntryPartAtReached
<1>3. CASE args[1].kind # "str" /\ ~IsKwIndex(args[1])
  <2>1. Select(Self(d), args[1]) = {}
    BY <1>3, NothingInDict
  <2> QED
    BY <2>1, NoneReached, SelfIsProper
<1> QED
  BY <1>1, <1>2, <1>3

\* An item of the list that is the value of a binding, or nothing of another
\* value but a dictionary.
LEMMA ValueReached ==
  ASSUME TypesKept, NEW b \in Nodes, Tree[b].tid = "Binding", NEW args \in Seq(Step), Len(args) > 1,
         Is(args[1], ValueOps), tid[Val(b)] # "Dict_Expr"
  PROVE  /\ tid[Val(b)] # "List_Expr" => \A S : Reached(S, Self(b), args)
         /\ ~IsKwIndex(args[2]) => \A S : Reached(S, Self(b), args)
         /\ tid[Val(b)] = "List_Expr" /\ IsKwIndex(args[2]) =>
              Reached(Wrap(At(Kids(Val(b)), KwIndex(args[2]))), Self(b), args)
<1> DEFINE v == Val(b)
           rest == Tail(args)
           item == At(Kids(v), KwIndex(args[2]))
           X(S) == Reached(S, Self(b), args)
<1>1. /\ args # << >> /\ args[1] \in Step /\ args[2] \in Step /\ Self(b) \in Proper
      /\ rest \in Seq(Step) /\ rest # << >> /\ rest[1] = args[2]
      /\ (Len(rest) = 1 \/ Len(rest) > 1) /\ v \in Nodes /\ Self(v) \in Proper
  BY MoreSteps, TailOfSteps, SelfIsProper, Grammar
<1>2. Self(v) \in Select(Self(b), args[1])
  BY <1>1, SelectsPart
<1>3. tid[v] = Tree[v].tid /\ Tree[v].tid \in Exprs
  BY ValueKeepsType, GrammarTypes
<1>4. /\ \A S : Reached(S, Self(v), rest) => X(S)
      /\ v \in OutOfReach => Off(Self(b), args)
      /\ Off(Self(v), rest) => Off(Self(b), args)
  BY <1>1, <1>2, FurtherReached, FurtherExplained DEF Self
<1>5. ASSUME Off(Self(b), args), NEW S PROVE X(S)
  BY <1>5, NothingReached DEF Odd
<1>6. ASSUME Select(Self(v), args[2]) = {}, NEW S PROVE X(S)
  <2>1. Reached(S, Self(v), rest)
    BY <1>1, <1>6, NoneReached
  <2> QED
    BY <1>4, <2>1
<1>7. ASSUME tid[v] # "List_Expr", NEW S PROVE X(S)
  <2>1. CASE Tree[v].tid = "Call_Expr"
    <3>1. v \in OutOfReach
      BY <2>1, PartsOutOfReach
    <3> QED
      BY <1>4, <1>5, <3>1
  <2>2. CASE Tree[v].tid \in {"ID", "STRING", "INT"}
    <3>1. Select(Self(v), args[2]) = {}
      BY <2>2, NothingInLeaf
    <3> QED
      BY <1>6, <3>1
  <2> QED
    BY <1>3, <1>7, <2>1, <2>2 DEF Exprs
<1>8. ASSUME Tree[v].tid = "List_Expr", ~IsKwIndex(args[2]), NEW S PROVE X(S)
  <2>1. CASE args[2].kind = "int"
    <3>1. 2 \in 2 .. Len(args)
      OBVIOUS
    <3>2. Off(Self(b), args)
      BY <2>1, <3>1 DEF IntAfterValue, Off
    <3> QED
      BY <1>5, <3>2
  <2>2. CASE args[2].kind # "int"
    <3>1. ~IsIndex(args[2])
      BY <1>8, <2>2 DEF IsIndex, IsKwIndex
    <3>2. Select(Self(v), args[2]) = {}
      BY <1>8, <3>1, NothingInList
    <3> QED
      BY <1>6, <3>2
  <2> QED
    BY <2>1, <2>2
<1>9. ASSUME Tree[v].tid = "List_Expr", IsKwIndex(args[2]) PROVE X(Wrap(item))
  <2>1. IsIndex(args[2])
    BY <1>9 DEF IsIndex, IsKwIndex
  <2>2. CASE item = 0
    <3>1. Select(Self(v), args[2]) = {}
      BY <1>9, <2>2, NothingInList
    <3> QED
      BY <1>6, <3>1
  <2>3. CASE item # 0
    <3>1. item \in Nodes
      BY <1>1, <2>3, ItemIsNode DEF Nodal
    <3>2. Self(item) \in Select(Self(v), args[2])
      BY <1>1, <1>9, <2>1, <2>3, SelectsItem
    <3>3. CASE Len(rest) = 1
      <4>1. Reached(Wrap(item), Self(v), rest)
        BY <1>1, <3>1, <3>2, <3>3, FoundReached
      <4> QED
        BY <1>4, <4>1
    <3>4. CASE Len(rest) > 1
      <4>1. Self(item).as = "self" /\ Self(item).node \in OutOfReach
        BY <1>1, <1>9, <3>2, ItemsOutOfReach
      <4>2. Off(Self(v), rest)
        BY <1>1, <3>2, <3>4, <4>1, FurtherExplained
      <4> QED
        BY <1>4, <1>5, <4>2
    <3> QED
      BY <1>1, <3>3, <3>4
  <2> QED
    BY <2>2, <2>3
<1> QED
  BY <1>3, <1>7, <1>8, <1>9

LEMMA ComponentReached ==
  ASSUME TypesKept, NEW b \in Nodes, Tree[b].tid = "Binding", NEW args \in Seq(Step), args # << >>
  PROVE  Reached(Component(b, args), Self(b), args)
<1> DEFINE v == Val(b)
           rest == Tail(args)
           X(S) == Reached(S, Self(b), args)
<1>1. /\ Self(b) \in Proper /\ args[1] \in Step /\ rest \in Seq(Step)
      /\ Key(b) \in Nodes /\ v \in Nodes
      /\ (rest = << >> => Len(args) = 1) /\ (rest # << >> => Len(args) > 1 /\ rest[1] = args[2])
  BY SelfIsProper, TailOfSteps, Grammar
<1>2. CASE Is(args[1], {"key"})
  <2>1. ~Is(args[1], ValueOps)
    BY <1>2 DEF Is, ValueOps
  <2>2. CASE rest = << >>
    <3>1. Component(b, args) = Wrap(Key(b))
      BY <1>2, <2>1, <2>2 DEF Component
    <3> QED
      BY <1>1, <1>2, <2>2, <3>1, PartReached
  <2>3. CASE rest # << >>
    <3>1. Tree[Key(b)].tid = "ID" /\ Self(Key(b)) \in Select(Self(b), args[1])
      BY <1>1, <1>2, GrammarTypes, SelectsPart
    <3>2. Ends(Self(b), args) = {}
      BY <1>1, <2>3, <3>1, BeyondLeaf
    <3> QED
      BY <3>2, NothingReached
  <2> QED
    BY <2>2, <2>3
<1>3. CASE Is(args[1], ValueOps)
  <2>1. ~Is(args[1], {"key"})
    BY <1>3 DEF Is, ValueOps
  <2>2. CASE rest = << >>
    <3>1. Component(b, args) = Wrap(v)
      BY <1>3, <2>1, <2>2 DEF Component
    <3> QED
      BY <1>1, <1>3, <2>2, <3>1, PartReached
  <2>3. CASE rest # << >> /\ tid[v] = "Dict_Expr"
    <3>1. Component(b, args) = DictExpr(v, rest) /\ Tree[v].tid = "Dict_Expr"
      BY <1>3, <2>1, <2>3, ValueKeepsType DEF Component
    <3>2. CASE IsKwIndex(rest[1]) /\ Len(rest) > 2 /\ Is(rest[2], ValueOps)
      <4>1. /\ 2 \in 2 .. Len(args) - 2 /\ rest[1] = args[2] /\ rest[2] = args[3]
        <5>1. PICK c \in Int : c = Len(args)
          BY <1>1
        <5>2. Len(rest) = c - 1 /\ c > 1
          BY <1>1, <2>3, <5>1, MoreSteps
        <5>3. c > 2 /\ 2 \in 2 .. c - 2
          BY <3>2, <5>2
        <5> QED
          BY <1>1, <2>3, <5>1, <5>3, ManySteps
      <4>2. 2 - 1 = 1 /\ 2 + 1 = 3
        OBVIOUS
      <4>3. PartByPosition(args)
        BY <1>3, <3>2, <4>1, <4>2 DEF PartByPosition
      <4> QED
        BY <4>3, NothingReached DEF Odd
    <3>3. CASE ~(IsKwIndex(rest[1]) /\ Len(rest) > 2 /\ Is(rest[2], ValueOps))
      <4>1. Reached(DictExpr(v, rest), Self(v), rest)
        BY <1>1, <2>3, <3>1, <3>3, DictExprReached
      <4>2. Self(v) \in Select(Self(b), args[1])
        BY <1>1, <1>3, SelectsPart
      <4> QED
        BY <1>1, <2>3, <3>1, <4>1, <4>2, FurtherReached
    <3> QED
      BY <3>2, <3>3
  <2>4. CASE rest # << >> /\ tid[v] = "List_Expr" /\ IsKwIndex(rest[1])
    <3>1. Component(b, args) = Wrap(At(Kids(v), KwIndex(args[2])))
      BY <1>1, <1>3, <2>1, <2>4 DEF Component, IsKwIndex
    <3> QED
      BY <1>1, <1>3, <2>4, <3>1, ValueReached
  <2>5. CASE rest # << >> /\ tid[v] # "Dict_Expr" /\ ~(tid[v] = "List_Expr" /\ IsKwIndex(rest[1]))
    BY <1>1, <1>3, <2>5, ValueReached
  <2> QED
    BY <2>2, <2>3, <2>4, <2>5
<1>4. CASE ~Is(args[1], {"key"}) /\ ~Is(args[1], ValueOps)
  <2>1. Select(Self(b), args[1]) = {}
    BY <1>4, NothingInPair
  <2> QED
    BY <1>1, <2>1, NoneReached
<1> QED
  BY <1>2, <1>3, <1>4

-----------------------------------------------------------------------------
(***************************************************************************)
(* Targets                                                                 *)
(***************************************************************************)
LEMMA TargetBindingReached ==
  ASSUME TypesKept, NEW t \in Nodes, Tree[t].tid = "Call_Expr",
         NEW args \in Seq(Step), args # << >>
  PROVE  Reached(TargetBinding(t, args), Self(ArgList(t)), args)
<1> DEFINE al == ArgList(t)
           X(S) == Reached(S, Self(al), args)
           b == IF args[1].kind = "sym" THEN Keyed(Bindings(t), args[1].s)
                ELSE At(Bindings(t), KwIndex(args[1]))
<1>1. /\ al \in Nodes /\ Tree[al].tid = "Arg_List" /\ args[1] \in Step
      /\ (Len(args) = 1 \/ Len(args) > 1)
  BY Grammar, TailOfSteps
<1>2. Self(al) \in Proper /\ Bindings(t) = BindingsOf(al) /\ KwIndex(args[1]) \in Int
  BY <1>1, SelfIsProper, KwIndexInt DEF Bindings
<1>3. CASE (~IsIndex(args[1]) /\ args[1].kind # "sym") \/ b = 0
  <2>1. Select(Self(al), args[1]) = {}
    BY <1>1, <1>2, <1>3, NothingInArgList
  <2> QED
    BY <1>2, <2>1, NoneReached
<1>4. CASE (IsIndex(args[1]) \/ args[1].kind = "sym") /\ b # 0
  <2>1. \E k \in DOMAIN Bindings(t) : b = Bindings(t)[k]
    BY <1>2, <1>4, Attributes, AtIs, KeyedIs
  <2>2. b \in Nodes /\ Tree[b].tid = "Binding"
    BY <2>1, Attributes
  <2>3. Self(b) \in Select(Self(al), args[1])
    BY <1>1, <1>2, <1>4, SelectsBinding
  <2>4. TargetBinding(t, args) = IF Len(args) = 1 THEN Wrap(b) ELSE Component(b, Tail(args))
    BY <1>4 DEF TargetBinding
  <2> HIDE DEF b
  <2>5. CASE Len(args) = 1
    BY <1>2, <2>2, <2>3, <2>4, <2>5, FoundReached
  <2>6. CASE Len(args) > 1
    <3>1. Tail(args) \in Seq(Step) /\ Tail(args) # << >> /\ Len(args) # 1
      BY <2>6, RestCounts
    <3>2. Reached(Component(b, Tail(args)), Self(b), Tail(args))
      BY <2>2, <3>1, ComponentReached
    <3> QED
      BY <1>2, <2>3, <2>4, <2>6, <3>1, <3>2, FurtherReached
  <2> QED
    BY <1>1, <2>5, <2>6
<1> QED
  BY <1>3, <1>4

LEMMA TargetReached ==
  ASSUME TypesKept, NEW t \in Nodes, Tree[t].tid = "Call_Expr",
         NEW args \in Seq(Step), args # << >>
  PROVE  Reached(Target(t, args), Self(t), args)
<1> DEFINE X(S) == Reached(S, Self(t), args)
<1>1. /\ t # 0 /\ args[1] \in Step /\ Self(t) \in Proper /\ (Len(args) = 1 \/ Len(args) > 1)
      /\ ArgList(t) \in Nodes /\ Rule(t) \in Nodes
  BY SelfIsProper, TailOfSteps, Grammar
<1>2. ASSUME Len(args) > 1, Is(args[1], AllBindings \cup {"name", "key"}), NEW S PROVE X(S)
  <2>1. 1 \in 1 .. Len(args) - 1
    BY <1>2
  <2> QED
    BY <1>2, <2>1, NothingReached DEF PastAll, Odd
<1>3. Is(args[1], OneBinding \cup AllBindings) => Self(ArgList(t)) \in Select(Self(t), args[1])
  BY <1>1, SelectsOfTarget
<1>4. CASE Is(args[1], AllBindings)
  <2>1. CASE Len(args) = 1
    <3>1. Target(t, args) = Wrap(ArgList(t))
      BY <1>1, <1>4, <2>1 DEF Target, Is, OneBinding, AllBindings
    <3>2. Is(args[1], OneBinding \cup AllBindings)
      BY <1>4 DEF Is
    <3> QED
      BY <1>1, <1>3, <2>1, <3>1, <3>2, FoundReached
  <2>2. CASE Len(args) > 1
    <3>1. Is(args[1], AllBindings \cup {"name", "key"})
      BY <1>4 DEF Is
    <3> QED
      BY <1>2, <2>2, <3>1
  <2> QED
    BY <1>1, <2>1, <2>2
<1>5. CASE Is(args[1], OneBinding)
  <2>1. ~Is(args[1], AllBindings) /\ ~Is(args[1], {"name", "key"}) /\ ~Is(args[1], {"rule"})
        /\ ~Is(args[1], {"arg-list"}) /\ Is(args[1], OneBinding \cup AllBindings)
    BY <1>5 DEF Is, OneBinding, AllBindings
  <2>2. Target(t, args) = IF Len(args) = 1 THEN Wrap(ArgList(t)) ELSE TargetBinding(t, Tail(args))
    BY <1>1, <1>5, <2>1 DEF Target
  <2>3. CASE Len(args) = 1
    BY <1>1, <1>3, <2>1, <2>2, <2>3, FoundReached
  <2>4. CASE Len(args) > 1
    <3>1. Tail(args) \in Seq(Step) /\ Tail(args) # << >> /\ Len(args) # 1
      BY <2>4, RestCounts
    <3>2. Reached(TargetBinding(t, Tail(args)), Self(ArgList(t)), Tail(args))
      BY <3>1, TargetBindingReached
    <3> QED
      BY <1>1, <1>3, <2>1, <2>2, <2>4, <3>1, <3>2, FurtherReached
  <2> QED
    BY <1>1, <2>3, <2>4
<1>6. CASE Is(args[1], {"name", "key"})
  <2>1. ~Is(args[1], AllBindings) /\ ~Is(args[1], OneBinding) /\ ~Is(args[1], {"rule"})
        /\ ~Is(args[1], {"arg-list"}) /\ ~Is(args[1], OneBinding \cup AllBindings)
    BY <1>6 DEF Is, OneBinding, AllBindings
  <2>2. CASE NameOf(t) = 0
    <3>1. SelectSelf(t, args[1]) = Found(NameOf(t))
      BY <1>6, <2>1 DEF SelectSelf
    <3>2. Select(Self(t), args[1]) = {}
      BY <2>2, <3>1, SelfSelect DEF Found
    <3> QED
      BY <1>1, <3>2, NoneReached
  <2>3. CASE NameOf(t) # 0 /\ Len(args) = 1
    <3>1. Target(t, args) = Wrap(NameOf(t))
      BY <1>1, <1>6, <2>1 DEF Target
    <3>2. NameOf(t) \in Nodes
      BY <2>3, PartsChoice DEF Nodal
    <3>3. Self(NameOf(t)) \in Select(Self(t), args[1])
      BY <1>1, <1>6, <2>3, SelectsOfTarget
    <3> QED
      BY <1>1, <2>3, <3>1, <3>2, <3>3, FoundReached
  <2>4. CASE Len(args) > 1
    <3>1. Is(args[1], AllBindings \cup {"name", "key"})
      BY <1>6 DEF Is
    <3> QED
      BY <1>2, <2>4, <3>1
  <2> QED
    BY <1>1, <2>2, <2>3, <2>4
<1>7. CASE Is(args[1], {"rule"})
  <2>1. ~Is(args[1], AllBindings) /\ ~Is(args[1], OneBinding) /\ ~Is(args[1], {"name", "key"})
        /\ ~Is(args[1], {"arg-list"})
    BY <1>7 DEF Is, OneBinding, AllBindings
  <2>2. Target(t, args) = Wrap(Rule(t)) /\ Self(Rule(t)) \in Select(Self(t), args[1])
    BY <1>1, <1>7, <2>1, SelectsOfTarget DEF Target
  <2>3. CASE Len(args) = 1
    BY <1>1, <2>2, <2>3, FoundReached
  <2>4. CASE Len(args) > 1
    <3>1. Ends(Self(t), args) = {}
      BY <1>1, <2>2, <2>4, GrammarTypes, BeyondLeaf
    <3> QED
      BY <3>1, NothingReached
  <2> QED
    BY <1>1, <2>3, <2>4
<1>8. CASE /\ ~Is(args[1], AllBindings) /\ ~Is(args[1], OneBinding)
           /\ ~Is(args[1], {"name", "key"}) /\ ~Is(args[1], {"rule"})
  <2>1. ~Is(args[1], OneBinding \cup AllBindings)
    BY <1>8 DEF Is
  <2>2. SelectSelf(t, args[1]) = {}
    BY <1>8, <2>1 DEF SelectSelf
  <2>3. Select(Self(t), args[1]) = {}
    BY <2>2, SelfSelect
  <2> QED
    BY <1>1, <2>3, NoneReached
<1> QED
  BY <1>4, <1>5, <1>6, <1>7, <1>8

LEMMA NoTargetSelected ==
  ASSUME NEW n, NEW st, st.kind = "str", TargetNamed(st.s) = 0
  PROVE  Select(Facet(n, "targets"), st) = {}
<1>1. Facet(n, "targets").as = "targets"
  BY DEF Facet
<1>2. Select(Facet(n, "targets"), st) =
        ByIndex(Targets, st) \cup IF st.kind = "str" THEN Found(TargetNamed(st.s)) ELSE {}
  BY <1>1 DEF Select
<1>3. ~IsIndex(st)
  BY DEF IsIndex
<1> QED
  BY <1>2, <1>3 DEF ByIndex, Found

LEMMA PkgTargetReached ==
  ASSUME TypesKept, NEW args \in Seq(Step), args # << >>
  PROVE  Reached(PkgTarget(args), Facet(Root, "targets"), args)
<1> DEFINE p == Facet(Root, "targets")
           t == IF args[1].kind = "str" THEN TargetNamed(args[1].s) ELSE At(Targets, KwIndex(args[1]))
           X(S) == Reached(S, p, args)
<1>1. /\ args[1] \in Step /\ p \in Proper /\ Root \in Nodes /\ (Len(args) = 1 \/ Len(args) > 1)
      /\ KwIndex(args[1]) \in Int
  BY TailOfSteps, FacetIsProper, NodeFacts, KwIndexInt
<1>2. t = 0 \/ \E k \in DOMAIN Targets : t = Targets[k]
  BY <1>1, ListsOfPackage, AtIs
<1>3. t # 0 => t \in Nodes /\ Tree[t].tid = "Call_Expr"
  BY <1>2, ListsOfPackage
<1>4. CASE (args[1].kind # "str" /\ ~IsIndex(args[1])) \/ t = 0
  <2>1. Select(p, args[1]) = {}
    BY <1>1, <1>4, NothingInFacet, NoTargetSelected
  <2> QED
    BY <1>1, <2>1, NoneReached
<1>5. CASE (args[1].kind = "str" \/ IsIndex(args[1])) /\ t # 0
  <2>1. PkgTarget(args) = IF Len(args) = 1 THEN Wrap(t) ELSE Target(t, Tail(args))
    BY <1>5 DEF PkgTarget
  <2>2. t \in Nodes /\ Tree[t].tid = "Call_Expr" /\ Self(t) \in Select(p, args[1])
    BY <1>1, <1>3, <1>5, SelectsFromFacet
  <2> HIDE DEF t
  <2>3. CASE Len(args) = 1
    BY <1>1, <2>1, <2>2, <2>3, FoundReached
  <2>4. CASE Len(args) > 1
    <3>1. Tail(args) \in Seq(Step) /\ Tail(args) # << >> /\ Len(args) # 1
      BY <2>4, RestCounts
    <3>2. Reached(Target(t, Tail(args)), Self(t), Tail(args))
      BY <2>2, <3>1, TargetReached
    <3> QED
      BY <1>1, <2>1, <2>2, <2>4, <3>1, <3>2, FurtherReached
  <2> QED
    BY <1>1, <2>3, <2>4
<1> QED
  BY <1>4, <1>5

-----------------------------------------------------------------------------
(***************************************************************************)
(* Load statements                                                         *)
(***************************************************************************)
LEMMA LoadArgReached ==
  ASSUME TypesKept, NEW l \in Nodes, Tree[l].tid = "Load_Stmt",
         NEW args \in Seq(Step), args # << >>
  PROVE  Reached(LoadArg(l, args), Facet(l, "args"), args)
<1> DEFINE p == Facet(l, "args")
           arg == IF args[1].kind = "str"
                  THEN FirstOf(WithText(LoadArgs(l), "STRING", args[1].s))
                  ELSE At(LoadArgs(l), KwIndex(args[1]))
<1>1. args[1] \in Step /\ p \in Proper /\ (Len(args) = 1 \/ Len(args) > 1)
  BY TailOfSteps, FacetIsProper
<1>2. /\ LoadArgs(l) \in Seq(Nodes) /\ KwIndex(args[1]) \in Int
      /\ \A k \in DOMAIN LoadArgs(l) : LoadArgs(l)[k] \in Nodes /\ Tree[LoadArgs(l)[k]].tid = "STRING"
  BY <1>1, ListsOfLoad, LoadArgTypes, KwIndexInt
<1>3. arg = 0 \/ \E k \in DOMAIN LoadArgs(l) : arg = LoadArgs(l)[k]
  BY <1>2, WithTextIs, AtIs
<1>4. arg # 0 => arg \in Nodes /\ Tree[arg].tid = "STRING"
  BY <1>2, <1>3
<1>5. IsIndex(args[1]) => args[1].kind # "str"
  BY DEF IsIndex
<1>6. CASE (args[1].kind # "str" /\ ~IsIndex(args[1])) \/ arg = 0
  <2>1. Select(p, args[1]) = {}
    BY <1>1, <1>5, <1>6, NothingInFacet
  <2> QED
    BY <1>1, <2>1, NoneReached
<1>7. CASE (args[1].kind = "str" \/ IsIndex(args[1])) /\ arg # 0
  <2>1. arg \in Nodes /\ Tree[arg].tid = "STRING" /\ Self(arg) \in Select(p, args[1])
    BY <1>1, <1>4, <1>5, <1>7, SelectsFromFacet
  <2>2. CASE Len(args) = 1
    <3>1. ~(IsKw(args[1]) /\ ~IsKwIndex(args[1]))
      BY <1>7 DEF IsKw, IsKwIndex, IsIndex
    <3>2. LoadArg(l, args) = Wrap(arg)
      BY <1>7, <2>2, <3>1 DEF LoadArg
    <3> QED
      BY <1>1, <2>1, <2>2, <3>2, FoundReached
  <2>3. CASE Len(args) > 1
    <3>1. Ends(p, args) = {}
      BY <1>1, <2>1, <2>3, BeyondLeaf
    <3> QED
      BY <3>1, NothingReached
  <2> QED
    BY <1>1, <2>2, <2>3
<1> QED
  BY <1>6, <1>7

\* A single step gives the binding of a load statement that it selects.
LEMMA LoadBindingReached ==
  ASSUME TypesKept, NEW l \in Nodes, Tree[l].tid = "Load_Stmt",
         NEW args \in Seq(Step), Len(args) = 1
  PROVE  Reached(LoadBinding(l, args), Facet(l, "bindings"), args)
<1> DEFINE p == Facet(l, "bindings")
           bs == LoadBindings(l)
           b == CASE IsIndex(args[1])     -> At(bs, KwIndex(args[1]))
                  [] args[1].kind = "sym" -> Keyed(bs, args[1].s)
                  [] OTHER                -> 0
<1>1. args[1] \in Step /\ p \in Proper /\ args # << >> /\ KwIndex(args[1]) \in Int
  BY OneStep, FacetIsProper, KwIndexInt
<1>2. /\ bs \in Seq(Nodes) /\ \A k \in DOMAIN bs : bs[k] \in Nodes
  BY <1>1, ListsOfLoad
<1>3. /\ b = 0 \/ \E k \in DOMAIN bs : b = bs[k]
      /\ b # 0 => Self(b) \in Select(p, args[1])
      /\ b = 0 => Select(p, args[1]) = {}
  <2>1. CASE IsIndex(args[1])
    <3>1. b = At(bs, KwIndex(args[1])) /\ args[1].kind # "sym"
      BY <2>1 DEF IsIndex
    <3> QED
      BY <1>1, <1>2, <2>1, <3>1, AtIs, SelectsFromFacet, NothingInFacet
  <2>2. CASE args[1].kind = "sym"
    <3>1. b = Keyed(bs, args[1].s) /\ ~IsIndex(args[1])
      BY <2>2 DEF IsIndex
    <3> QED
      BY <1>1, <1>2, <2>2, <3>1, KeyedIs, SelectsFromFacet, NothingInFacet
  <2>3. CASE ~IsIndex(args[1]) /\ args[1].kind # "sym"
    BY <1>1, <2>3, NothingInFacet
  <2> QED
    BY <2>1, <2>2, <2>3
<1>4. CASE b = 0
  BY <1>1, <1>3, <1>4, NoneReached
<1>5. CASE b # 0
  <2>1. LoadBinding(l, args) = Wrap(b)
    BY <1>5 DEF LoadBinding
  <2>2. b \in Nodes
    BY <1>2, <1>3, <1>5
  <2> QED
    BY <1>1, <1>3, <1>5, <2>1, <2>2, FoundReached
<1> QED
  BY <1>4, <1>5

LEMMA LoadReached ==
  ASSUME TypesKept, NEW l \in Nodes, Tree[l].tid = "Load_Stmt",
         NEW args \in Seq(Step), args # << >>,
         ~(Is(args[1], OneBinding) /\ Len(args) > 2)
  PROVE  Reached(Load(l, args), Self(l), args)
<1>1. /\ args[1] \in Step /\ Self(l) \in Proper /\ (Len(args) = 1 \/ Len(args) > 1)
      /\ Key(l) \in Nodes /\ \A as \in {"args", "bindings"} : Facet(l, as).as # "self"
  BY TailOfSteps, SelfIsProper, Grammar DEF Facet
<1>2. SelectSelf(l, args[1]) =
        IF Is(args[1], OneBinding) THEN As(l, "bindings")
        ELSE IF Is(args[1], {"arg"}) THEN As(l, "args")
        ELSE IF Is(args[1], {"key"}) THEN Found(Key(l)) ELSE {}
  BY DEF SelectSelf
<1>3. Len(args) > 1 =>
        /\ Tail(args) \in Seq(Step) /\ Tail(args) # << >> /\ Len(args) # 1
        /\ Len(args) = 2 => Len(Tail(args)) = 1
        /\ Len(args) # 2 => Len(args) > 2
  BY RestCounts
<1>4. CASE Is(args[1], {"arg"})
  <2>1. Facet(l, "args") \in Select(Self(l), args[1])
    BY <1>1, <1>4, SelectsFacet
  <2>2. CASE Len(args) = 1
    BY <1>1, <2>1, <2>2, FacetReached
  <2>3. CASE Len(args) > 1
    <3>1. Load(l, args) = LoadArg(l, Tail(args))
      BY <1>3, <1>4, <2>3 DEF Load, Is, OneBinding, AllBindings
    <3>2. Reached(LoadArg(l, Tail(args)), Facet(l, "args"), Tail(args))
      BY <1>3, <2>3, LoadArgReached
    <3> QED
      BY <1>1, <2>1, <2>3, <3>1, <3>2, FurtherReached
  <2> QED
    BY <1>1, <2>2, <2>3
<1>5. CASE Is(args[1], OneBinding)
  <2>1. Facet(l, "bindings") \in Select(Self(l), args[1])
    BY <1>1, <1>5, SelectsFacet
  <2>2. CASE Len(args) = 1
    BY <1>1, <2>1, <2>2, FacetReached
  <2>3. CASE Len(args) > 1
    <3>1. Load(l, args) = LoadBinding(l, Tail(args))
      BY <1>3, <1>5, <2>3 DEF Load, Is, OneBinding, AllBindings
    <3>2. Len(Tail(args)) = 1
      BY <1>3, <1>5, <2>3
    <3>3. Reached(LoadBinding(l, Tail(args)), Facet(l, "bindings"), Tail(args))
      BY <1>3, <2>3, <3>2, LoadBindingReached
    <3> QED
      BY <1>1, <2>1, <2>3, <3>1, <3>3, FurtherReached
  <2> QED
    BY <1>1, <2>2, <2>3
<1>6. CASE Is(args[1], {"key"})
  <2>1. Self(Key(l)) \in Select(Self(l), args[1]) /\ Tree[Key(l)].tid = "STRING"
    BY <1>1, <1>6, SelectsFacet, GrammarTypes
  <2>2. CASE Len(args) = 1
    <3>1. Load(l, args) = Wrap(Key(l))
      BY <1>6, <2>2 DEF Load, Is, OneBinding, AllBindings
    <3> QED
      BY <1>1, <2>1, <2>2, <3>1, FoundReached
  <2>3. CASE Len(args) > 1
    <3>1. Ends(Self(l), args) = {}
      BY <1>1, <2>1, <2>3, BeyondLeaf
    <3> QED
      BY <3>1, NothingReached
  <2> QED
    BY <1>1, <2>2, <2>3
<1>7. CASE ~Is(args[1], {"arg"}) /\ ~Is(args[1], OneBinding) /\ ~Is(args[1], {"key"})
  <2>1. Select(Self(l), args[1]) = {}
    BY <1>2, <1>7, SelfSelect
  <2> QED
    BY <1>1, <2>1, NoneReached
<1> QED
  BY <1>4, <1>5, <1>6, <1>7

LEMMA PkgLoadReached ==
  ASSUME TypesKept, NEW args \in Seq(Step), args # << >>,
         ~(Len(args) > 3 /\ Is(args[2], OneBinding))
  PROVE  Reached(PkgLoad(args), Facet(Root, "loads"), args)
<1> DEFINE p == Facet(Root, "loads")
           l == IF args = << >> THEN 0
                ELSE IF args[1].kind = "str" THEN Keyed(Loads, args[1].s)
                ELSE IF IsIndex(args[1]) THEN At(Loads, KwIndex(args[1])) ELSE 0
<1>1. PkgLoad(args) = IF l = 0 THEN Null ELSE IF Len(args) = 1 THEN Wrap(l) ELSE Load(l, Tail(args))
  BY DEF PkgLoad
<1>2. /\ p \in Proper /\ Root \in Nodes /\ args[1] \in Step /\ (Len(args) = 1 \/ Len(args) > 1)
      /\ KwIndex(args[1]) \in Int
  BY FacetIsProper, NodeFacts, TailOfSteps, KwIndexInt
<1>3. CASE l = 0
  <2>1. Select(p, args[1]) = {}
    BY <1>2, <1>3, NothingInFacet
  <2> QED
    BY <1>2, <2>1, NoneReached
<1>4. CASE l # 0
  <2>1. \E k \in DOMAIN Loads : l = Loads[k]
    BY <1>2, <1>4, ListsOfPackage, AtIs, KeyedIs
  <2>2. l \in Nodes /\ Tree[l].tid = "Load_Stmt" /\ Self(l) \in Select(p, args[1])
    BY <1>2, <1>4, <2>1, ListsOfPackage, SelectsFromFacet
  <2> HIDE DEF l
  <2>3. CASE Len(args) = 1
    BY <1>1, <1>2, <1>4, <2>2, <2>3, FoundReached
  <2>4. CASE Len(args) > 1
    <3>1. /\ Tail(args) \in Seq(Step) /\ Tail(args) # << >> /\ Len(args) # 1
          /\ Tail(args)[1] = args[2] /\ (Len(Tail(args)) > 2 => Len(args) > 3)
      <4>1. PICK c \in Int : c = Len(args)
        BY <2>4
      <4>2. Len(Tail(args)) = c - 1
        BY <2>4, <4>1, MoreSteps
      <4>3. c - 1 > 2 => c > 3
        BY <4>1
      <4> QED
        BY <2>4, <4>1, <4>2, <4>3, RestCounts
    <3>2. Reached(Load(l, Tail(args)), Self(l), Tail(args))
      BY <2>2, <3>1, LoadReached
    <3> QED
      BY <1>1, <1>2, <1>4, <2>2, <2>4, <3>1, <3>2, FurtherReached
  <2> QED
    BY <1>2, <2>3, <2>4
<1> QED
  BY <1>3, <1>4

-----------------------------------------------------------------------------
(***************************************************************************)
(* From the package                                                        *)
(***************************************************************************)
PartOfLoadBinding(args) == \E k \in 2 .. Len(args) - 1 : Is(args[k - 1], OneBinding) /\ Is(args[1], {"load"})

LEMMA PackageReached ==
  ASSUME TypesKept, NEW args \in Seq(Step), args # << >>, ~PartOfLoadBinding(args)
  PROVE  Reached(Package(args), Self(Root), args)
<1>1. /\ args[1] \in Step /\ Self(Root) \in Proper /\ Root \in Nodes
      /\ (Len(args) = 1 \/ Len(args) > 1) /\ Tree[Root].tid = "Package"
      /\ Facet(Root, "targets").as # "self" /\ Facet(Root, "loads").as # "self"
  BY TailOfSteps, SelfIsProper, NodeFacts, TreeAssumption DEF Facet
<1>2. SelectSelf(Root, args[1]) =
        IF Is(args[1], {">", "target"}) THEN As(Root, "targets")
        ELSE IF Is(args[1], {"load"}) THEN As(Root, "loads") ELSE {}
  BY <1>1 DEF SelectSelf
<1>3. Len(args) > 1 => Tail(args) \in Seq(Step) /\ Tail(args) # << >> /\ Tail(args)[1] = args[2] /\ Len(args) # 1
  BY RestCounts
<1>4. CASE Is(args[1], {">", "target"})
  <2>1. Facet(Root, "targets") \in Select(Self(Root), args[1])
    BY <1>1, <1>4, SelectsFacet
  <2>2. CASE Len(args) = 1
    BY <1>1, <2>1, <2>2, FacetReached
  <2>3. CASE Len(args) > 1
    <3>1. Package(args) = PkgTarget(Tail(args))
      BY <1>3, <1>4, <2>3 DEF Package, Is, IsKw
    <3>2. Reached(PkgTarget(Tail(args)), Facet(Root, "targets"), Tail(args))
      BY <1>3, <2>3, PkgTargetReached
    <3> QED
      BY <1>1, <2>1, <2>3, <3>1, <3>2, FurtherReached
  <2> QED
    BY <1>1, <2>2, <2>3
<1>5. CASE Is(args[1], {"load"})
  <2>1. Facet(Root, "loads") \in Select(Self(Root), args[1])
    BY <1>1, <1>5, SelectsFacet
  <2>2. CASE Len(args) = 1
    BY <1>1, <2>1, <2>2, FacetReached
  <2>3. CASE Len(args) > 1
    <3>1. Package(args) = OrError(PkgLoad(Tail(args)))
      BY <1>5 DEF Package, Is, IsKw
    <3>2. ~(Len(Tail(args)) > 3 /\ Is(Tail(args)[2], OneBinding))
      <4> SUFFICES ASSUME Len(Tail(args)) > 3, Is(Tail(args)[2], OneBinding) PROVE FALSE
        OBVIOUS
      <4>1. PICK c \in Int : c = Len(args)
        BY <2>3
      <4>2. c - 1 > 3
        BY <2>3, <4>1, MoreSteps
      <4>3. c > 2 /\ 4 \in 2 .. c - 1 /\ 4 - 1 = 3
        BY <4>2
      <4>4. Tail(args)[2] = args[3]
        BY <4>1, <4>3, ManySteps
      <4> QED
        BY <1>5, <4>1, <4>3, <4>4 DEF PartOfLoadBinding
    <3>3. Reached(PkgLoad(Tail(args)), Facet(Root, "loads"), Tail(args))
      BY <1>3, <2>3, <3>2, PkgLoadReached
    <3>4. Reached(PkgLoad(Tail(args)), Self(Root), args)
      BY <1>1, <2>1, <2>3, <3>3, FurtherReached
    <3> QED
      BY <3>1, <3>4, OrErrorReached
  <2> QED
    BY <1>1, <2>2, <2>3
<1>6. CASE ~Is(args[1], {">", "target"}) /\ ~Is(args[1], {"load"})
  <2>1. Select(Self(Root), args[1]) = {}
    BY <1>2, <1>6, SelfSelect
  <2> QED
    BY <1>1, <2>1, NoneReached
<1> QED
  BY <1>4, <1>5, <1>6

\* No read makes anything else of the package.
LEMMA RootIsPackage ==
  ASSUME TypesKept
  PROVE  tid[Root] = "Package"
<1> SUFFICES ASSUME tid[Root] # "Package" PROVE FALSE
  OBVIOUS
<1>1. Root \in Nodes /\ Tree[Root].tid = "Package"
  BY NodeFacts, TreeAssumption
<1>2. PICK e \in Nodes : Tree[e].tid = "Dict_Entry" /\ Root = Val(e)
  BY <1>1 DEF TypesKept, EntryValues
<1>3. Tree[Root].tid \in Exprs
  BY <1>2, GrammarTypes
<1> QED
  BY <1>1, <1>3 DEF Exprs

LEMMA RootReached ==
  ASSUME TypesKept, NEW steps \in Seq(Step), Len(steps) > 0, ~Unsupported(steps),
         ~Deeper(Self(Root), steps), NEW r \in Dispatch(Root, steps)
  PROVE  Exact(r, Self(Root), steps)
<1>1. steps # << >>
  BY EmptySeq
<1>2. ~Is(Last(steps), {"$"}) /\ ~PartOfLoadBinding(steps) /\ ~Odd(Self(Root), steps)
  BY DEF Unsupported, PartOfLoadBinding, Odd, Off, IntAfterValue, PastAll, PartByPosition
<1>3. r \in Package(steps)
  BY <1>1, <1>2, RootIsPackage DEF Dispatch, ByType
<1>4. Reached(Package(steps), Self(Root), steps)
  BY <1>1, <1>2, PackageReached
<1> QED
  BY <1>2, <1>3, <1>4 DEF Reached

\* A call, its steps, and the node it gives.
LEMMA CallReaches ==
  ASSUME IInv, Apply, Origin = Root, ~Unsupported(Chunk), ~Deeper(Self(Root), Chunk)
  PROVE  Exact(cur', Self(Root), Chunk)
<1>1. PICK taken \in done + 1 .. Len(path) :
        \E r \in Dispatch(Origin, SubSeq(path, done + 1, taken)) : Becomes(r, taken)
  BY DEF Apply, Origin
<1>2. PICK r \in Dispatch(Origin, SubSeq(path, done + 1, taken)) : Becomes(r, taken)
  BY <1>1
<1>3. Chunk = SubSeq(path, done + 1, taken) /\ cur' = r
  BY <1>2 DEF Becomes, Chunk
<1>4. Chunk \in Seq(Step) /\ Len(Chunk) > 0
  BY <1>3, StepsOfPath
<1> QED
  BY <1>2, <1>3, <1>4, RootReached DEF IInv

LEMMA GoesDeeperIs ==
  ASSUME TypesKept, NEW n \in Nodes, NEW steps \in Seq(Step), ~GoesDeeper(n, steps)
  PROVE  ~Deeper(Self(n), steps)
  BY DeeperIs

\* Whatever the package, a path from it to a node, asked in one call, gives
\* that node, unless it is one that sunlark_dispatch and the dispatchers it
\* calls have no case for.
THEOREM PathsReachNodes == Spec => ReachesNode
<1> DEFINE A == IsCall /\ Origin = Root =>
                  \/ \A place \in Meaning(Root, Chunk) :
                       place.as = "self" => cur'.is = "node" /\ cur'.of = <<place.node>>
                  \/ Unsupported(Chunk)
                  \/ GoesDeeper(Root, Chunk)
<1>1. IInv /\ [Next]_vars => [A]_vars
  <2> SUFFICES ASSUME IInv, Next, IsCall, Origin = Root, ~Unsupported(Chunk), ~GoesDeeper(Root, Chunk)
               PROVE  \A place \in Meaning(Root, Chunk) :
                        place.as = "self" => cur'.is = "node" /\ cur'.of = <<place.node>>
    OBVIOUS
  <2>1. Apply /\ Root \in Nodes /\ Chunk \in Seq(Step)
    BY CallIsApply, CallExplained
  <2>2. TypesKept
    BY DEF IInv
  <2>3. ~Deeper(Self(Root), Chunk)
    BY <2>1, <2>2, GoesDeeperIs
  <2>4. Exact(cur', Self(Root), Chunk)
    BY <2>1, <2>3, CallReaches
  <2>5. Meaning(Root, Chunk) = Ends(Self(Root), Chunk)
    BY <2>1, <2>2, MeaningIsAfter DEF Ends
  <2> QED
    BY <2>4, <2>5 DEF Exact
<1> QED
  BY <1>1, Invariant, PTL DEF Spec, ReachesNode

-----------------------------------------------------------------------------
(***************************************************************************)
(* Entries in certain places                                               *)
(***************************************************************************)
\* They are all of them, in their order.
LEMMA SelectedIs ==
  ASSUME NEW X, NEW s \in Seq(X), NEW S \in SUBSET DOMAIN s
  PROVE  /\ Selected(s, S) \in Seq(X) /\ Len(Selected(s, S)) = Cardinality(S)
         /\ DOMAIN Selected(s, S) = 1 .. Cardinality(S) /\ Cardinality(S) \in Nat
         /\ Range(Selected(s, S)) = {s[p] : p \in S}
         /\ \A k \in 1 .. Cardinality(S) : NthPlace(S, k) \in S /\ Selected(s, S)[k] = s[NthPlace(S, k)]
         /\ \A j, k \in 1 .. Cardinality(S) : j < k => NthPlace(S, j) < NthPlace(S, k)
<1>1. PICK n \in Nat : n = Len(s) /\ S \in SUBSET (1 .. n)
  OBVIOUS
<1>2. /\ Selected(s, S) \in Seq(X) /\ Len(Selected(s, S)) = Cardinality(S) /\ Cardinality(S) \in Nat
      /\ \A k \in 1 .. Cardinality(S) :
           NthPlace(S, k) \in S /\ Selected(s, S)[k] = s[NthPlace(S, k)]
  BY <1>1, SelectedType
<1>3. DOMAIN Selected(s, S) = 1 .. Cardinality(S)
  BY <1>2
<1>4. \A p \in S : \E k \in 1 .. Cardinality(S) : NthPlace(S, k) = p
  BY <1>1, NthPlaceOf
<1>5. Range(Selected(s, S)) = {s[p] : p \in S}
  <2>1. Range(Selected(s, S)) = {Selected(s, S)[k] : k \in 1 .. Cardinality(S)}
    BY <1>3 DEF Range
  <2> QED
    BY <1>2, <1>4, <2>1
<1>6. ASSUME NEW j \in 1 .. Cardinality(S), NEW k \in 1 .. Cardinality(S), j < k
      PROVE  NthPlace(S, j) < NthPlace(S, k)
  <2>1. /\ NthPlace(S, j) \in Nat /\ NthPlace(S, k) \in Nat
        /\ CountTo(S, NthPlace(S, j)) = j /\ CountTo(S, NthPlace(S, k)) = k
    <3>1. \A i \in 1 .. Cardinality(S) : NthPlace(S, i) \in S /\ CountTo(S, NthPlace(S, i)) = i
      BY <1>1, NthPlaceIs
    <3> QED
      BY <1>1, <3>1
  <2>2. ASSUME NthPlace(S, k) < NthPlace(S, j) PROVE CountTo(S, NthPlace(S, k)) <= CountTo(S, NthPlace(S, j))
    BY <1>1, <2>1, <2>2, CountingIsMonotonic
  <2>3. NthPlace(S, j) # NthPlace(S, k)
    BY <1>6, <2>1
  <2> QED
    BY <1>6, <2>1, <2>2, <2>3
<1> QED
  BY <1>2, <1>3, <1>5, <1>6

\* The first of them, if there is one.
LEMMA FirstSelected ==
  ASSUME NEW X, NEW s \in Seq(X), NEW S \in SUBSET DOMAIN s
  PROVE  IF S = {} THEN FirstOf(Selected(s, S)) = 0
                   ELSE \E p \in S : FirstOf(Selected(s, S)) = s[p]
<1>1. PICK t : t = Selected(s, S)
  OBVIOUS
<1>2. t \in Seq(X) /\ Range(t) = {s[p] : p \in S}
  BY <1>1, SelectedIs
<1>3. CASE S = {}
  <2>1. t = << >>
    BY <1>1, <1>3, SelectedNone
  <2> QED
    BY <1>1, <1>3, <2>1 DEF FirstOf
<1>4. CASE S # {}
  <2>1. t # << >>
    <3>1. PICK p \in S : TRUE
      BY <1>4
    <3>2. s[p] \in Range(t)
      BY <1>2
    <3>3. \E k \in DOMAIN t : t[k] = s[p]
      BY <3>2 DEF Range
    <3> QED
      BY <3>3
  <2>2. t[1] \in Range(t)
    <3>1. 1 \in DOMAIN t
      BY <1>2, <2>1
    <3> QED
      BY <3>1 DEF Range
  <2> QED
    BY <1>1, <1>2, <1>4, <2>1, <2>2 DEF FirstOf
<1> QED
  BY <1>3, <1>4

\* The target of a name is the first of that name.
LEMMA TargetNamedIs ==
  ASSUME TypesKept, NEW name
  PROVE  IF \E t \in Range(Targets) : Str(NameOf(t)) = name
         THEN TargetNamed(name) # 0 /\ Str(NameOf(TargetNamed(name))) = name
         ELSE TargetNamed(name) = 0
<1>1. /\ Targets \in Seq(Nodes) /\ 0 \notin Nodes
      /\ \A p \in DOMAIN Targets : Targets[p] \in Nodes
  <2>1. 0 \notin Nodes
    BY NodeFacts
  <2> QED
    BY <2>1, ListsOfPackage
<1>2. PICK S \in SUBSET DOMAIN Targets : S = {k \in DOMAIN Targets : Str(NameOf(Targets[k])) = name}
  OBVIOUS
<1>3. TargetNamed(name) = FirstOf(Selected(Targets, S))
  BY <1>2 DEF TargetNamed
<1>4. IF S = {} THEN TargetNamed(name) = 0
                ELSE \E p \in S : TargetNamed(name) = Targets[p]
  BY <1>1, <1>3, FirstSelected
<1>5. S = {} <=> ~ \E t \in Range(Targets) : Str(NameOf(t)) = name
  BY <1>2 DEF Range
<1> QED
  BY <1>1, <1>2, <1>4, <1>5

-----------------------------------------------------------------------------
(***************************************************************************)
(* What filters and bulk lookups are compared with                         *)
(***************************************************************************)
\* A position among the parts of a node fits an int.
LEMMA FittingInt ==
  ASSUME NEW i \in IntMin .. -IntMin - 1
  PROVE  CInt(i) = i
<1> DEFINE d == i - IntMin
           w == -2 * IntMin
<1>1. d \in 0 .. w - 1 /\ w \in Nat /\ d \in Nat
  BY IntMinAssumption
<1>2. d % w = d
  <2> HIDE DEF d, w
  <2> QED
    BY <1>1
<1> QED
  BY <1>2, IntMinAssumption DEF CInt, d, w

LEMMA TargetsFitInt ==
  ASSUME TypesKept
  PROVE  Len(Targets) \in Nat /\ Len(Targets) <= -IntMin
<1>1. /\ Root \in Nodes /\ Kids(Root) \in Seq(Nodes) /\ Len(Kids(Root)) <= -IntMin
  BY NodeFacts, TreeAssumption DEF Kids
<1>2. ASSUME NEW s \in Seq(Nodes), NEW S \in SUBSET DOMAIN s
      PROVE  Len(Selected(s, S)) \in Nat /\ Len(Selected(s, S)) <= Len(s)
  <2>1. Len(Selected(s, S)) = Cardinality(S) /\ S \in SUBSET (1 .. Len(s)) /\ Len(s) \in Nat
    BY SelectedIs
  <2>2. IsFiniteSet(1 .. Len(s)) /\ Cardinality(1 .. Len(s)) = Len(s)
    <3>1. PICK n \in Nat : n = Len(s)
      BY <2>1
    <3>2. 1 \in Int /\ n \in Int
      OBVIOUS
    <3>3. IsFiniteSet(1 .. n) /\ Cardinality(1 .. n) = n
      BY <3>2, FS_Interval
    <3> QED
      BY <3>1, <3>3
  <2>3. Cardinality(S) \in Nat /\ Cardinality(S) <= Cardinality(1 .. Len(s))
    BY <2>1, <2>2, FS_Subset, FS_CardinalityType
  <2> QED
    BY <2>1, <2>2, <2>3
<1>3. Calls \in Seq(Nodes) /\ Targets \in Seq(Nodes)
  BY ListsOfPackage
<1>4. Len(Calls) \in Nat /\ Len(Calls) <= Len(Kids(Root))
  <2>1. PICK S \in SUBSET DOMAIN Kids(Root) : Calls = Selected(Kids(Root), S)
    BY DEF Calls, OfType
  <2> QED
    BY <1>1, <1>2, <2>1
<1>5. Len(Targets) <= Len(Calls)
  <2>1. PICK S \in SUBSET DOMAIN Calls : Targets = Selected(Calls, S)
    BY DEF Targets
  <2> QED
    BY <1>2, <1>3, <2>1
<1>6. Len(Targets) \in Nat /\ Len(Kids(Root)) \in Nat
  BY <1>1, <1>3
<1> QED
  BY <1>1, <1>4, <1>5, <1>6, IntMinAssumption

\* The integer i - 1 selects entry i.
LEMMA TargetAt ==
  ASSUME TypesKept, NEW n \in Int, n + 1 \in DOMAIN Targets
  PROVE  CInt(n) = n /\ At(Targets, CInt(n)) = Targets[n + 1]
<1>1. Len(Targets) \in Nat /\ Len(Targets) <= -IntMin /\ n + 1 \in 1 .. Len(Targets)
  BY TargetsFitInt, ListsOfPackage
<1>2. n \in IntMin .. -IntMin - 1 /\ n >= 0
  BY <1>1, IntMinAssumption
<1>3. CInt(n) = n
  BY <1>2, FittingInt
<1>4. Normalize(Len(Targets), n) = n
  BY <1>2 DEF Normalize
<1> QED
  BY <1>3, <1>4 DEF At

\* A keyword of the properties is a step.
LEMMA KwIsStep == Kw(">") \in Step /\ Kw("@") \in Step
  BY FiltersAssumption DEF Kw, StepOf, Step, StepKinds

\* Where the steps of a lookup lead, one after the other.
LEMMA AfterFound ==
  ASSUME TypesKept, NEW p, NEW steps \in Seq(Step)
  PROVE  \A j \in Nat : j + 1 \in 1 .. Len(steps) =>
           /\ \A q : After(p, steps, j) = {q} => After(p, steps, j + 1) = Select(q, steps[j + 1])
           /\ After(p, steps, j) = {} => After(p, steps, j + 1) = {}
<1> SUFFICES ASSUME NEW j \in Nat, j + 1 \in 1 .. Len(steps)
             PROVE  /\ \A q : After(p, steps, j) = {q} => After(p, steps, j + 1) = Select(q, steps[j + 1])
                    /\ After(p, steps, j) = {} => After(p, steps, j + 1) = {}
  OBVIOUS
<1> DEFINE F(o) == Select(o, steps[j + 1])
<1>1. After(p, steps, j + 1) = UNION {F(o) : o \in After(p, steps, j)}
  BY AfterNext
<1> HIDE DEF F
<1>2. \A q : UNION {F(o) : o \in {q}} = F(q)
  OBVIOUS
<1>3. UNION {F(o) : o \in {}} = {}
  OBVIOUS
<1>4. \A q : After(p, steps, j) = {q} => After(p, steps, j + 1) = F(q)
  BY <1>1, <1>2
<1>5. After(p, steps, j) = {} => After(p, steps, j + 1) = {}
  BY <1>1, <1>3
<1> QED
  BY <1>4, <1>5 DEF F

\* Step k goes on from where step j led.
GoesFrom(p, steps, j, k) ==
  /\ \A q : After(p, steps, j) = {q} => After(p, steps, k) = Select(q, steps[k])
  /\ After(p, steps, j) = {} => After(p, steps, k) = {}

LEMMA AfterFive ==
  ASSUME TypesKept, NEW p \in Proper, NEW steps \in Seq(Step)
  PROVE  /\ After(p, steps, 0) = {p}
         /\ Len(steps) >= 2 => GoesFrom(p, steps, 0, 1) /\ GoesFrom(p, steps, 1, 2)
         /\ Len(steps) >= 5 => /\ GoesFrom(p, steps, 2, 3) /\ GoesFrom(p, steps, 3, 4)
                               /\ GoesFrom(p, steps, 4, 5)
<1>1. After(p, steps, 0) = {p}
  BY AfterNone
<1>2. \A j \in Nat : j + 1 <= Len(steps) => GoesFrom(p, steps, j, j + 1)
  <2>1. \A j \in Nat : j + 1 <= Len(steps) => j + 1 \in 1 .. Len(steps)
    OBVIOUS
  <2> QED
    BY <2>1, AfterFound DEF GoesFrom
<1>3. ASSUME NEW j \in Nat, NEW k \in Nat, k = j + 1, k <= Len(steps) PROVE GoesFrom(p, steps, j, k)
  BY <1>2, <1>3
<1> QED
  BY <1>1, <1>3

LEMMA RootTargets ==
  ASSUME TypesKept
  PROVE  Select(Self(Root), Kw(">")) = {Facet(Root, "targets")}
<1>1. Tree[Root].tid = "Package"
  BY NodeFacts, TreeAssumption
<1> QED
  BY <1>1 DEF Select, Self, SelectSelf, Is, Kw, StepOf, As, Facet

LEMMA AfterTargetIs ==
  ASSUME TypesKept, NEW c \in Step
  PROVE  AfterTarget(c) = NodesOf(Select(Facet(Root, "targets"), c))
<1> DEFINE steps == <<Kw(">"), c>>
<1>1. steps \in Seq(Step) /\ Len(steps) = 2 /\ steps[1] = Kw(">") /\ steps[2] = c
  BY KwIsStep
<1>2. Root \in Nodes /\ Self(Root) \in Proper
  BY NodeFacts, SelfIsProper
<1> HIDE DEF steps
<1>3. /\ After(Self(Root), steps, 0) = {Self(Root)}
      /\ GoesFrom(Self(Root), steps, 0, 1) /\ GoesFrom(Self(Root), steps, 1, 2)
  <2>1. Len(steps) >= 2
    BY <1>1
  <2> QED
    BY <1>1, <1>2, <2>1, AfterFive
<1>4. After(Self(Root), steps, 1) = {Facet(Root, "targets")}
  BY <1>1, <1>3, RootTargets DEF GoesFrom
<1>5. After(Self(Root), steps, 2) = Select(Facet(Root, "targets"), c)
  BY <1>1, <1>3, <1>4 DEF GoesFrom
<1>6. Meaning(Root, steps) = After(Self(Root), steps, 2)
  BY <1>1, <1>2, MeaningIsAfter
<1> QED
  BY <1>5, <1>6 DEF AfterTarget, steps

\* What (pkg :> criterion) gives for a name, and for a position.
LEMMA AfterTargetOf ==
  ASSUME TypesKept, NEW c \in Step
  PROVE  /\ c.kind = "str" => AfterTarget(c) = IF TargetNamed(c.s) = 0 THEN {} ELSE {TargetNamed(c.s)}
         /\ c.kind = "int" =>
              AfterTarget(c) = IF At(Targets, CInt(c.n)) = 0 THEN {} ELSE {At(Targets, CInt(c.n))}
<1>1. AfterTarget(c) = NodesOf(Select(Facet(Root, "targets"), c))
  BY AfterTargetIs
<1>2. \A n : NodesOf(Found(n)) = IF n = 0 THEN {} ELSE {n}
  <2>1. NodesOf({}) = {} /\ \A n : NodesOf({Self(n)}) = {Self(n).node} /\ Self(n).node = n
    BY DEF NodesOf, Self
  <2> QED
    BY <2>1 DEF Found
<1>3. Select(Facet(Root, "targets"), c) =
        ByIndex(Targets, c) \cup IF c.kind = "str" THEN Found(TargetNamed(c.s)) ELSE {}
  BY DEF Select, Facet
<1>4. ASSUME c.kind = "str"
      PROVE  AfterTarget(c) = IF TargetNamed(c.s) = 0 THEN {} ELSE {TargetNamed(c.s)}
  <2>1. ByIndex(Targets, c) = {}
    BY <1>4 DEF ByIndex, IsIndex
  <2>2. Select(Facet(Root, "targets"), c) = Found(TargetNamed(c.s))
    BY <1>3, <1>4, <2>1
  <2> QED
    BY <1>1, <1>2, <2>2
<1>5. ASSUME c.kind = "int"
      PROVE  AfterTarget(c) = IF At(Targets, CInt(c.n)) = 0 THEN {} ELSE {At(Targets, CInt(c.n))}
  <2>1. ByIndex(Targets, c) = Found(At(Targets, CInt(c.n)))
    BY <1>5 DEF ByIndex, IsIndex, KwIndex
  <2>2. Select(Facet(Root, "targets"), c) = Found(At(Targets, CInt(c.n)))
    BY <1>3, <1>5, <2>1
  <2> QED
    BY <1>1, <1>2, <2>2
<1> QED
  BY <1>4, <1>5

-----------------------------------------------------------------------------
(***************************************************************************)
(* Filters                                                                 *)
(***************************************************************************)
\* The target t meets one criterion.
Meets(t, c) ==
  \/ c.kind = "sym" /\ Str(Rule(t)) \in Kind[c.s]
  \/ c.kind = "str" /\ Str(NameOf(t)) = c.s
  \/ c.kind = "int" /\ c.n + 1 \in DOMAIN Targets /\ Targets[c.n + 1] = t

LEMMA ChosenIs ==
  ASSUME TypesKept, NEW c \in Step
  PROVE  Chosen(c) = {t \in Range(Targets) : Meets(t, c)}
<1>1. c.n \in Int
  BY DEF Step
<1>2. CASE c.kind = "sym"
  BY <1>2 DEF Chosen, Meets
<1>3. CASE c.kind = "str"
  <2>1. Chosen(c) = {t \in Range(Targets) : \E u \in AfterTarget(c) : Str(NameOf(t)) = Str(NameOf(u))}
    BY <1>3 DEF Chosen
  <2>2. ASSUME NEW t \in Range(Targets)
        PROVE  Meets(t, c) <=> \E u \in AfterTarget(c) : Str(NameOf(t)) = Str(NameOf(u))
    <3>1. Meets(t, c) <=> Str(NameOf(t)) = c.s
      BY <1>3 DEF Meets
    <3>2. AfterTarget(c) = IF TargetNamed(c.s) = 0 THEN {} ELSE {TargetNamed(c.s)}
      BY <1>3, AfterTargetOf
    <3>3. IF \E v \in Range(Targets) : Str(NameOf(v)) = c.s
          THEN TargetNamed(c.s) # 0 /\ Str(NameOf(TargetNamed(c.s))) = c.s
          ELSE TargetNamed(c.s) = 0
      BY TargetNamedIs
    <3> QED
      BY <3>1, <3>2, <3>3
  <2> QED
    BY <2>1, <2>2
<1>4. CASE c.kind = "int"
  <2>1. Len(Targets) \in Nat /\ Len(Targets) <= -IntMin /\ DOMAIN Targets = 1 .. Len(Targets)
    BY TargetsFitInt, ListsOfPackage
  <2>2. AfterTarget(c) = IF At(Targets, CInt(c.n)) = 0 THEN {} ELSE {At(Targets, CInt(c.n))}
    BY <1>4, AfterTargetOf
  <2>3. Chosen(c) = IF c.n >= 0 /\ FitsInt(c) THEN AfterTarget(c) ELSE {}
    BY <1>4 DEF Chosen
  <2>4. \A t : Meets(t, c) <=> c.n + 1 \in DOMAIN Targets /\ Targets[c.n + 1] = t
    BY <1>4 DEF Meets
  <2>5. CASE c.n + 1 \in DOMAIN Targets
    <3>1. c.n >= 0 /\ FitsInt(c)
      BY <1>1, <1>4, <2>1, <2>5, IntMinAssumption DEF FitsInt
    <3>2. At(Targets, CInt(c.n)) = Targets[c.n + 1]
      BY <1>1, <2>5, TargetAt
    <3>3. Targets[c.n + 1] \in Range(Targets) /\ Targets[c.n + 1] # 0
      <4>1. Targets[c.n + 1] \in Nodes
        BY <2>5, ListsOfPackage
      <4> QED
        BY <2>5, <4>1, NodeFacts DEF Range
    <3> QED
      BY <2>2, <2>3, <2>4, <2>5, <3>1, <3>2, <3>3
  <2>6. CASE c.n + 1 \notin DOMAIN Targets
    <3>1. \A t : ~Meets(t, c)
      BY <2>4, <2>6
    <3>2. ASSUME c.n >= 0, FitsInt(c) PROVE AfterTarget(c) = {}
      <4>1. c.n >= Len(Targets) /\ CInt(c.n) = c.n
        BY <1>1, <1>4, <2>1, <2>6, <3>2, FittingInt, IntMinAssumption DEF FitsInt
      <4>2. At(Targets, c.n) = 0
        BY <1>1, <2>1, <2>6, <3>2, <4>1 DEF At, Normalize
      <4> QED
        BY <2>2, <4>1, <4>2
    <3> QED
      BY <2>3, <3>1, <3>2
  <2> QED
    BY <2>5, <2>6
<1>5. CASE c.kind \notin {"sym", "str", "int"}
  BY <1>5 DEF Chosen, Meets
<1> QED
  BY <1>2, <1>3, <1>4, <1>5

\* A filter gives the targets that meet one of its criteria, in their order.
LEMMA FilteredChosen ==
  ASSUME TypesKept, NEW filter \in Seq(Step)
  PROVE  /\ Filtered(filter) \in Seq(Nodes)
         /\ Range(Filtered(filter)) = UNION {Chosen(c) : c \in Range(filter)}
         /\ InPackageOrder(Filtered(filter))
<1>1. Targets \in Seq(Nodes)
  BY ListsOfPackage
<1>2. PICK S \in SUBSET DOMAIN Targets : S = {k \in DOMAIN Targets : Satisfies(Targets[k], filter)}
  OBVIOUS
<1>3. PICK found : found = Filtered(filter)
  OBVIOUS
<1>4. found = Selected(Targets, S)
  BY <1>2, <1>3 DEF Filtered
<1>5. /\ found \in Seq(Nodes) /\ Range(found) = {Targets[p] : p \in S}
      /\ DOMAIN found = 1 .. Cardinality(S)
      /\ \A k \in 1 .. Cardinality(S) : NthPlace(S, k) \in S /\ found[k] = Targets[NthPlace(S, k)]
      /\ \A j, k \in 1 .. Cardinality(S) : j < k => NthPlace(S, j) < NthPlace(S, k)
  <2>1. /\ Selected(Targets, S) \in Seq(Nodes)
        /\ Range(Selected(Targets, S)) = {Targets[p] : p \in S}
        /\ DOMAIN Selected(Targets, S) = 1 .. Cardinality(S)
        /\ \A k \in 1 .. Cardinality(S) :
             NthPlace(S, k) \in S /\ Selected(Targets, S)[k] = Targets[NthPlace(S, k)]
        /\ \A j, k \in 1 .. Cardinality(S) : j < k => NthPlace(S, j) < NthPlace(S, k)
    BY <1>1, SelectedIs
  <2> QED
    BY <1>4, <2>1
<1>6. \A t : Satisfies(t, filter) <=> \E c \in Range(filter) : Meets(t, c)
  <2>1. ASSUME NEW t
        PROVE  Satisfies(t, filter) <=> \E k \in DOMAIN filter : Meets(t, filter[k])
    BY DEF Satisfies, Meets
  <2>2. \A t : (\E k \in DOMAIN filter : Meets(t, filter[k])) <=> \E c \in Range(filter) : Meets(t, c)
    BY DEF Range
  <2> QED
    BY <2>1, <2>2
<1>7. Range(filter) \subseteq Step
  BY DEF Range
<1>8. UNION {Chosen(c) : c \in Range(filter)} = {t \in Range(Targets) : \E c \in Range(filter) : Meets(t, c)}
  <2>1. \A c \in Range(filter) : Chosen(c) = {t \in Range(Targets) : Meets(t, c)}
    BY <1>7, ChosenIs
  <2> QED
    BY <2>1
<1>9. {Targets[p] : p \in S} = {t \in Range(Targets) : Satisfies(t, filter)}
  BY <1>2 DEF Range
<1>10. Range(found) = UNION {Chosen(c) : c \in Range(filter)}
  BY <1>5, <1>6, <1>8, <1>9
<1>11. InPackageOrder(found)
  <2> SUFFICES ASSUME NEW j \in DOMAIN found, NEW k \in DOMAIN found, j < k
               PROVE  \E x, y \in DOMAIN Targets : x < y /\ Targets[x] = found[j] /\ Targets[y] = found[k]
    BY DEF InPackageOrder
  <2>1. j \in 1 .. Cardinality(S) /\ k \in 1 .. Cardinality(S)
    BY <1>5
  <2>2. NthPlace(S, j) \in DOMAIN Targets /\ NthPlace(S, k) \in DOMAIN Targets
    BY <1>5, <2>1
  <2> QED
    BY <1>5, <2>1, <2>2
<1> QED
  BY <1>3, <1>5, <1>10, <1>11

\* A position after a filter selects one of what it found.
LEMMA FilteredAtFound ==
  ASSUME NEW found \in Seq(Nodes), NEW st \in Step, NEW r \in FilteredAt(found, st)
  PROVE  /\ r.is # "copies"
         /\ r.is = "copy" => \E k \in DOMAIN found : r.of = <<found[k]>>
<1>1. PICK i \in Int : i = KwIndex(st)
  BY KwIndexInt
<1>2. PICK c \in Nat : c = Len(found)
  OBVIOUS
<1>3. IntMin \in Int /\ IntMin < -1
  BY IntMinAssumption
<1>4. \A x \in Null \cup Error \cup {Bare("wrapped_NULL")} : x.is \notin {"copies", "copy"}
  BY DEF Null, Error, Bare, R
<1>5. CASE IsIndex(st) /\ i < 0 /\ CAbs(i) > c
  <2>1. ~(i >= c) /\ i # IntMin
    BY <1>3, <1>5 DEF CAbs
  <2>2. FilteredAt(found, st) = Null
    BY <1>1, <1>2, <1>5, <2>1 DEF FilteredAt
  <2> QED
    BY <1>4, <2>2
<1>6. CASE IsIndex(st) /\ i >= c
  <2>1. ~(i < 0) /\ i # IntMin
    BY <1>3, <1>6
  <2>2. FilteredAt(found, st) = Error
    BY <1>1, <1>2, <1>6, <2>1 DEF FilteredAt
  <2> QED
    BY <1>4, <2>2
<1>7. CASE ~IsIndex(st) \/ i = IntMin
  <2>1. ~(IsIndex(st) /\ i < 0 /\ CAbs(i) > c) /\ ~(IsIndex(st) /\ i >= c)
    BY <1>3, <1>7 DEF CAbs
  <2>2. FilteredAt(found, st) = {Bare("wrapped_NULL")}
    BY <1>1, <1>2, <1>7, <2>1 DEF FilteredAt
  <2> QED
    BY <1>4, <2>2
<1>8. CASE ~(~IsIndex(st) \/ i = IntMin) /\ ~(i < 0 /\ CAbs(i) > c) /\ ~(i >= c)
  <2>1. FilteredAt(found, st) = {R("copy", <<At(found, i)>>)}
    BY <1>1, <1>2, <1>8 DEF FilteredAt
  <2>2. Normalize(c, i) + 1 \in 1 .. c
    BY <1>8 DEF Normalize, CAbs
  <2>3. At(found, i) = found[Normalize(c, i) + 1] /\ Normalize(c, i) + 1 \in DOMAIN found
    BY <1>2, <2>2 DEF At
  <2> QED
    BY <2>1, <2>3 DEF R
<1> QED
  BY <1>5, <1>6, <1>7, <1>8

-----------------------------------------------------------------------------
(***************************************************************************)
(* A call that is asked for all targets                                    *)
(***************************************************************************)
Bulk == {"copies", "copy"}

\* None of the results is a list of copies, or a copy.
NoBulk(results) == \A r \in results : r.is \notin Bulk

LEMMA FewBulk ==
  /\ NoBulk(Error) /\ NoBulk(Died) /\ NoBulk(Null) /\ NoBulk(Undefined)
  /\ \A n : NoBulk(Property(n)) /\ NoBulk(Wrap(n)) /\ NoBulk({R("value", <<n>>)})
  BY DEF NoBulk, Bulk, Error, Died, Null, Undefined, Property, Wrap, Bare, R

LEMMA NodeToSchemeNoBulk == ASSUME NEW n PROVE NoBulk(NodeToScheme(n))
  BY FewBulk DEF NodeToScheme

LEMMA ToSchemeNoBulk == ASSUME NEW r \in Outcomes PROVE NoBulk(ToScheme({r}))
<1>1. r \in Result
  BY DEF Outcomes
<1> DEFINE plain == CASE r.is \in {"node", "copy"}          -> NodeToScheme(r.of[1])
                      [] r.is \in {"error", "died"}         -> {r}
                      [] r.is \in {"NULL", "wrapped_NULL"}  -> Died
                      [] OTHER                              -> Undefined
<1>2. ToScheme({r}) = Retype(r.retyped, plain)
  BY DEF ToScheme
<1>3. NoBulk({x \in {r} : r.is \in {"error", "died"}})
  BY DEF NoBulk, Bulk
<1>4. NoBulk(plain)
  BY <1>3, FewBulk, NodeToSchemeNoBulk
<1>5. \A x \in plain : [x EXCEPT !.retyped = r.retyped].is = x.is
  BY <1>1 DEF Result
<1> QED
  BY <1>2, <1>4, <1>5 DEF Retype, NoBulk

\* Only the package knows :>>.
LEMMA OnlyPackageBulk ==
  ASSUME TypesKept, NEW n \in Nodes, NEW args \in Seq(Step), args # << >>, Is(args[1], {">>"})
  PROVE  IF tid[n] = "Package" THEN ByType(n, args) = ForAllTargets(Tail(args))
                               ELSE NoBulk(ByType(n, args))
<1>1. /\ args[1].kind = "kw" /\ args[1].s = ">>" /\ IsKw(args[1]) /\ ~IsKwIndex(args[1])
      /\ ~IsIndex(args[1]) /\ ~IsPredicate(args[1])
  BY DEF Is, IsKw, IsKwIndex, IsIndex, IsPredicate, Predicates
<1>2. n # 0
  BY NodeFacts
<1>3. \A m : NoBulk(CommonProperty(m, args[1]))
  BY <1>1, FewBulk DEF CommonProperty, Is, CommonProps, Predicates
<1>4. CASE tid[n] = "Package"
  <2>1. ByType(n, args) = Package(args)
    BY <1>4 DEF ByType
  <2>2. Package(args) = ForAllTargets(Tail(args))
    BY <1>1 DEF Package, Is
  <2> QED
    BY <1>4, <2>1, <2>2
<1>5. CASE tid[n] = "Load_Stmt"
  <2>1. ByType(n, args) = Load(n, args)
    BY <1>5 DEF ByType
  <2>2. Load(n, args) = CommonProperty(n, args[1])
    BY <1>1 DEF Load, Is, OneBinding, AllBindings
  <2> QED
    BY <1>3, <1>5, <2>1, <2>2
<1>6. CASE tid[n] = "Call_Expr"
  <2>1. ByType(n, args) = Target(n, args)
    BY <1>1, <1>6 DEF ByType
  <2>2. Target(n, args) = CommonProperty(n, args[1])
    BY <1>1, <1>2 DEF Target, Is, OneBinding, AllBindings
  <2> QED
    BY <1>3, <1>6, <2>1, <2>2
<1>7. CASE tid[n] = "Arg_List"
  <2>1. ByType(n, args) = BindingsList(n, args)
    BY <1>7 DEF ByType
  <2>2. BindingsList(n, args) = CommonProperty(n, args[1])
    BY <1>1 DEF BindingsList
  <2> QED
    BY <1>3, <1>7, <2>1, <2>2
<1>8. CASE tid[n] = "Binding"
  <2>1. ByType(n, args) = OrError(Binding(n, args))
    BY <1>1, <1>8 DEF ByType
  <2>2. Binding(n, args) = Error
    BY <1>1 DEF Binding, Is, ValueOps
  <2>3. NoBulk(OrError(Error))
    BY FewBulk DEF OrError, Error, Bare, R, NoBulk
  <2> QED
    BY <1>8, <2>1, <2>2, <2>3
<1>9. ASSUME NEW results, results \in {Null, Died}
      PROVE  NoBulk(UNION {IF r.is = "NULL" THEN CommonProperty(n, args[1]) ELSE {r} : r \in results})
  BY <1>3, <1>9, FewBulk DEF NoBulk, Null, Died, Bare, R
<1>10. CASE tid[n] = "Dict_Entry"
  <2>1. ByType(n, args) =
          UNION {IF r.is = "NULL" THEN CommonProperty(n, args[1]) ELSE {r} : r \in DictEntry(n, args)}
    BY <1>10 DEF ByType
  <2>2. DictEntry(n, args) = Null
    BY <1>1 DEF DictEntry, Is, ValueOps
  <2> QED
    BY <1>9, <1>10, <2>1, <2>2
<1>11. CASE tid[n] = "Dict_Expr"
  <2>1. ByType(n, args) = DictExpr(n, args)
    BY <1>11 DEF ByType
  <2>2. DictExpr(n, args) = CommonProperty(n, args[1])
    BY <1>1 DEF DictExpr
  <2> QED
    BY <1>3, <1>11, <2>1, <2>2
<1>12. CASE tid[n] = "List_Expr"
  <2>1. ByType(n, args) =
          UNION {IF r.is = "NULL" THEN CommonProperty(n, args[1]) ELSE {r} : r \in Vector(n, args)}
    BY <1>12 DEF ByType
  <2>2. Vector(n, args) \in {Null, Died}
    BY <1>1 DEF Vector, Is
  <2> QED
    BY <1>9, <1>12, <2>1, <2>2
<1>13. CASE tid[n] \notin {"Package", "Load_Stmt", "Call_Expr", "Arg_List", "Binding",
                          "Dict_Entry", "Dict_Expr", "List_Expr"}
  <2>1. ByType(n, args) = Leaf(n, args)
    BY <1>13 DEF ByType
  <2>2. Leaf(n, args) = CommonProperty(n, args[1])
    BY <1>1 DEF Leaf, Is
  <2> QED
    BY <1>3, <1>13, <2>1, <2>2
<1> QED
  BY <1>4, <1>5, <1>6, <1>7, <1>8, <1>10, <1>11, <1>12, <1>13

\* Copies come of all targets only, and with no :$ behind.
LEMMA BulkIs ==
  ASSUME TypesKept, NEW n \in Nodes, NEW steps \in Seq(Step), Len(steps) > 1,
         Is(steps[1], {">>"}), NEW s \in Dispatch(n, steps), s.is \in Bulk
  PROVE  s \in ForAllTargets(Tail(steps))
<1> DEFINE dollar == Is(Last(steps), {"$"})
           args == IF dollar THEN Front(steps) ELSE steps
           applied == \/ tid[n] \in {"Package", "Load_Stmt"}
                      \/ tid[n] = "Call_Expr" /\ ~IsPredicate(args[1])
           Converted(r) == CASE dollar /\ applied                -> ToScheme({r})
                             [] ~dollar /\ tid[n] = "Call_Expr" -> OrError({r})
                             [] OTHER                           -> {r}
<1>1. Dispatch(n, steps) =
        IF args = << >> THEN NodeToScheme(n) ELSE UNION {Converted(r) : r \in ByType(n, args)}
  BY DEF Dispatch
<1>2. args \in Seq(Step) /\ args # << >> /\ args[1] = steps[1]
  <2>1. /\ Front(steps) \in Seq(Step) /\ Len(steps) \in Nat /\ (Len(steps) = 1 <=> Front(steps) = << >>)
        /\ \A i \in 1 .. Len(steps) - 1 : Front(steps)[i] = steps[i]
    BY FrontAndLast
  <2>2. 1 \in 1 .. Len(steps) - 1 /\ Len(steps) # 1
    <3>1. \A len \in Nat : len > 1 => 1 \in 1 .. len - 1 /\ len # 1
      OBVIOUS
    <3> QED
      BY <2>1, <3>1
  <2>3. steps # << >>
    BY MoreSteps
  <2> QED
    BY <2>1, <2>2, <2>3
<1> HIDE DEF dollar, args, applied, Converted
<1>3. PICK r \in ByType(n, args) : s \in Converted(r)
  BY <1>1, <1>2
<1>4. r \in Outcomes
  BY <1>2, ByTypeAllowed DEF Allowed
<1>5. /\ ~(dollar /\ applied)
      /\ s = r \/ s \in OrError({r})
  BY <1>3, <1>4, ToSchemeNoBulk DEF NoBulk, Converted
<1>6. s = r
  BY <1>4, <1>5 DEF OrError, Outcomes, Result, Bulk
<1>7. tid[n] = "Package" /\ ByType(n, args) = ForAllTargets(Tail(args))
  BY <1>2, <1>6, OnlyPackageBulk DEF NoBulk
<1>8. ~dollar /\ args = steps
  BY <1>5, <1>7 DEF applied, args
<1> QED
  BY <1>6, <1>7, <1>8

LEMMA CallIsBulk ==
  ASSUME IInv, Next, IsCall, Len(Chunk) > 1, Is(Chunk[1], {">>"}), cur'.is \in Bulk
  PROVE  TypesKept /\ Chunk \in Seq(Step) /\ cur' \in ForAllTargets(Tail(Chunk))
<1>1. Apply /\ Origin \in Nodes /\ Chunk \in Seq(Step) /\ TypesKept
  BY CallIsApply, CallExplained DEF IInv
<1>2. PICK taken \in done + 1 .. Len(path) :
        \E r \in Dispatch(Origin, SubSeq(path, done + 1, taken)) : Becomes(r, taken)
  BY <1>1 DEF Apply, Origin
<1>3. Chunk = SubSeq(path, done + 1, taken) /\ cur' \in Dispatch(Origin, Chunk)
  BY <1>2 DEF Becomes, Chunk
<1> QED
  BY <1>1, <1>3, BulkIs

\* The step that asks for a filter list names one.
LEMMA FilterOfChunk ==
  ASSUME IInv, Next, IsCall, Len(Chunk) > 1, Chunk[2].kind = "list"
  PROVE  Filters[Chunk[2].n] \in Seq(Step)
<1>1. Apply
  BY CallIsApply
<1>2. PICK taken \in done + 1 .. Len(path) : done' = taken
  BY <1>1 DEF Apply, Becomes
<1>3. path \in Seq(Step) /\ done \in Nat /\ path \in Paths \cup {<< >>}
  BY StepsOfPath DEF IInv, TypeOK
<1>4. Len(Chunk) = taken - done /\ Chunk[2] = path[done + 2] /\ done + 2 \in DOMAIN path
  <2>1. Chunk = SubSeq(path, done + 1, taken) /\ taken \in Nat /\ taken <= Len(path) /\ taken > done
    BY <1>2, <1>3 DEF Chunk
  <2>2. Len(SubSeq(path, done + 1, taken)) = taken - done
    BY <1>3, <2>1
  <2>3. taken >= done + 2
    BY <1>3, <2>1, <2>2
  <2>4. SubSeq(path, done + 1, taken)[2] = path[done + 2]
    BY <1>3, <2>1, <2>3
  <2> QED
    BY <1>3, <2>1, <2>2, <2>3, <2>4
<1>5. path \in Paths
  BY <1>3, <1>4
<1>6. Chunk[2].n \in DOMAIN Filters
  BY <1>4, <1>5, PathsAssumption
<1> QED
  BY <1>6, FiltersAssumption

\* Whatever the package, its filters and the path, the targets a filter list
\* gives are those its criteria choose, once and in the order of the package.
THEOREM FiltersAgree == Spec => FilterAgrees
<1> DEFINE filter == Filters[Chunk[2].n]
           chosen == UNION {Chosen(c) : c \in Range(filter)}
           A == IsCall /\ Is(Chunk[1], {">>"}) /\ Len(Chunk) > 1 /\ Chunk[2].kind = "list"
                  /\ cur'.is \in {"copies", "copy"} =>
                  /\ cur'.is = "copies" => Range(cur'.of) = chosen /\ InPackageOrder(cur'.of)
                  /\ cur'.is = "copy" => Range(cur'.of) \subseteq chosen
<1>1. IInv /\ [Next]_vars => [A]_vars
  <2> SUFFICES ASSUME IInv, Next, IsCall, Is(Chunk[1], {">>"}), Len(Chunk) > 1, Chunk[2].kind = "list",
                      cur'.is \in {"copies", "copy"}
               PROVE  /\ cur'.is = "copies" => Range(cur'.of) = chosen /\ InPackageOrder(cur'.of)
                      /\ cur'.is = "copy" => Range(cur'.of) \subseteq chosen
    OBVIOUS
  <2>1. TypesKept /\ Chunk \in Seq(Step) /\ cur' \in ForAllTargets(Tail(Chunk))
    BY CallIsBulk DEF Bulk
  <2>2. filter \in Seq(Step)
    BY FilterOfChunk
  <2> DEFINE args == Tail(Chunk)
  <2>3. /\ args \in Seq(Step) /\ args # << >> /\ args[1] = Chunk[2]
        /\ Len(args) = 2 => args[2] \in Step
    <3>1. args \in Seq(Step) /\ args # << >> /\ args[1] = Chunk[2]
      BY <2>1, MoreSteps
    <3> HIDE DEF args
    <3>2. ASSUME Len(args) = 2 PROVE args[2] \in Step
      <4>1. Len(args) > 1
        BY <3>2
      <4> QED
        BY <3>1, <4>1, MoreSteps
    <3> QED
      BY <3>1, <3>2
  <2> HIDE DEF args
  <2>4. cur' \in IF Len(args) = 2 THEN FilteredAt(Filtered(filter), args[2])
                                  ELSE {R("copies", Filtered(filter))}
    BY <2>1, <2>3 DEF ForAllTargets, Is, args
  <2>5. /\ Filtered(filter) \in Seq(Nodes) /\ Range(Filtered(filter)) = chosen
        /\ InPackageOrder(Filtered(filter))
    BY <2>1, <2>2, FilteredChosen
  <2> HIDE DEF filter, chosen
  <2>6. CASE Len(args) = 2
    <3>1. /\ cur'.is # "copies"
          /\ cur'.is = "copy" => \E k \in DOMAIN Filtered(filter) : cur'.of = <<Filtered(filter)[k]>>
      BY <2>3, <2>4, <2>5, <2>6, FilteredAtFound
    <3>2. ASSUME cur'.is = "copy" PROVE Range(cur'.of) \subseteq chosen
      <4>1. PICK k \in DOMAIN Filtered(filter) : cur'.of = <<Filtered(filter)[k]>>
        BY <3>1, <3>2
      <4>2. Filtered(filter)[k] \in chosen
        BY <2>5 DEF Range
      <4> QED
        BY <4>1, <4>2 DEF Range
    <3> QED
      BY <3>1, <3>2
  <2>7. CASE Len(args) # 2
    <3>1. cur'.is = "copies" /\ cur'.of = Filtered(filter)
      BY <2>4, <2>7 DEF R
    <3> QED
      BY <2>5, <3>1
  <2> QED
    BY <2>6, <2>7
<1> QED
  BY <1>1, Invariant, PTL DEF Spec, FilterAgrees

-----------------------------------------------------------------------------
(***************************************************************************)
(* Attributes of all targets                                               *)
(***************************************************************************)
\* The steps from the package to a part of an attribute of target i.
ToPart(i, name, part) ==
  <<Kw(">"), StepOf("int", name.s, i - 1), Kw("@"), name, part>>

Meant(i, name, part) == Meaning(Root, ToPart(i, name, part))

\* The targets that have the part.
Having(name, part) ==
  Selected([i \in DOMAIN Targets |-> i], {i \in DOMAIN Targets : Meant(i, name, part) # {}})

PartOf(b, part) == IF Is(part, {"key"}) THEN Key(b) ELSE Val(b)

LEMMA PartMeant ==
  ASSUME TypesKept, NEW i \in DOMAIN Targets, NEW name \in Step, NEW part \in Step,
         name.kind = "sym", Is(part, {"key", "value"})
  PROVE  LET b == Keyed(Bindings(Targets[i]), name.s)
         IN Meant(i, name, part) = IF b = 0 THEN {} ELSE {Self(PartOf(b, part))}
<1> DEFINE t == Targets[i]
           b == Keyed(Bindings(t), name.s)
           number == StepOf("int", name.s, i - 1)
<1>1. /\ t \in Nodes /\ Tree[t].tid = "Call_Expr" /\ t # 0 /\ i \in Nat /\ i >= 1
      /\ Targets \in Seq(Nodes)
  <2>1. t \in Nodes /\ Tree[t].tid = "Call_Expr" /\ Targets \in Seq(Nodes)
    BY ListsOfPackage
  <2> QED
    BY <2>1, NodeFacts
<1>2. PICK steps : steps = ToPart(i, name, part)
  OBVIOUS
<1>3. /\ steps \in Seq(Step) /\ Len(steps) = 5 /\ number \in Step
      /\ steps[1] = Kw(">") /\ steps[2] = number /\ steps[3] = Kw("@")
      /\ steps[4] = name /\ steps[5] = part
  <2>1. number \in Step
    BY <1>1 DEF StepOf, Step, StepKinds
  <2> HIDE DEF number
  <2>2. steps = <<Kw(">"), number, Kw("@"), name, part>>
    BY <1>2 DEF ToPart, number
  <2> QED
    BY <2>1, <2>2, KwIsStep
<1>4. Root \in Nodes /\ Self(Root) \in Proper
  BY NodeFacts, SelfIsProper
<1> DEFINE A(k) == After(Self(Root), steps, k)
<1>5. /\ A(0) = {Self(Root)}
      /\ GoesFrom(Self(Root), steps, 0, 1) /\ GoesFrom(Self(Root), steps, 1, 2)
      /\ GoesFrom(Self(Root), steps, 2, 3) /\ GoesFrom(Self(Root), steps, 3, 4)
      /\ GoesFrom(Self(Root), steps, 4, 5)
  <2>1. Len(steps) >= 2 /\ Len(steps) >= 5
    BY <1>3
  <2> QED
    BY <1>3, <1>4, <2>1, AfterFive
<1>6. Meaning(Root, steps) = A(5)
  BY <1>3, <1>4, MeaningIsAfter
<1>7. A(1) = {Facet(Root, "targets")}
  BY <1>3, <1>5, RootTargets DEF GoesFrom
<1>8. Select(Facet(Root, "targets"), number) = {Self(t)}
  <2>1. At(Targets, CInt(i - 1)) = t
    <3>1. i - 1 \in Int /\ (i - 1) + 1 = i
      BY <1>1
    <3> QED
      BY <3>1, TargetAt
  <2>2. Select(Facet(Root, "targets"), number) = ByIndex(Targets, number)
    BY DEF Select, Facet, StepOf
  <2>3. ByIndex(Targets, number) = Found(At(Targets, CInt(i - 1)))
    BY DEF ByIndex, IsIndex, KwIndex, StepOf
  <2> QED
    BY <1>1, <2>1, <2>2, <2>3 DEF Found
<1>9. A(2) = {Self(t)}
  BY <1>3, <1>5, <1>7, <1>8 DEF GoesFrom
<1>10. ArgList(t) \in Nodes /\ Tree[ArgList(t)].tid = "Arg_List" /\ ArgList(t) # 0
  BY <1>1, Grammar, NodeFacts
<1>11. Select(Self(t), Kw("@")) = {Self(ArgList(t))}
  BY <1>1, <1>10 DEF Select, Self, SelectSelf, Is, Kw, StepOf, OneBinding, AllBindings, Found
<1>12. A(3) = {Self(ArgList(t))}
  BY <1>3, <1>5, <1>9, <1>11 DEF GoesFrom
<1>13. Select(Self(ArgList(t)), name) = Found(b)
  <2>1. Select(Self(ArgList(t)), name) =
          ByIndex(BindingsOf(ArgList(t)), name) \cup ByKey(BindingsOf(ArgList(t)), name, "sym")
    BY <1>10 DEF Select, Self, SelectSelf
  <2>2. ByIndex(BindingsOf(ArgList(t)), name) = {}
    BY DEF ByIndex, IsIndex
  <2>3. ByKey(BindingsOf(ArgList(t)), name, "sym") = Found(Keyed(Bindings(t), name.s))
    BY DEF ByKey, Bindings
  <2> QED
    BY <2>1, <2>2, <2>3
<1>14. A(4) = Found(b)
  BY <1>3, <1>5, <1>12, <1>13 DEF GoesFrom
<1>15. CASE b = 0
  <2>1. A(4) = {}
    BY <1>14, <1>15 DEF Found
  <2>2. A(5) = {}
    BY <1>5, <2>1 DEF GoesFrom
  <2> QED
    BY <1>2, <1>6, <1>15, <2>2 DEF Meant
<1>16. CASE b # 0
  <2>1. A(4) = {Self(b)}
    BY <1>14, <1>16 DEF Found
  <2>2. b \in Nodes /\ Tree[b].tid = "Binding"
    <3>1. /\ Bindings(t) \in Seq(Nodes)
          /\ \A k \in DOMAIN Bindings(t) : Bindings(t)[k] \in Nodes /\ Tree[Bindings(t)[k]].tid = "Binding"
      BY <1>1, Attributes
    <3>2. \E k \in DOMAIN Bindings(t) : b = Bindings(t)[k]
      BY <1>16, <3>1, KeyedIs
    <3> QED
      BY <3>1, <3>2
  <2>3. Key(b) # 0 /\ Val(b) # 0
    BY <2>2, Grammar, NodeFacts
  <2>4. Select(Self(b), part) = Found(PartOf(b, part))
    BY <2>2 DEF Select, Self, SelectSelf, Is, ValueOps, PartOf
  <2>5. Select(Self(b), part) = {Self(PartOf(b, part))}
    BY <2>3, <2>4 DEF Found, PartOf
  <2>6. A(5) = {Self(PartOf(b, part))}
    BY <1>3, <1>5, <2>1, <2>5 DEF GoesFrom
  <2> QED
    BY <1>2, <1>6, <1>16, <2>6 DEF Meant
<1> QED
  BY <1>15, <1>16

\* What is taken of the attributes of all targets is, one by one, what the
\* path to each of them means.
LEMMA AllNamedMeant ==
  ASSUME TypesKept, NEW name \in Step, NEW part \in Step,
         name.kind = "sym", Is(part, {"key", "value"})
  PROVE  LET holders == Having(name, part)
             all == AllNamed(name.s, IF Is(part, {"key"}) THEN "key" ELSE "value")
         IN /\ DOMAIN all = DOMAIN holders
            /\ \A k \in DOMAIN holders : {all[k]} = NodesOf(Meant(holders[k], name, part))
<1> DEFINE One(i) == Meant(i, name, part)
           b(i) == Keyed(Bindings(Targets[i]), name.s)
           word == IF Is(part, {"key"}) THEN "key" ELSE "value"
           places == [i \in DOMAIN Targets |-> i]
           all == AllNamed(name.s, word)
<1>1. \A i \in DOMAIN Targets : One(i) = IF b(i) = 0 THEN {} ELSE {Self(PartOf(b(i), part))}
  BY PartMeant
<1>2. PICK S \in SUBSET DOMAIN Targets : S = {i \in DOMAIN Targets : b(i) # 0}
  OBVIOUS
<1>3. {i \in DOMAIN Targets : One(i) # {}} = S
  <2> HIDE DEF One, b
  <2> QED
    BY <1>1, <1>2
<1>4. Targets \in Seq(Nodes)
  BY ListsOfPackage
<1>5. /\ DOMAIN Selected(Targets, S) = 1 .. Cardinality(S)
      /\ \A k \in 1 .. Cardinality(S) :
           NthPlace(S, k) \in S /\ Selected(Targets, S)[k] = Targets[NthPlace(S, k)]
  BY <1>4, SelectedIs
<1>6. /\ DOMAIN Selected(places, S) = 1 .. Cardinality(S)
      /\ \A k \in 1 .. Cardinality(S) : Selected(places, S)[k] = NthPlace(S, k)
  BY <1>5 DEF Selected
<1>7. Holders(name.s) = Selected(Targets, S)
  BY <1>2 DEF Holders
<1>8. /\ DOMAIN all = 1 .. Cardinality(S)
      /\ \A k \in 1 .. Cardinality(S) : all[k] = PartOf(b(NthPlace(S, k)), part)
  <2>1. all = [k \in DOMAIN Selected(Targets, S) |->
                 IF word = "key" THEN Key(Keyed(Bindings(Selected(Targets, S)[k]), name.s))
                                 ELSE Val(Keyed(Bindings(Selected(Targets, S)[k]), name.s))]
    BY <1>7 DEF AllNamed
  <2>2. ASSUME NEW k \in 1 .. Cardinality(S) PROVE all[k] = PartOf(b(NthPlace(S, k)), part)
    BY <1>5, <2>1 DEF PartOf
  <2> QED
    BY <1>5, <2>1, <2>2
<1>9. ASSUME NEW k \in 1 .. Cardinality(S)
      PROVE  {all[k]} = NodesOf(One(Selected(places, S)[k]))
  <2>1. Selected(places, S)[k] = NthPlace(S, k) /\ NthPlace(S, k) \in S
    BY <1>5, <1>6
  <2> HIDE DEF One, b, all
  <2>2. One(NthPlace(S, k)) = {Self(PartOf(b(NthPlace(S, k)), part))}
    BY <1>1, <1>2, <2>1
  <2>3. \A x : NodesOf({Self(x)}) = {Self(x).node} /\ Self(x).node = x
    BY DEF NodesOf, Self
  <2> QED
    BY <1>8, <2>1, <2>2, <2>3
<1> HIDE DEF One, b, all, places
<1> QED
  BY <1>3, <1>6, <1>8, <1>9 DEF One, all, places, word, Having

\* What the steps of a call of four steps are, taken off one by one.
LEMMA FourSteps ==
  ASSUME NEW c \in Seq(Step), Len(c) = 4
  PROVE  /\ c[3] \in Step /\ c[4] \in Step /\ Tail(c) # << >> /\ Tail(c)[1] = c[2]
         /\ Tail(Tail(c)) # << >> /\ Len(Tail(Tail(c))) = 2
         /\ Tail(Tail(c))[1] = c[3] /\ Tail(Tail(c))[2] = c[4]
<1>1. Len(c) > 1 /\ Len(c) > 2 /\ Len(c) - 1 = 3 /\ 4 \in 1 .. Len(c)
  OBVIOUS
<1>2. /\ c # << >> /\ Tail(c) \in Seq(Step) /\ Tail(c) # << >> /\ Tail(c)[1] = c[2]
      /\ Len(Tail(c)) = 3
  BY <1>1, MoreSteps
<1>3. c[3] \in Step /\ Tail(c)[2] = c[3]
  BY <1>1, ManySteps
<1>4. c[4] \in Step
  BY <1>1
<1>5. Tail(c)[3] = c[4]
  <2>1. \A i \in 1 .. Len(Tail(c)) : Tail(c)[i] = c[i + 1]
    BY <1>2, HeadTailProperties
  <2>2. \A i : i = 3 => i \in 1 .. 3 /\ i + 1 = 4
    OBVIOUS
  <2> QED
    BY <1>2, <2>1, <2>2, Zenon
<1>6. PICK rest \in Seq(Step) : rest = Tail(c)
  BY <1>2, Zenon
<1>7. Len(rest) = 3
  BY <1>2, <1>6, Zenon
<1>8. Len(rest) > 1 /\ Len(rest) > 2 /\ Len(rest) - 1 = 2
  BY <1>7
<1>9. /\ Tail(rest) # << >> /\ Tail(rest)[1] = rest[2] /\ Len(Tail(rest)) = 2
      /\ Tail(rest)[2] = rest[3]
  BY <1>8, MoreSteps, ManySteps, Zenon
<1> QED
  BY <1>2, <1>3, <1>4, <1>5, <1>6, <1>9, Zenon

\* Whatever the package and the path, the keys or values of the attributes
\* of a name are for each target those that the path to it leads to.
THEOREM BulksAgree == Spec => BulkAgrees
<1> DEFINE One(i) == Meaning(Root, <<Kw(">"), StepOf("int", Chunk[3].s, i - 1), Kw("@"),
                                     Chunk[3], Chunk[4]>>)
           holders == Selected([i \in DOMAIN Targets |-> i], {i \in DOMAIN Targets : One(i) # {}})
           A == IsCall /\ Is(Chunk[1], {">>"}) /\ Len(Chunk) = 4 /\ Is(Chunk[2], AllBindings)
                  /\ cur'.is = "copies" /\ Chunk[3].kind = "sym" /\ Is(Chunk[4], {"key", "value"}) =>
                  /\ DOMAIN cur'.of = DOMAIN holders
                  /\ \A k \in DOMAIN holders : {cur'.of[k]} = NodesOf(One(holders[k]))
<1>1. IInv /\ [Next]_vars => [A]_vars
  <2> SUFFICES ASSUME IInv, Next, IsCall, Is(Chunk[1], {">>"}), Len(Chunk) = 4,
                      Is(Chunk[2], AllBindings), cur'.is = "copies",
                      Chunk[3].kind = "sym", Is(Chunk[4], {"key", "value"})
               PROVE  /\ DOMAIN cur'.of = DOMAIN holders
                      /\ \A k \in DOMAIN holders : {cur'.of[k]} = NodesOf(One(holders[k]))
    OBVIOUS
  <2>1. TypesKept /\ Chunk \in Seq(Step) /\ cur' \in ForAllTargets(Tail(Chunk))
    <3>1. Len(Chunk) > 1
      OBVIOUS
    <3> QED
      BY <3>1, CallIsBulk DEF Bulk
  <2>2. PICK c \in Seq(Step) : c = Chunk /\ Len(c) = 4
    BY <2>1
  <2>3. /\ c[3] \in Step /\ c[4] \in Step /\ Tail(c) # << >> /\ Tail(c)[1] = c[2]
        /\ Tail(Tail(c)) # << >> /\ Len(Tail(Tail(c))) = 2
        /\ Tail(Tail(c))[1] = c[3] /\ Tail(Tail(c))[2] = c[4]
    BY <2>2, FourSteps
  <2>4. PICK word : word = IF Is(c[4], {"key"}) THEN "key" ELSE "value"
    OBVIOUS
  <2>5. ForAllTargets(Tail(c)) = ForAllBindings(Tail(Tail(c)))
    BY <2>2, <2>3 DEF ForAllTargets, Is
  <2>6. ForAllBindings(Tail(Tail(c))) = {R("copies", AllNamed(c[3].s, word))}
    <3>1. ~IsKw(c[3])
      BY <2>2 DEF IsKw
    <3>2. Is(c[4], {"key"}) \/ Is(c[4], ValueOps)
      BY <2>2 DEF Is, ValueOps
    <3>3. word = IF Is(c[4], {"key"}) THEN "key" ELSE IF Is(c[4], ValueOps) THEN "value" ELSE "binding"
      BY <2>4, <3>2
    <3> QED
      BY <2>2, <2>3, <3>1, <3>3 DEF ForAllBindings
  <2>7. cur'.of = AllNamed(c[3].s, word)
    BY <2>1, <2>2, <2>5, <2>6 DEF R
  <2>8. /\ DOMAIN cur'.of = DOMAIN Having(c[3], c[4])
        /\ \A k \in DOMAIN Having(c[3], c[4]) :
             {cur'.of[k]} = NodesOf(Meant(Having(c[3], c[4])[k], c[3], c[4]))
    BY <2>1, <2>2, <2>3, <2>4, <2>7, AllNamedMeant
  <2>9. \A i : One(i) = Meant(i, Chunk[3], Chunk[4])
    BY DEF Meant, ToPart
  <2> HIDE DEF One
  <2>10. holders = Having(c[3], c[4])
    BY <2>2, <2>9 DEF Having
  <2> HIDE DEF holders
  <2> QED
    BY <2>2, <2>8, <2>9, <2>10
<1> QED
  BY <1>1, Invariant, PTL DEF Spec, BulkAgrees
=============================================================================
