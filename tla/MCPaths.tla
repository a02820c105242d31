------------------------------- MODULE MCPaths -------------------------------
(***************************************************************************)
(* Instances of Paths for TLC: a package of two load statements, a call    *)
(* that is no target, two targets of one name, and one with a list of      *)
(* integers, and with a call, a dictionary and a list where a value is.    *)
(***************************************************************************)
EXTENDS Paths

MCIntMin == -128

MCTexts ==
  {"", "l1", "l2", "a", "b", "x", "package", "vis", "cc_library", "cc_test", "cc_*", "name",
   "lib", "app", "srcs", "d", "k", "m", "v", "n", "glob", "include", "0", "7", "no",
   ">", ">>", "load", "loadstmts", "save", "@", "@@", "key", "value", "$", "rule", "arg-list",
   "tid", "subnodes", "node?", "list-expr?", "arg", "args", "format", "filename", "q"}

Of(type, kids) == [tid |-> type, s |-> "", kids |-> kids]
Text(type, s) == [tid |-> type, s |-> s, kids |-> << >>]

MCTree == <<
  Of("Package", <<2, 8, 10, 14, 69, 24>>),
  Of("Load_Stmt", <<3, 4, 5>>), Text("STRING", "l1"), Text("STRING", "a"),
  Of("Binding", <<6, 7>>), Text("ID", "x"), Text("STRING", "b"),
  Of("Load_Stmt", <<9>>), Text("STRING", "l2"),
  Of("Call_Expr", <<11, 12>>), Text("ID", "package"), Of("Arg_List", <<13>>),
  Of("Binding", <<43, 44>>),
  Of("Call_Expr", <<15, 16>>), Text("ID", "cc_library"), Of("Arg_List", <<17, 20>>),
  Of("Binding", <<18, 19>>), Text("ID", "name"), Text("STRING", "lib"),
  Of("Binding", <<21, 22>>), Text("ID", "srcs"), Of("List_Expr", <<23, 45, 48>>), Text("STRING", "a"),
  Of("Call_Expr", <<25, 26>>), Text("ID", "cc_test"), Of("Arg_List", <<27, 30, 50, 35>>),
  Of("Binding", <<28, 29>>), Text("ID", "name"), Text("STRING", "app"),
  Of("Binding", <<31, 32>>), Text("ID", "srcs"), Of("List_Expr", <<33, 34>>),
  Text("INT", "0"), Text("INT", "7"),
  Of("Binding", <<36, 37>>), Text("ID", "d"), Of("Dict_Expr", <<38, 41, 59>>),
  Of("Dict_Entry", <<39, 40>>), Text("STRING", "k"), Of("List_Expr", <<46, 65>>),
  Of("Dict_Entry", <<42, 47>>), Text("STRING", "m"),
  Text("ID", "vis"), Text("STRING", "b"),          \* 43, 44: of the call package
  Text("STRING", "b"),                             \* 45: of the list of strings
  Text("STRING", "a"), Text("STRING", "b"),        \* 46, 47: of the dictionary
  Of("List_Expr", <<49>>), Text("STRING", "b"),    \* 48, 49: a list in the list
  Of("Binding", <<51, 52>>), Text("ID", "v"),      \* 50: an attribute that is a call
  Of("Call_Expr", <<53, 54>>), Text("ID", "glob"), Of("Arg_List", <<55, 56>>),
  Of("List_Expr", << >>), Of("Binding", <<57, 58>>), Text("ID", "include"), Text("STRING", "b"),
  Of("Dict_Entry", <<60, 61>>), Text("STRING", "n"), Of("Dict_Expr", <<62>>),  \* 59: a dictionary
  Of("Dict_Entry", <<63, 64>>), Text("STRING", "k"), Text("STRING", "a"),     \*     in the dictionary
  Of("Dict_Expr", <<66>>), Of("Dict_Entry", <<67, 68>>),  \* 65: one in the list of an entry
  Text("STRING", "m"), Text("STRING", "b"),
  Of("Call_Expr", <<70, 71>>), Text("ID", "cc_test"), Of("Arg_List", <<72>>),  \* 69: named as 14 is
  Of("Binding", <<73, 74>>), Text("ID", "name"), Text("STRING", "lib") >>

MCKind == [s \in MCTexts |-> CASE s = "cc_*" -> {"cc_library", "cc_test"} [] OTHER -> {s}]

Int0(n) == StepOf("int", IF n = 0 THEN "0" ELSE "7", n)
Nbr(n) == StepOf("kwnum", "", n)
Back(n) == StepOf("-kwnum", "", n)
Sym(s) == StepOf("sym", s, 0)
Txt(s) == StepOf("str", s, 0)
Flt(n) == StepOf("list", "", n)
Kws(words) == {Kw(s) : s \in words}

MCFilters == <<
  <<Sym("cc_*")>>, <<Txt("app"), Int0(0)>>, <<Int0(1), Sym("cc_library")>>, <<Int0(-1)>>,
  <<Sym("no"), Int0(2)>>, <<Txt("lib")>>, <<Int0(-2 * IntMin), Nbr(0)>> >>

\* Every sequence with its first step in the first set, its second in the next...
RECURSIVE Product(_)
Product(sets) ==
  IF sets = << >> THEN {<< >>}
  ELSE {<<st>> \o rest : st \in Head(sets), rest \in Product(Tail(sets))}

Sel == {Int0(0), Back(1), Nbr(7), Txt("app"), Txt("no"), Sym("lib")}
Attr == {Sym("srcs"), Sym("d"), Sym("no"), Int0(0), Back(1), Nbr(7), Txt("srcs"), Kw("tid")}
Item == {Nbr(0), Back(1), Nbr(7), Int0(0), Txt("a"), Txt("k"), Sym("a"), StepOf("star", "", 0)}
Part == Kws({"key", "value", "$", "tid"})
Ops == Kws({"@", "@@", "name", "key", "rule", "arg-list", "tid", "subnodes", "node?", "m"})
LoadOps == Kws({"@", "@@", "arg", "args", "key", "tid", "subnodes"})
App == {Txt("app")}
DictKey == {Txt("k"), Txt("m"), Txt("no"), Nbr(0), Nbr(7), Int0(0), Kw("tid")}

TargetPaths ==
  LET T == Kws({">"})
  IN UNION {Product(sets) : sets \in {
       <<T>>, <<T, Sel>>, <<T, {Txt("lib")}>>, <<T, Sel, Ops>>, <<T, Sel, Kws({"@"}), Attr>>,
       <<T, Sel, Kws({"@", "@@"}), Attr, Part>>,
       <<T, {Int0(0), Txt("app")}, Kws({"@"}), {Sym("srcs"), Sym("d")}, Kws({"key", "value"}), Item>>,
       <<T, Sel, Kws({"name", "rule"}), Kws({"$", "tid", "q"})>>,
       <<T, {Int0(0), Txt("app")}, Kws({"@"}), {Sym("srcs")}, Kws({"value"}), {Nbr(0), Nbr(7)},
         Kws({"$", "tid", "list-expr?"})>>,
       <<T, {Int0(0)}, Kws({"@"}), {Sym("srcs")}, Kws({"value"}), {Back(1)}, {Nbr(0), Nbr(7)}>>,
       <<T, App, Kws({"@"}), {Sym("d")}, Kws({"value"}), DictKey, Part>>,
       <<T, App, Kws({"@"}), {Sym("d")}, Kws({"value"}), DictKey, Part, {Nbr(0), Nbr(7), Kw("$")}>>,
       <<T, App, Kws({"@"}), {Sym("d")}, Kws({"value"}), {Txt("k")}, Kws({"value"}), {Nbr(0)}, {Nbr(0)}>>,
       <<T, App, Kws({"@"}), {Sym("v")}, Kws({"value"}),
         Kws({"rule", "@", "name", "$"}) \cup {Nbr(0), Int0(0), Sym("include")}>>,
       <<T, App, Kws({"@"}), {Sym("v")}, Kws({"value"}), Kws({"@", "@@", "arg-list"}),
         {Sym("include"), Int0(0), Nbr(0), Txt("b")}, Kws({"value", "$"})>>,
       <<T, App, Kws({"@"}), {Sym("d")}, Kws({"value"}), {Txt("n"), Nbr(2)}, Kws({"value"}),
         {Txt("k"), Nbr(0), Nbr(7), Kw("tid")}>>,
       <<T, App, Kws({"@"}), {Sym("d")}, Kws({"value"}), {Txt("n"), Nbr(2)}, Kws({"value"}),
         {Txt("k")}, Kws({"value", "$"})>>,
       <<T, App, Kws({"@"}), {Sym("d")}, Kws({"value"}), {Txt("k")}, Kws({"value"}), {Nbr(1), Int0(0)},
         {Txt("m"), Nbr(0)}>>,
       <<T, App, Kws({"@"}), {Sym("d")}, Kws({"value"}), {Txt("k")}, Kws({"value"}), {Nbr(1)},
         {Txt("m"), Nbr(0)}, Kws({"value", "$"})>>}}

LoadPaths ==
  LET L == Kws({"load"})
      Which == {Int0(0), Back(1), Nbr(2), Txt("l1"), Txt("no"), Sym("x")}
  IN UNION {Product(sets) : sets \in {
       <<L>>, <<L, Which>>, <<L, Which, LoadOps>>, <<L, Which, Kws({"key"}), Kws({"$", "tid"})>>,
       <<L, Which, Kws({"arg", "args"}), {Int0(0), Nbr(2), Txt("a"), Txt("no"), Sym("a"), Kw("tid")}>>,
       <<L, Which, Kws({"arg"}), {Int0(0), Nbr(2), Txt("a")}, Kws({"$", "tid"})>>,
       <<L, Which, Kws({"@", "@@"}), {Int0(0), Nbr(2), Sym("x"), Sym("no"), Txt("x"), Kw("tid")}>>,
       <<L, Which, Kws({"@"}), {Int0(0), Nbr(2), Sym("x")}, Kws({"key", "value", "tid", "$"})>>,
       <<L, {Int0(0)}, Kws({"@"}), {Int0(0), Sym("x")}, Kws({"key", "value"}), {Nbr(0), Kw("$")}>>}}

FilterPaths ==
  LET A == Kws({">>"})
      Names == {Sym("srcs"), Sym("d"), Sym("no"), Nbr(0), Txt("srcs")}
  IN UNION {Product(sets) : sets \in {
       <<A>>, <<A, Kws({"@@", "name"})>>, <<A, Kws({"@@"}), Names>>, <<A, Kws({"@@"}), Names, Part>>,
       <<A, {Sym("cc_*"), Sym("no"), Txt("app"), Int0(0)}>>,
       <<A, {Flt(n) : n \in DOMAIN MCFilters}>>,
       <<A, {Flt(n) : n \in DOMAIN MCFilters}, {Int0(0), Int0(IntMin), Back(1), Back(7), Nbr(7), Txt("a"), Kw("name")}>>,
       <<A, {Flt(1)}, {Nbr(0)}, Kws({"@"}), {Sym("srcs")}>>}}

OtherPaths ==
  Product(<<Kws({"loadstmts", "save", "package", "format", "filename", "tid", "subnodes", "$", "node?", "m"})
            \cup {Sym("x"), Int0(0)}>>)
  \cup Product(<<Kws({"loadstmts", "subnodes"}), {Kw("key"), Kw("tid"), Kw("@")}>>)

MCPaths_ == TargetPaths \cup LoadPaths \cup FilterPaths \cup OtherPaths
=============================================================================
