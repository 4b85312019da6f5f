----------------------------- MODULE MCFrontend -----------------------------
(***************************************************************************)
(* Programs for Frontend, as clang leaves them.                            *)
(***************************************************************************)
EXTENDS Frontend

\* Instructions.
I(op, id, args) == [op |-> op, id |-> <<id>>, args |-> args]
V(id) == Res(<<id>>)
Alloca(id, ty) == I("alloca", id, <<>>) @@ [ty |-> ty]
LoadOf(id, ptr) == I("load", id, <<ptr>>)
StoreTo(id, v, ptr) == I("store", id, <<v, ptr>>)
Gep(id, ty, ptr, idx) == I("gep", id, <<ptr>> \o idx) @@ [ty |-> ty]
Cast(id, ty, ptr, to) == I("bitcast", id, <<ptr>>) @@ [ty |-> ty, to |-> to]
EqualTo(id, v, n) == I("eq", id, <<v, Const(n)>>)
CallOf(id, f, args) == I("call", id, args) @@ [callee |-> f]
Invoke(id, f, args, normal, unwind) == I("invoke", id, args) @@ [callee |-> f, succ |-> <<normal, unwind>>]
ForkOf(id, f, shared) == CallOf(id, "fork", <<Glob("loc"), Fun(f)>> \o shared)
TeamsOf(id, f, shared) == CallOf(id, "fork_teams", <<Glob("loc"), Fun(f)>> \o shared)
Branch(id, b) == I("br", id, <<>>) @@ [succ |-> <<b>>]
CondBr(id, v, t, e) == I("cond", id, <<v>>) @@ [succ |-> <<t, e>>]
SwitchOn(id, v, bs) == I("switch", id, <<v>>) @@ [succ |-> bs]
Ret(id) == I("ret", id, <<>>)
RetOf(id, v) == I("ret", id, <<v>>)
CallThrough(id, ptr, args) == CallOf(id, Indirect, <<ptr>> \o args)
GepOf(ty, ptr, idx) == <<"ce", Gep("ce", ty, ptr, idx)>>

\* Functions and globals.
Body(name, params, pointers, blocks, code) ==
  [name |-> name, params |-> params, pointer |-> [k \in 1..params |-> k \in pointers],
   outlined |-> FALSE, blocks |-> blocks, code |-> code]

Outlined(pointers, blocks, code) ==
  [Body("outlined", 2 + Len(pointers), {k + 2 : k \in {k \in DOMAIN pointers : pointers[k]}}, blocks, code)
     EXCEPT !.outlined = TRUE]

Main(code) == Body("main", 0, {}, <<"m">>, [m |-> code])

Variable == [ty |-> Integer, initializer |-> Const(0), constant |-> FALSE, common |-> FALSE, threadLocal |-> FALSE]
Typed(ty) == [Variable EXCEPT !.ty = ty]
Initialized(v) == [Variable EXCEPT !.initializer = v]

Module(main, others, globals) ==
  [fns |-> ("main" :> main) @@ others, globals |-> ("loc" :> Variable) @@ ("g" :> Variable) @@ globals]

OneRegion(blocks, code) ==
  Module(Main(<<StoreTo("m1", Const(1), Glob("g")), ForkOf("m2", "outlined", <<>>), Ret("m3")>>),
         "outlined" :> Outlined(<<>>, blocks, code), <<>>)

g == Glob("g")

Node == Struct(<<Integer, Pointer>>)

(***************************************************************************)
(* Guards: a diamond under a check for 0, with a call in it; checks of one *)
(* answer for 0 and for 1; a check in a check of another answer; a check   *)
(* without anything after it.                                              *)
(***************************************************************************)
GuardedDiamond ==
  [OneRegion(<<"e", "t", "l", "r", "j", "x">>,
    [e |-> <<CallOf("t", "omp_get_thread_num", <<>>), EqualTo("c", V("t"), 0), CondBr("e3", V("c"), "t", "x")>>,
     t |-> <<LoadOf("t1", g), EqualTo("t2", V("t1"), 1), CondBr("t3", V("t2"), "l", "r")>>,
     l |-> <<CallOf("l1", "helper", <<>>), Branch("l2", "j")>>,
     r |-> <<StoreTo("r1", Const(2), g), Branch("r2", "j")>>,
     j |-> <<StoreTo("j1", Const(3), g), Branch("j2", "x")>>,
     x |-> <<LoadOf("x1", g), Ret("x2")>>])
   EXCEPT !.fns = @ @@ ("helper" :> Body("helper", 0, {}, <<"h">>, [h |-> <<StoreTo("h1", Const(4), g), Ret("h2")>>]))]

GuardedTwice ==
  OneRegion(<<"e", "zero", "next", "one", "x">>,
    [e |-> <<CallOf("t", "omp_get_thread_num", <<>>), EqualTo("c", V("t"), 0), CondBr("e3", V("c"), "zero", "next")>>,
     zero |-> <<StoreTo("z1", Const(2), g), Branch("z2", "next")>>,
     next |-> <<EqualTo("n1", V("t"), 1), CondBr("n2", V("n1"), "one", "x")>>,
     one |-> <<StoreTo("o1", Const(3), g), Branch("o2", "x")>>,
     x |-> <<Ret("x2")>>])

GuardedAgain ==
  OneRegion(<<"e", "outer", "inner", "x">>,
    [e |-> <<CallOf("t", "omp_get_thread_num", <<>>), EqualTo("c", V("t"), 0), CondBr("e3", V("c"), "outer", "x")>>,
     outer |-> <<StoreTo("o1", Const(2), g), CallOf("u", "omp_get_thread_num", <<>>), EqualTo("d", V("u"), 0),
                 CondBr("o2", V("d"), "inner", "x")>>,
     inner |-> <<StoreTo("i1", Const(3), g), Branch("i2", "x")>>,
     x |-> <<Ret("x2")>>])

GuardedReturn ==
  OneRegion(<<"e", "then", "x">>,
    [e |-> <<CallOf("t", "omp_get_thread_num", <<>>), EqualTo("c", V("t"), 0), CondBr("e3", V("c"), "then", "x")>>,
     then |-> <<StoreTo("t1", Const(2), g), Ret("t2")>>,
     x |-> <<Ret("x2")>>])

(***************************************************************************)
(* The value after the last iteration; a reduction, with an access of the  *)
(* members after it.                                                       *)
(***************************************************************************)
Lastprivate ==
  OneRegion(<<"e", "l", "x">>,
    [e |-> <<Alloca("last", Integer), CallOf("e1", "for_static_init", <<V("last")>>),
             CallOf("e2", "for_static_fini", <<>>), LoadOf("e3", V("last")),
             EqualTo("c", V("e3"), 0), CondBr("e4", V("c"), "x", "l")>>,
     l |-> <<StoreTo("l1", Const(2), g), Branch("l2", "x")>>,
     x |-> <<LoadOf("x1", g), Ret("x2")>>])

Reduction(kind) ==
  OneRegion(<<"e", "c1", "c2", "x">>,
    [e |-> <<CallOf("e1", kind, <<>>), SwitchOn("e2", V("e1"), <<"x", "c1", "c2">>)>>,
     c1 |-> <<LoadOf("r1", g), StoreTo("r2", V("r1"), g), CallOf("r3", "end_" \o kind, <<>>), Branch("r4", "x")>>,
     c2 |-> <<I("atomicrmw", "s1", <<Const(2), g>>), Branch("s2", "x")>>,
     x |-> <<StoreTo("x1", Const(3), g), Ret("x2")>>])

(***************************************************************************)
(* Constants: a global that is never written, one that is, a variable of   *)
(* main that is set once, and a value that is passed on, to a function     *)
(* that has two callers.                                                   *)
(***************************************************************************)
Constants ==
  Module(
    Main(<<Alloca("x", Integer), StoreTo("m1", Const(5), V("x")), LoadOf("m2", Glob("n")),
           ForkOf("m3", "outlined", <<V("x"), Const(3)>>), LoadOf("m4", g),
           CallOf("m5", "helper", <<V("m4"), Const(6)>>), Ret("m6")>>),
    ("outlined" :> Outlined(<<TRUE, FALSE>>, <<"e">>,
       [e |-> <<LoadOf("e1", Arg(3)), LoadOf("e2", Glob("n")), I("add", "e3", <<V("e1"), V("e2")>>),
                CallOf("e4", "helper", <<V("e3"), Arg(4)>>), Ret("e5")>>]))
    @@ ("helper" :> Body("helper", 2, {}, <<"h">>,
       [h |-> <<CallOf("h1", "leaf", <<Arg(1), Const(7)>>), StoreTo("h2", Arg(2), g), Ret("h3")>>]))
    @@ ("leaf" :> Body("leaf", 2, {}, <<"f">>,
       [f |-> <<CallOf("f0", "dbg", <<>>), StoreTo("f1", Arg(1), g), StoreTo("f2", Arg(2), g), Ret("f3")>>])),
    "n" :> Initialized(Const(2)))

\* A recursive function passes one argument on, and changes the other.
Recursion ==
  Module(
    Main(<<CallOf("m1", "rec", <<Const(4), Const(1)>>), Ret("m2")>>),
    "rec" :> Body("rec", 2, {}, <<"e", "again", "x">>,
       [e |-> <<StoreTo("e1", Arg(1), g), EqualTo("c", Arg(2), 0), CondBr("e2", V("c"), "x", "again")>>,
        again |-> <<CallOf("a1", "rec", <<Arg(1), Const(0)>>), Branch("a2", "x")>>,
        x |-> <<Ret("x1")>>]),
    <<>>)

\* Accesses that are not analysed, and a call that may throw.
Special ==
  Module(
    Body("main", 0, {}, <<"m", "n", "lp">>,
      [m |-> <<LoadOf("m1", Glob("c")) @@ [volatile |-> TRUE], StoreTo("m2", V("m1"), Glob("tl")),
               StoreTo("m3", Const(1), g) @@ [atomic |-> TRUE],
               Invoke("m4", "helper", <<>>, "n", "lp")>>,
       n |-> <<LoadOf("n1", Glob("tl")), StoreTo("n2", V("n1"), g), Ret("n3")>>,
       lp |-> <<StoreTo("p1", Const(1), g), Ret("p2")>>]),
    "helper" :> Body("helper", 0, {}, <<"h">>, [h |-> <<StoreTo("h1", Const(4), g), Ret("h2")>>]),
    ("c" :> [Variable EXCEPT !.constant = TRUE]) @@ ("tl" :> [Variable EXCEPT !.threadLocal = TRUE]))

(***************************************************************************)
(* Addresses: of a member of a member; with variable indices at each       *)
(* place; and an object with pointers in it that is copied.                *)
(***************************************************************************)
Inner == Struct(<<Integer, Array(3, Struct(<<Integer, Integer, Array(4, Array(3, Integer))>>))>>)

Addresses ==
  Module(
    Main(<<StoreTo("m1", Const(1), GepOf(Array(3, Integer), GepOf(Struct(<<Integer, Array(3, Integer)>>), Glob("t"),
                                                                   <<Const(0), Const(1)>>), <<Const(0), Const(2)>>)),
           LoadOf("i", g), LoadOf("j", Glob("n")),
           Gep("m2", Array(3, Inner), Glob("s"), <<Const(0), V("i"), Const(1), V("j"), Const(2), Const(1)>>),
           Gep("m4", Array(3, Integer), V("m2"), <<V("i"), V("i")>>), StoreTo("m5", Const(3), V("m4")),
           Gep("m6", Inner, GepOf(Array(3, Inner), Glob("s"), <<Const(0), Const(0)>>),
               <<Const(1), Const(1), V("i"), Const(2), V("i"), Const(1)>>),
           StoreTo("m7", Const(4), V("m6")),
           StoreTo("m8", V("i"), g), Ret("m9")>>),
    <<>>, ("s" :> Typed(Array(3, Inner))) @@ ("t" :> Typed(Struct(<<Integer, Array(3, Integer)>>)))
          @@ ("n" :> Initialized(Const(1))))

Record == Struct(<<Integer, Pointer, Array(2, Pointer)>>)

Copying ==
  Module(
    Main(<<Alloca("from", Record), Alloca("to", Record),
           Gep("m1", Record, V("from"), <<Const(0), Const(1)>>), StoreTo("m2", g, V("m1")),
           Gep("m3", Record, V("from"), <<Const(0), Const(2), Const(0)>>), StoreTo("m4", Glob("loc"), V("m3")),
           Cast("m5", Record, V("to"), Byte), Cast("m6", Record, V("from"), Byte),
           CallOf("m7", "memcpy", <<V("m5"), V("m6"), Const(TypeSize(Record))>>),
           Gep("m8", Record, V("to"), <<Const(0), Const(1)>>), LoadOf("m9", V("m8")), LoadOf("m10", V("m9")),
           StoreTo("m11", V("m10"), V("m9")), Ret("m12")>>),
    <<>>, <<>>)

(***************************************************************************)
(* Two regions, with something between them or nothing; a region at the    *)
(* beginning of a block.                                                   *)
(***************************************************************************)
Regions(between) ==
  Module(
    Main(<<StoreTo("m1", Const(1), g), ForkOf("m2", "outlined", <<>>)>> \o between
         \o <<ForkOf("m4", "second", <<>>), Ret("m5")>>),
    ("outlined" :> Outlined(<<>>, <<"e">>, [e |-> <<LoadOf("e1", g), Ret("e2")>>]))
    @@ ("second" :> [Outlined(<<>>, <<"b">>, [b |-> <<StoreTo("b1", Const(2), g), Ret("b2")>>]) EXCEPT !.name = "second"]),
    <<>>)

RegionFirst ==
  Module(Main(<<ForkOf("m1", "outlined", <<>>), Ret("m2")>>),
         "outlined" :> Outlined(<<>>, <<"e">>, [e |-> <<LoadOf("e1", g), Ret("e2")>>]), <<>>)

(***************************************************************************)
(* A teams region, with a variable that the teams share and one that each  *)
(* has.  A region that is given main's instance of a thread-local variable *)
(* and uses its own too.  A call of the runtime that has no model.         *)
(***************************************************************************)
TeamsRegion ==
  Module(
    Main(<<Alloca("x", Integer), StoreTo("m1", Const(1), V("x")), StoreTo("m2", Const(2), V("x")),
           CallOf("m3", "push_num_teams", <<Glob("loc")>>), TeamsOf("m4", "outlined", <<V("x"), Const(4)>>), Ret("m5")>>),
    "outlined" :> Outlined(<<TRUE, FALSE>>, <<"e">>,
       [e |-> <<Alloca("y", Integer), LoadOf("e1", Arg(3)), StoreTo("e2", V("e1"), V("y")),
                StoreTo("e3", Arg(4), Arg(3)), Ret("e4")>>]),
    <<>>)

GivenThreadLocal ==
  Module(
    Main(<<StoreTo("m1", Const(5), Glob("tl")),
           ForkOf("m2", "outlined", <<Glob("tl"), GepOf(Node, Glob("pair"), <<Zero, Const(1)>>), g>>), Ret("m3")>>),
    "outlined" :> Outlined(<<TRUE, TRUE, TRUE>>, <<"e">>,
       [e |-> <<CallOf("e0", "global_thread_num", <<Glob("loc")>>),
                LoadOf("e1", Arg(3)), StoreTo("e2", V("e1"), Arg(5)), StoreTo("e3", g, Arg(4)),
                LoadOf("e4", Glob("tl")), StoreTo("e5", V("e4"), Arg(5)), Ret("e6")>>]),
    ("tl" :> [Variable EXCEPT !.threadLocal = TRUE]) @@ ("pair" :> [Typed(Node) EXCEPT !.threadLocal = TRUE]))

Flush ==
  Module(Main(<<StoreTo("m1", Const(1), g), CallOf("m2", "flush", <<Glob("loc")>>), Ret("m3")>>), <<>>, <<>>)

(***************************************************************************)
(* The heap: what is allocated for one structure, for several, for a       *)
(* number that is not known, for one that ends in an array, for nobody     *)
(* knows what; a list that main builds and the region changes.             *)
(***************************************************************************)
Flexible == Struct(<<Integer, Array(0, Pointer)>>)

\* Allocates, and makes the second element lead to g and be loaded; ids begin with name.
Using(name, alloc, ty, idx) ==
  LET n(s) == name \o s
  IN <<alloc, Cast(n("c"), Byte, V(name), ty), Gep(n("1"), ty, V(n("c")), idx), StoreTo(n("2"), g, V(n("1"))),
       LoadOf(n("3"), V(n("1"))), StoreTo(n("4"), Const(1), V(n("3")))>>

Heap ==
  Module(
    Main(<<LoadOf("i", g)>>
         \o Using("a", CallOf("a", "malloc", <<Const(TypeSize(Node))>>), Node, <<Zero, Const(1)>>)
         \o Using("b", CallOf("b", "malloc", <<Const(3 * TypeSize(Node))>>), Node, <<Const(2), Const(1)>>)
         \o Using("c", CallOf("c", "malloc", <<V("i")>>), Node, <<V("i"), Const(1)>>)
         \o Using("d", CallOf("d", "malloc", <<V("i")>>), Flexible, <<Zero, Const(1), V("i")>>)
         \o Using("e", CallOf("e", "calloc", <<Const(2), Const(TypeSize(Node))>>), Node, <<Const(1), Const(1)>>)
         \o Using("f", CallOf("f", "calloc", <<V("i"), Const(TypeSize(Node))>>), Node, <<V("i"), Const(1)>>)
         \o Using("h", CallOf("h", "calloc", <<Const(1), Const(TypeSize(Node))>>), Node, <<Zero, Const(1)>>)
         \o Using("j", CallOf("j", "calloc", <<Const(4), Const(8)>>), Node, <<Const(1), Const(1)>>)
         \o Using("k", CallOf("k", "_Znwm", <<Const(TypeSize(Node) + 4)>>), Node, <<Zero, Const(1)>>)
         \o <<CallOf("p", "malloc", <<Const(24)>>), StoreTo("p0", Const(1), g), Gep("p1", Byte, V("p"), <<Const(8)>>),
               StoreTo("p2", Const(2), V("p1")), CallOf("q", "malloc", <<Const(1)>>), StoreTo("q1", Const(3), V("q")), Ret("r")>>),
    <<>>, <<>>)

List ==
  Module(
    Main(<<Alloca("head", Pointer), CallOf("m1", "push", <<Zero>>), CallOf("m2", "push", <<V("m1")>>),
           StoreTo("m3", V("m2"), V("head")), ForkOf("m4", "outlined", <<V("head")>>), Ret("m5")>>),
    ("push" :> Body("push", 1, {1}, <<"e">>,
       [e |-> <<CallOf("e1", "malloc", <<Const(TypeSize(Node))>>), Cast("e2", Byte, V("e1"), Node),
                Gep("e3", Node, V("e2"), <<Zero, Const(1)>>), StoreTo("e4", Arg(1), V("e3")), RetOf("e5", V("e2"))>>]))
    @@ ("outlined" :> Outlined(<<TRUE>>, <<"o">>,
       [o |-> <<LoadOf("o1", Arg(3)), Gep("o2", Node, V("o1"), <<Zero, Const(1)>>), LoadOf("o3", V("o2")),
                Gep("o4", Node, V("o3"), <<Zero, Zero>>), StoreTo("o5", Const(1), V("o4")), Ret("o6")>>])),
    <<>>)

(***************************************************************************)
(* Led: to a function in a table of constants, called twice as deep;  *)
(* in the initializer of a global; chosen from two; returned.              *)
(***************************************************************************)
Config == Struct(<<Integer, Pointer, Array(2, Struct(<<Integer, Pointer>>))>>)

Led ==
  Module(
    Main(<<LoadOf("i", g), Gep("m1", Array(2, Pointer), Glob("table"), <<Zero, V("i")>>), LoadOf("m2", V("m1")),
           CallThrough("m3", V("m2"), <<Glob("t"), Fun("leaf")>>),
           EqualTo("m4", V("i"), 0), I("select", "m5", <<V("m4"), g, V("m3")>>), StoreTo("m6", Const(1), V("m5")),
           LoadOf("m7", GepOf(Config, Glob("cfg"), <<Zero, Const(1)>>)), StoreTo("m8", Const(0), V("m7")),
           Gep("m9", Config, Glob("cfg"), <<Zero, Const(2), V("i"), Const(1)>>), LoadOf("m10", V("m9")),
           StoreTo("m11", Const(2), V("m10")), Ret("m12")>>),
    ("first" :> Body("first", 2, {1, 2}, <<"b">>,
       [b |-> <<CallThrough("b1", Arg(2), <<Arg(1)>>), RetOf("b2", V("b1"))>>]))
    @@ ("leaf" :> Body("leaf", 1, {1}, <<"l">>,
       [l |-> <<Gep("l1", Record, Arg(1), <<Zero, Const(2), Const(1)>>), StoreTo("l2", g, V("l1")), RetOf("l3", V("l1"))>>]))
    @@ ("other" :> Body("other", 0, {}, <<"o">>, [o |-> <<StoreTo("o1", Const(3), Glob("t")), Ret("o2")>>])),
    ("t" :> Typed(Record))
    @@ ("table" :> [ty |-> Array(2, Pointer), initializer |-> <<"agg", <<Fun("first"), Fun("other")>>>>,
                    constant |-> TRUE, common |-> FALSE, threadLocal |-> FALSE])
    @@ ("cfg" :> [Typed(Config) EXCEPT !.initializer =
          <<"agg", <<Const(3), g, <<"agg", <<<<"agg", <<Const(1), GepOf(Record, Glob("t"), <<Zero, Const(2), Const(1)>>)>>>>,
                                             Zero>>>>>>>>]))

(***************************************************************************)
(* What a thread has of its own: a variable that it gives to a function    *)
(* with another one; an array of a size that is not known, and a step back *)
(* in it.                                                                  *)
(***************************************************************************)
Private ==
  Module(
    Main(<<StoreTo("m0", Const(1), g), ForkOf("m1", "outlined", <<>>), Ret("m2")>>),
    ("outlined" :> Outlined(<<>>, <<"e">>,
       [e |-> <<Alloca("x", Integer), CallOf("e1", "helper", <<V("x")>>), LoadOf("e2", V("x")), StoreTo("e3", V("e2"), g),
                Ret("e4")>>]))
    @@ ("helper" :> Body("helper", 1, {1}, <<"h">>,
       [h |-> <<Alloca("y", Pointer), StoreTo("h1", Arg(1), V("y")), LoadOf("h2", V("y")), StoreTo("h3", Const(2), V("h2")),
                Ret("h4")>>])),
    <<>>)

Table == Struct(<<Array(3, Integer), Integer, Array(2, Struct(<<Byte, Array(2, Pointer)>>)), Pointer>>)

Sized ==
  Module(
    Main(<<LoadOf("i", Glob("n")), I("alloca", "vla", <<V("i")>>) @@ [ty |-> Integer],
           I("alloca", "two", <<Const(2)>>) @@ [ty |-> Node],
           Gep("m1", Integer, V("vla"), <<V("i")>>), StoreTo("m2", Const(1), V("m1")),
           Gep("m3", Integer, V("m1"), <<Const(-1)>>), StoreTo("m4", Const(1), V("m3")),
           Gep("m5", Node, V("two"), <<Const(1), Const(1)>>), StoreTo("m6", g, V("m5")),
           Alloca("table", Table), Gep("t1", Table, V("table"), <<Zero, Const(3)>>), StoreTo("t2", g, V("t1")),
           Gep("t3", Table, V("table"), <<Zero, Const(2), Const(1), Const(1), Const(1)>>), StoreTo("t4", V("two"), V("t3")),
           StoreTo("m7", V("i"), Glob("n")),
           Ret("m8")>>),
    <<>>, "n" :> Initialized(Const(2)))

MCSources ==
  [guardedDiamond |-> GuardedDiamond, guardedTwice |-> GuardedTwice, guardedReturn |-> GuardedReturn,
   guardedAgain |-> GuardedAgain, teams |-> TeamsRegion, threadLocal |-> GivenThreadLocal, flush |-> Flush,
   lastprivate |-> Lastprivate, reduction |-> Reduction("reduce"), reductionNowait |-> Reduction("reduce_nowait"),
   constants |-> Constants, recursion |-> Recursion, special |-> Special,
   addresses |-> Addresses, copying |-> Copying,
   regions |-> Regions(<<StoreTo("m3", Const(2), g)>>), regionFirst |-> RegionFirst,
   heap |-> Heap, list |-> List, pointers |-> Led, private |-> Private, sized |-> Sized]

AdjacentRegions == [adjacent |-> Regions(<<>>)]

NestedGuards == [guardedTwice |-> GuardedTwice, guardedAgain |-> GuardedAgain]
=============================================================================
