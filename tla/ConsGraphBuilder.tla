-------------------------- MODULE ConsGraphBuilder --------------------------
(***************************************************************************)
(* The call graph and the constraints of a module                          *)
(* (PointerAnalysis/Models/LanguageModel/ConsGraphBuilder.h,               *)
(* PointerAnalysis/Program/CtxModule.h, LanguageModel/RaceModel.cpp), and  *)
(* the points-to sets that are their least solution.                       *)
(*                                                                         *)
(* A call node is <<context, function>>, an edge <<caller, call, callee>>. *)
(* A node of the constraint graph is a pointer, what a function returns,   *)
(* or an object; the model does not ask whether a value is a pointer: a    *)
(* value that is none has no objects.                                      *)
(***************************************************************************)
EXTENDS FSMemModel

VARIABLES memBlockMap,  \* [site -> block]
  callNodes,          \* ctxFunMap
  queue,              \* call nodes to be visited; any order builds the same
  callEdges,
  constraints,
  pts,                \* [node -> objects]
  solved              \* the solver has worked through the constraints

builderVars == <<memBlockMap, callNodes, queue, callEdges, constraints, pts, solved>>

-----------------------------------------------------------------------------
(* Contexts: the last origins and the last call site.                       *)

OriginK == 3

InitialCtx == [origins |-> <<>>, callsite |-> <<>>]
GlobalCtx == [origins |-> <<>>, callsite |-> <<"global">>]

LastOrigins(s) == SubSeq(s, IF Len(s) > OriginK THEN Len(s) - OriginK + 1 ELSE 1, Len(s))

\* Mutant: a region is not an origin.
ContextEvolve_NoOrigin(ctx, i) == [ctx EXCEPT !.callsite = i.id]

ContextEvolve(ctx, i) ==
  [origins |-> IF IsFork(i) THEN LastOrigins(Append(ctx.origins, i.id)) ELSE ctx.origins,
   callsite |-> i.id]

-----------------------------------------------------------------------------
(* Nodes (FSCanonicalizer): casts, GEPs that stay where they are and steps  *)
(* back by a constant are seen through.                                     *)

Seen(i) ==
  \/ i.op = "bitcast"
  \/ i.op = "gep" /\ \A k \in DOMAIN Indices(i) : Indices(i)[k] = Const(0)

StepsBack(i) == i.op = "gep" /\ Len(i.args) = 2 /\ i.args[2][1] = "c" /\ i.args[2][2] < 0

RECURSIVE Canonical(_, _)
Canonical(F, v) ==
  LET through == IF v[1] = "ce" THEN {i \in {v[2]} : Seen(i)}
                 ELSE {i \in InstsOf(F) : v = Res(i.id) /\ (Seen(i) \/ StepsBack(i))}
  IN IF through = {} THEN v ELSE Canonical(F, (CHOOSE i \in through : TRUE).args[1])

\* Arguments are told apart by their function.
PtrNode(ctx, F, v) ==
  LET c == Canonical(F, v)
  IN CASE c[1] \in {"g", "f"} -> <<"ptr", GlobalCtx, c>>
       [] c[1] = "a" -> <<"ptr", ctx, <<"a", F.name, c[2]>>>>
       [] OTHER -> <<"ptr", ctx, c>>

RetNode(ctx, F) == <<"ret", ctx, F.name>>

ObjNode(o) == <<"obj", o>>

-----------------------------------------------------------------------------
(* Constraints <<kind, source, target>>; one for an offset has its GEP.     *)

\* The instructions of a function (initFunction).
ConstraintsOfInst(ctx, F, i) ==
  LET node(v) == PtrNode(ctx, F, v)
      result == node(Res(i.id))
  IN CASE i.op = "alloca" -> {<<"addr_of", <<<<ctx, Res(i.id)>>, 0>>, result>>}
       [] i.op = "ret" /\ i.args # <<>> -> {<<"copy", node(i.args[1]), RetNode(ctx, F)>>}
       [] i.op = "gep" /\ node(i.args[1]) # result -> {<<"offset", node(i.args[1]), result, i>>}
       [] i.op = "load" -> {<<"load", node(i.args[1]), result>>}
       [] i.op = "store" -> {<<"store", node(i.args[1]), node(i.args[2])>>}
       [] i.op = "select" -> {<<"copy", node(i.args[k]), result>> : k \in {2, 3}}
       [] OTHER -> {}

\* A call (processCallSite): memory is allocated where the call is; a region is given
\* its variables behind the numbers of the thread; other functions their arguments.
HeapAllocAPIs == {"malloc", "calloc", "_Zname", "_Znwm"}

Allocates(i) == i.callee \in HeapAllocAPIs

Linked(ctx, F, i, calleeCtx, callee) ==
  LET first == IF IsFork(i) THEN 3 ELSE 1
      actuals == IF i.callee = Indirect THEN Tail(i.args) ELSE i.args
  IN {<<"copy", PtrNode(ctx, F, actuals[k]), PtrNode(calleeCtx, callee, Arg(k))>> :
        k \in first..Min({Len(actuals), callee.params})}
     \cup (IF IsFork(i) THEN {} ELSE {<<"copy", RetNode(calleeCtx, callee), PtrNode(ctx, F, Res(i.id))>>})

ConstraintsOfEdge(mod, e) ==
  LET ctx == e[1][1]
      F == mod.fns[e[1][2]]
      i == e[2]
  IN IF Allocates(i) THEN {<<"addr_of", <<<<ctx, Res(i.id)>>, 0>>, PtrNode(ctx, F, Res(i.id))>>}
     ELSE IF e[3][2] \in DOMAIN mod.fns THEN Linked(ctx, F, i, e[3][1], mod.fns[e[3][2]])
     ELSE {}

\* The memory that a function in a context allocates.
BlocksOf(mod, n) ==
  LET F == mod.fns[n[2]]
      stack == {i \in InstsOf(F) : i.op = "alloca"}
      heap == {i \in InstsOf(F) : IsCall(i) /\ Allocates(i)}
      inst(site) == CHOOSE i \in stack \cup heap : Res(i.id) = site[2]
  IN [site \in {<<n[1], Res(i.id)>> : i \in stack \cup heap} |->
        IF inst(site) \in stack THEN StackBlock(inst(site)) ELSE HeapBlock(F, inst(site))]

-----------------------------------------------------------------------------
BuilderInit ==
  /\ memBlockMap = <<>> /\ callNodes = {} /\ queue = {} /\ callEdges = {}
  /\ constraints = {} /\ pts = <<>> /\ solved = FALSE

BodyConstraints(mod, nodes) ==
  UNION {UNION {ConstraintsOfInst(n[1], mod.fns[n[2]], i) : i \in InstsOf(mod.fns[n[2]])} : n \in nodes}

MergedBlocks(mod, nodes) ==
  FoldSet(LAMBDA n, all : BlocksOf(mod, n) @@ all, memBlockMap, nodes)

\* constructConsGraph, up to the entry.
BuildGlobals(mod) ==
  LET values == {Glob(g) : g \in DOMAIN mod.globals} \cup {Fun(f) : f \in DOMAIN mod.fns}
      globals == [site \in {<<GlobalCtx, v>> : v \in values} |->
                    IF site[2][1] = "f" THEN ScalarBlock ELSE GlobalBlock(mod.globals[site[2][2]])]
      entry == <<InitialCtx, "main">>
  IN /\ callNodes = {}
     /\ callNodes' = {entry} /\ queue' = {entry}
     /\ memBlockMap' = BlocksOf(mod, entry) @@ globals
     /\ constraints' = {<<"addr_of", <<site, 0>>, <<"ptr", GlobalCtx, site[2]>>>> : site \in DOMAIN globals}
                       \cup {<<"addr_of", t[2], ObjNode(t[1])>> : t \in InitialPointers(mod, globals, GlobalCtx)}
                       \cup BodyConstraints(mod, {entry})
     /\ UNCHANGED <<callEdges, pts, solved>>

\* What new edges bring: their targets become nodes, which are expanded where there
\* is a body, and the calls are linked.
AddEdges(mod, edges, rest) ==
  LET new == {e[3] : e \in edges} \ callNodes
      expanded == {n \in new : n[2] \in DOMAIN mod.fns}
  IN /\ callNodes' = callNodes \cup new
     /\ callEdges' = callEdges \cup edges
     /\ queue' = rest \cup expanded
     /\ memBlockMap' = MergedBlocks(mod, expanded)
     /\ constraints' = constraints \cup BodyConstraints(mod, expanded)
                       \cup UNION {ConstraintsOfEdge(mod, e) : e \in edges}

\* interceptFunction: intrinsics are ignored; a region leads to its function.
Intrinsics == {"dbg", "memcpy"}

Redirected(i) == IF IsFork(i) THEN i.args[2][2] ELSE i.callee

CallsIn(mod, n) == {i \in InstsOf(mod.fns[n[2]]) : IsCall(i) /\ i.callee \notin Intrinsics}

VisitCallNode(mod) ==
  /\ \E n \in queue :
       LET direct == {i \in CallsIn(mod, n) : i.callee # Indirect}
       IN AddEdges(mod, {<<n, i, <<ContextEvolve(n[1], i), Redirected(i)>>>> : i \in direct}, queue \ {n})
  /\ UNCHANGED <<pts, solved>>

(***************************************************************************)
(* The solver, as far as its result goes (PartialUpdateSolver has how): a  *)
(* store into a constant does nothing, and a call through a pointer gets   *)
(* the functions with as many arguments that the pointer leads to.         *)
(***************************************************************************)
Of(P, n) == IF n \in DOMAIN P THEN P[n] ELSE {}

Derived(P, c) ==
  CASE c[1] = "addr_of" -> {<<c[3], {c[2]}>>}
    [] c[1] = "copy" -> {<<c[3], Of(P, c[2])>>}
    [] c[1] = "load" -> {<<c[3], Of(P, ObjNode(o))>> : o \in Of(P, c[2])}
    [] c[1] = "store" -> {<<ObjNode(o), Of(P, c[2])>> : o \in {o \in Of(P, c[3]) : ~memBlockMap[o[1]].immutable}}
    [] c[1] = "offset" -> {<<c[3], UNION {IndexObject(memBlockMap, o, c[4]) : o \in Of(P, c[2])}>>}

RECURSIVE Solution(_)
Solution(P) ==
  LET derived == UNION {Derived(P, c) : c \in constraints}
      more == [n \in DOMAIN P \cup {d[1] : d \in derived} |->
                 Of(P, n) \cup UNION {d[2] : d \in {d \in derived : d[1] = n}}]
  IN IF more = P THEN P ELSE Solution(more)

Solve ==
  /\ callNodes # {} /\ queue = {} /\ ~solved
  /\ pts' = Solution(pts)
  /\ solved' = TRUE
  /\ UNCHANGED <<memBlockMap, callNodes, queue, callEdges, constraints>>

\* Mutant: the pointer is counted as an argument.
Compatible_CountsPointer(i, F) == F.params = Len(i.args)

Compatible(i, F) == F.params = Len(i.args) - 1

\* The calls through pointers that lead to something they did not yet lead to.
NewTargets(mod) ==
  LET edges(n) == UNION {{<<n, i, <<ContextEvolve(n[1], i), o[1][2][2]>>>> :
                             o \in {o \in Of(pts, PtrNode(n[1], mod.fns[n[2]], i.args[1])) :
                                      o[1][2][1] = "f" /\ Compatible(i, mod.fns[o[1][2][2]])}} :
                          i \in {i \in CallsIn(mod, n) : i.callee = Indirect}}
  IN UNION {edges(n) : n \in {n \in callNodes : n[2] \in DOMAIN mod.fns}} \ callEdges

UpdateFunPtrs(mod) ==
  /\ solved /\ queue = {} /\ NewTargets(mod) # {}
  /\ AddEdges(mod, NewTargets(mod), {})
  /\ solved' = FALSE
  /\ UNCHANGED pts

Analyze(mod) ==
  \/ BuildGlobals(mod)
  \/ VisitCallNode(mod)
  \/ Solve
  \/ UpdateFunPtrs(mod)

Finished(mod) == solved /\ queue = {} /\ NewTargets(mod) = {}
=============================================================================
