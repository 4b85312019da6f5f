--------------------------- MODULE PreProcessing ---------------------------
(***************************************************************************)
(* The passes over the bitcode before the analysis                         *)
(* (PreProcessing/PreProcessing.cpp).  Where a pass depends on the order   *)
(* of pointers it is a choice; "crash" is where a pass uses what is not    *)
(* there.                                                                  *)
(***************************************************************************)
EXTENDS GuardedBlocks, TLC

CONSTANT Sources    \* the programs: [name -> module]

VARIABLES source,      \* the program as it was compiled
  module,              \* what the passes have made of it
  pass,                \* the pass that is next
  work, pending,       \* functions to propagate constants into, this round and now
  argPropagated, changedFunction,
  known                \* the constants that replaced values

passVars == <<source, module, pass, work, pending, argPropagated, changedFunction, known>>

Functions == DOMAIN module.fns

Suffixed(suffix, id) == id \o <<suffix>>

Numbered(id, suffix, n) == id \o <<suffix, ToString(n)>>

-----------------------------------------------------------------------------
(* LoweringMemcpyPass: a copy of a whole object, whose type is seen through *)
(* the casts of its operands, becomes a load and a store of each pointer in *)
(* it; of an array, of its first element.                                   *)

RECURSIVE PointerLeaves(_)
PointerLeaves(ty) ==
  CASE ty = Pointer -> <<<<>>>>
    [] ty[1] = "struct" ->
         FlattenSeq([n \in DOMAIN ty[2] |->
           [k \in DOMAIN PointerLeaves(ty[2][n]) |-> <<Const(n - 1)>> \o PointerLeaves(ty[2][n])[k]]])
    [] ty[1] = "array" ->
         [k \in DOMAIN PointerLeaves(ty[3]) |-> <<Const(0)>> \o PointerLeaves(ty[3])[k]]
    [] OTHER -> <<>>

CastOf(F, v) == {i \in InstsOf(F) : i.op = "bitcast" /\ Res(i.id) = v}

LowerMemCpy(F, call) ==
  LET dst == call.args[1]
      src == call.args[2]
      len == call.args[3]
      lowered(to, from) ==
        FlattenSeq([k \in DOMAIN PointerLeaves(to.ty) |->
          LET idx == <<Const(0)>> \o PointerLeaves(to.ty)[k]
              id(s) == Numbered(call.id, s, k)
          IN <<[op |-> "gep", id |-> id("from"), args |-> <<from.args[1]>> \o idx, ty |-> from.ty],
               [op |-> "gep", id |-> id("to"), args |-> <<to.args[1]>> \o idx, ty |-> to.ty],
               [op |-> "load", id |-> id("load"), args |-> <<Res(id("from"))>>],
               [op |-> "store", id |-> id("store"), args |-> <<Res(id("load")), Res(id("to"))>>]>>])
  IN IF \E to \in CastOf(F, dst), from \in CastOf(F, src) :
          to.ty = from.ty /\ len = Const(TypeSize(to.ty))
     THEN lowered(CHOOSE i \in CastOf(F, dst) : TRUE, CHOOSE i \in CastOf(F, src) : TRUE)
     ELSE <<call>>

LowerMemcpys(F) ==
  Rewrite(F, LAMBDA i : IF IsCall(i) /\ i.callee = "memcpy" THEN LowerMemCpy(F, i) ELSE <<i>>)

-----------------------------------------------------------------------------
(* OMPConstantPropPass, inside a function.                                  *)

Overwritten(g) == StoreUsers(module, Glob(g)) # {}

GlobalConstant(g) ==
  /\ module.globals[g].initializer # None
  /\ ~module.globals[g].common
  /\ module.globals[g].constant \/ ~Overwritten(g)

\* What a value is known to be, given the constants that its operands are.
RECURSIVE ConstantOf(_, _)
ConstantOf(F, v) ==
  LET i == Inst(F, v[2])
      operand(k) == ConstantOf(F, i.args[k])
  IN CASE v[1] # "v" -> IF IsConstant(v) THEN v ELSE None
       [] v[1] = "v" /\ i.op = "load" ->
            IF i.args[1][1] = "g" /\ GlobalConstant(i.args[1][2])
            THEN module.globals[i.args[1][2]].initializer ELSE None
       [] v[1] = "v" /\ i.op \in {"eq", "add"} ->
            IF operand(1)[1] # "c" \/ operand(2)[1] # "c" THEN None
            ELSE IF i.op = "add" THEN Const(operand(1)[2] + operand(2)[2])
            ELSE Const(IF operand(1) = operand(2) THEN 1 ELSE 0)
       [] v[1] = "v" /\ i.op \in {"gep", "bitcast"} ->
            IF \E k \in DOMAIN i.args : operand(k) = None THEN None
            ELSE <<"ce", [i EXCEPT !.args = [k \in DOMAIN @ |-> operand(k)]]>>
       [] OTHER -> None

\* The new function, and the values that became constants.
IntraConstantProp(F) ==
  LET constant == {i \in InstsOf(F) : Users(F, Res(i.id)) # {} /\ ConstantOf(F, Res(i.id)) # None}
      sub == [v \in {Res(i.id) : i \in constant} |-> ConstantOf(F, v)]
  IN [fn |-> Substitute(Erase(F, {i \in constant : ~IsVolatile(i)}), sub),
      consts |-> {<<v, sub[v]>> : v \in DOMAIN sub}]

(* ... and from the calls of a function into it.  An argument is a constant *)
(* if one call passes a constant and the others, if there are any, pass the *)
(* argument on; if there is no call but those, it has no value at all.      *)

Initializes(v) ==
  \E g \in DOMAIN module.globals :
    /\ module.globals[g].initializer # None
    /\ \E s \in Scalars(module.globals[g].ty, module.globals[g].initializer, 0) : s[3] = v

Understood(f) == ~Initializes(Fun(f)) /\ \A i \in UsersIn(module, Fun(f)) : i \in Sites(module, f)

ArgumentsMatch(f) == \A s \in Sites(module, f) : Len(s.args) = module.fns[f].params

\* Mutant: one call that passes a constant is enough.
ConstantArgs_AnySite(f) ==
  {k \in 1..module.fns[f].params :
     \E s \in Sites(module, f) : Actual(s, k) # None /\ IsConstant(Actual(s, k))}

\* The address of a thread-local variable is another one in each thread.
RECURSIVE ThreadDependent(_)
ThreadDependent(v) ==
  CASE v[1] = "g" -> module.globals[v[2]].threadLocal
    [] v[1] = "ce" -> \E k \in DOMAIN v[2].args : ThreadDependent(v[2].args[k])
    [] OTHER -> FALSE

PassesConstant(s, k) ==
  /\ Actual(s, k) # None /\ IsConstant(Actual(s, k))
  /\ ~(IsFork(s) /\ ThreadDependent(Actual(s, k)))

ConstantArgs(f) ==
  {k \in 1..module.fns[f].params :
     LET passed == {s \in Sites(module, f) : Actual(s, k) # Arg(k) \/ s \notin InstsOf(module.fns[f])}
     IN Cardinality(passed) <= 1 /\ \A s \in passed : PassesConstant(s, k)}

ValueOfArg(f, k) ==
  LET constants == {v \in {Actual(s, k) : s \in Sites(module, f)} : IsConstant(v)}
  IN IF constants = {} THEN <<"undef">> ELSE CHOOSE v \in constants : TRUE

\* findUniqueDominatedStoreDef: it is asked of the dominator tree of the callee,
\* where every store of another function counts as dominating.
UniqueStore(v) ==
  LET stores == IF v = None THEN {} ELSE StoreUsers(module, v)
  IN IF Cardinality(stores) = 1 THEN stores ELSE {}

\* The outlined function of a region only reads what its pointers lead to: its
\* loads are of the one constant that was stored there (site is the first use).  An
\* argument that was replaced has no loads left.
LoadedConstants(f, site, replaced) ==
  LET F == module.fns[f]
      reads(k) == IF \E i \in Users(F, Arg(k)) : i.op = "store" THEN {}
                  ELSE {i \in Users(F, Arg(k)) : i.op = "load"}
      stored(k) == {v \in {s.args[1] : s \in UniqueStore(Actual(site, k))} : IsConstant(v)}
  IN IF ~F.outlined THEN {}
     ELSE UNION {reads(k) \X stored(k) : k \in {k \in 3..F.params : F.pointer[k]} \ replaced}

\* Mutant: an argument that nothing uses counts as replaced.
Replaceable_Unused(F, args) == args

Replaceable(F, args) ==
  {k \in args : /\ Users(F, Arg(k)) # {}
                /\ k \notin Params(F, "inalloca")
                /\ k \in Params(F, "byval") => "onlyReadsMemory" \in DOMAIN F}

\* What becomes of a function; nothing where all arguments vary.
PropagateConstantsIntoArguments(f, site) ==
  LET F == module.fns[f]
      args == ConstantArgs(f)
      replaced == Replaceable(F, args)
      loads == LoadedConstants(f, site, replaced)
      sub == [v \in {Arg(k) : k \in replaced} |-> ValueOfArg(f, v[2])]
             @@ [v \in {Res(t[1].id) : t \in loads} |-> (CHOOSE t \in loads : Res(t[1].id) = v)[2]]
  IN IF Sites(module, f) = {} \/ ~Understood(f) \/ ~ArgumentsMatch(f) \/ args = {}
     THEN [fn |-> F, consts |-> {}]
     ELSE [fn |-> Substitute(Erase(F, {t[1] : t \in {t \in loads : ~IsVolatile(t[1])}}), sub),
           consts |-> {<<v, sub[v]>> : v \in DOMAIN sub}]

-----------------------------------------------------------------------------
(* RemoveExceptionHandlerPass, CanonicalizeGEPPass                          *)

\* Mutant: the normal way is cut.
RemoveExceptionHandlers_Normal(F) ==
  LET invokes == {i \in InstsOf(F) : i.op = "invoke"}
      cut == Rewrite(F, LAMBDA i : <<IF i \in invokes THEN [i EXCEPT !.succ = <<@[2], @[2]>>] ELSE i>>)
  IN [cut EXCEPT !.code = [b \in ReachableFrom(cut, {F.blocks[1]}) |-> @[b]]]

RemoveExceptionHandlers(F) ==
  LET invokes == {i \in InstsOf(F) : i.op = "invoke"}
      cut == Rewrite(F, LAMBDA i : <<IF i \in invokes THEN [i EXCEPT !.succ[2] = "cr.unreachable"] ELSE i>>)
      whole == [cut EXCEPT !.code = @ @@ ("cr.unreachable" :> <<[op |-> "unreachable", id |-> <<"u">>, args |-> <<>>]>>)]
      kept == ReachableFrom(whole, {F.blocks[1]})
  IN IF invokes = {} THEN F ELSE [whole EXCEPT !.code = [b \in kept |-> @[b]]]

\* Constant expressions become instructions, from the outside in.
RECURSIVE ExpandNested(_)
ExpandNested(i) ==
  LET nested == {k \in DOMAIN i.args : i.args[k][1] = "ce"}
      k == Min(nested)
      inst == [i.args[k][2] EXCEPT !.id = Numbered(i.id, "expr", k)]
      uses == [i EXCEPT !.args = [n \in DOMAIN @ |-> IF @[n] = @[k] THEN Res(inst.id) ELSE @[n]]]
  IN IF nested = {} THEN <<i>> ELSE ExpandNested(inst) \o ExpandNested(uses)

\* A GEP with a variable index becomes a chain, each variable index in a link of
\* its own; the constant ones are gathered until there is one.
Zero == Const(0)

\* Mutant: of constant indices that follow each other one is kept.
Links_OneConstant(idx) ==
  LET link(n) == IF n > 2 /\ IsConstant(idx[n - 1]) /\ IsConstant(idx[n]) THEN <<>> ELSE <<<<Zero, idx[n]>>>>
  IN (IF idx[1] = Zero THEN <<>> ELSE <<<<idx[1]>>>>)
     \o FlattenSeq([n \in 1..(Len(idx) - 1) |-> link(n + 1)])

Links(idx) ==
  LET runFrom(n) == CHOOSE m \in n..Len(idx) :
                      /\ \A k \in n..m : IsConstant(idx[k])
                      /\ m = Len(idx) \/ ~IsConstant(idx[m + 1])
      link(n) == IF ~IsConstant(idx[n]) THEN <<<<Zero, idx[n]>>>>
                 ELSE IF n > 2 /\ IsConstant(idx[n - 1]) THEN <<>>
                 ELSE <<<<Zero>> \o SubSeq(idx, n, runFrom(n))>>
  IN (IF idx[1] = Zero THEN <<>> ELSE <<<<idx[1]>>>>)
     \o FlattenSeq([n \in 1..(Len(idx) - 1) |-> link(n + 1)])

SplitVariable(gep) ==
  LET links == Links(Tail(gep.args))
      id(k) == Numbered(gep.id, "part", k)
  IN [k \in DOMAIN links |->
        [op |-> "gep", id |-> id(k),
         args |-> <<IF k = 1 THEN gep.args[1] ELSE Res(id(k - 1))>> \o links[k],
         ty |-> FoldLeft(PointeeOf, gep.ty, SubSeq(links, 1, k - 1))]]

SplitVariableGEP(F) ==
  LET split == {i \in InstsOf(F) : i.op = "gep" /\ \E k \in 2..Len(i.args) : ~IsConstant(i.args[k])}
  IN Substitute(Rewrite(F, LAMBDA i : IF i \in split THEN SplitVariable(i) ELSE <<i>>),
                [v \in {Res(i.id) : i \in split} |-> Res(Last(SplitVariable(Inst(F, v[2]))).id)])

Canonicalize(F) == SplitVariableGEP(Rewrite(F, ExpandNested))

-----------------------------------------------------------------------------
(* duplicateOpenMPForks: every fork gets a handle of its own and a twin     *)
(* right before it.  The handle of the fork is made before the instruction  *)
(* that precedes it.                                                        *)

\* Mutant: the twin is made after the fork has got its handle, and shares it.
DuplicateIn_SharedHandle(code) ==
  FoldLeft(LAMBDA out, i : IF ~IsFork(i) THEN Append(out, i)
                           ELSE out \o <<[i EXCEPT !.id = Suffixed("twin", @)], i>>, <<>>, code)

DuplicateIn(code) ==
  LET handle(i, s) == [op |-> "alloca", id |-> Suffixed(s, i.id), args |-> <<>>, ty |-> Integer]
      with(i, s) == [i EXCEPT !.args[1] = Res(Suffixed(s, i.id))]
      twin(i) == [with(i, "twinHandle") EXCEPT !.id = Suffixed("twin", @)]
      step(out, i) ==
        IF ~IsFork(i) THEN Append(out, i)
        ELSE Front(out) \o <<handle(i, "handle"), Last(out), handle(i, "twinHandle"),
                             twin(i), with(i, "handle")>>
  IN FoldLeft(step, <<>>, code)

DuplicateForks(F) == [F EXCEPT !.code = [b \in DOMAIN @ |-> DuplicateIn(@[b])]]

\* A fork that nothing precedes in its block.
NoPlaceForHandle(F) == \E b \in DOMAIN F.code : IsFork(F.code[b][1])

-----------------------------------------------------------------------------
(* insertFakeCallForGuardBlocks                                             *)

ThreadNumCalls(F) == {i \in InstsOf(F) : IsCall(i) /\ i.callee = "omp_get_thread_num"}

\* The branches on a comparison of a call's answer with a constant.
Guards(F) ==
  UNION {UNION {{[call |-> call, branch |-> branch, tid |-> c[2]] : branch \in BranchesOn(F, c[1])} :
                c \in ConstCmpEqs(F, Res(call.id))} : call \in ThreadNumCalls(F)}

GuardBlocks(F, guard) == GetGuardedBlocks(F, guard.branch, TRUE)

\* The calls are met in their order; the guards of one, in any.
Place(F, i) ==
  LET b == CHOOSE b \in DOMAIN F.code : i \in ToSet(F.code[b])
  IN <<CHOOSE n \in DOMAIN F.blocks : F.blocks[n] = b, CHOOSE k \in DOMAIN F.code[b] : F.code[b][k] = i>>

Before(F, i, j) ==
  LET m == Place(F, i)
      n == Place(F, j)
  IN m[1] < n[1] \/ (m[1] = n[1] /\ m[2] < n[2])

GuardOrders(F) ==
  {order \in SetToSeqs(Guards(F)) :
     \A m, n \in DOMAIN order : Before(F, order[m].call, order[n].call) => m < n}

GuardCall(id, name, tid) ==
  [op |-> "call", id |-> Append(id, name), args |-> <<Const(tid)>>, callee |-> name]

\* Around all but the return or the branch at the end of a block.
GuardBlock(id, code, tid) ==
  LET ends == {k \in DOMAIN code : code[k].op \notin {"ret", "br", "cond"}}
      last == IF ends = {} THEN 0 ELSE Max(ends)
  IN <<GuardCall(id, "omp_get_thread_num_guard_start", tid)>> \o SubSeq(code, 1, last)
     \o <<GuardCall(id, "omp_get_thread_num_guard_end", tid)>> \o SubSeq(code, last + 1, Len(code))

\* Each call keeps the blocks of the first of its guards, and is another guard around
\* them; a block has the number of the last guard that it was found to have.
InsertGuards(F, order) ==
  LET firstOf(n) == \A m \in 1..(n - 1) : order[m].call # order[n].call
      guarding(b) == {n \in DOMAIN order : b \in GuardBlocks(F, order[n])}
      tid(b) == order[Max(guarding(b))].tid
  IN [F EXCEPT !.code = [b \in DOMAIN @ |->
       FoldSet(LAMBDA n, code : GuardBlock(<<b, ToString(n)>>, code, tid(b)),
               @[b], {n \in guarding(b) : firstOf(n)})]]

-----------------------------------------------------------------------------
Transform(Op(_)) == module' = [module EXCEPT !.fns = [f \in Functions |-> Op(@[f])]]

propagation == <<work, pending, argPropagated, changedFunction>>

LowerMemcpy ==
  /\ pass = "memcpy"
  /\ Transform(LowerMemcpys)
  /\ pass' = "fold"
  /\ UNCHANGED <<source, propagation, known>>

\* Folds functions, and says whether that changed any.
Fold(fs) ==
  LET folded == [f \in fs |-> IntraConstantProp(module.fns[f])]
      names(f) == {[fn |-> f, at |-> t[1], value |-> t[2]] : t \in folded[f].consts}
  IN /\ module' = [module EXCEPT !.fns = [f \in Functions |-> IF f \in fs THEN folded[f].fn ELSE @[f]]]
     /\ known' = known \cup UNION {names(f) : f \in fs}

\* The functions with calls that are understood, of which arguments are then
\* propagated into: callers, where the callees may be meant.
Callees(f) ==
  {i.callee : i \in {i \in InstsOf(module.fns[f]) : IsCall(i) /\ (i.callee \in Functions => Understood(i.callee))}}
  \cup {g \in Functions : Understood(g) /\ \E i \in InstsOf(module.fns[f]) : IsFork(i) /\ i \in Sites(module, g)}

FoldFunctions ==
  /\ pass = "fold"
  /\ Fold(Functions)
  /\ work' = {f \in Functions : Callees(f) # {}}
  /\ argPropagated' = TRUE
  /\ pass' = "arguments"
  /\ UNCHANGED <<source, pending, changedFunction>>

StartRound ==
  /\ pass = "arguments" /\ pending = {} /\ argPropagated
  /\ argPropagated' = FALSE
  /\ pending' = work
  /\ UNCHANGED <<source, module, pass, work, changedFunction, known>>

PropagateArguments(f) ==
  /\ pass = "arguments" /\ f \in pending
  /\ pending' = pending \ {f}
  /\ \E site \in Sites(module, f) \cup (IF Sites(module, f) = {} THEN {None} ELSE {}) :
       LET new == PropagateConstantsIntoArguments(f, site)
           made == new.consts # {}
       IN /\ module' = [module EXCEPT !.fns[f] = new.fn]
          /\ known' = known \cup {[fn |-> f, at |-> t[1], value |-> t[2]] :
                                  t \in {t \in new.consts : t[2] # <<"undef">>}}
          /\ argPropagated' = (argPropagated \/ made)
          /\ changedFunction' = IF made THEN changedFunction \cup {f} ELSE changedFunction
  /\ UNCHANGED <<source, pass, work>>

\* After another change the rounds would have to begin again; as argPropagated is
\* not set, they never do.
FoldChanged ==
  /\ pass = "arguments" /\ pending = {} /\ ~argPropagated
  /\ Fold(changedFunction)
  /\ LET further == {f \in changedFunction : module'.fns[f] # module.fns[f]}
     IN /\ work' = UNION {Callees(f) \cap Functions : f \in further}
        /\ pass' = IF further = {} THEN "handlers" ELSE pass
  /\ changedFunction' = {}
  /\ UNCHANGED <<source, pending, argPropagated>>

RemoveHandlers ==
  /\ pass = "handlers"
  /\ Transform(RemoveExceptionHandlers)
  /\ pass' = "geps"
  /\ UNCHANGED <<source, propagation, known>>

CanonicalizeGEPs ==
  /\ pass = "geps"
  /\ Transform(Canonicalize)
  /\ pass' = "forks"
  /\ UNCHANGED <<source, propagation, known>>

DuplicateOpenMPForks ==
  /\ pass = "forks"
  /\ IF \E f \in Functions : NoPlaceForHandle(module.fns[f])
     THEN pass' = "crash" /\ UNCHANGED module
     ELSE Transform(DuplicateForks) /\ pass' = "guards"
  /\ UNCHANGED <<source, propagation, known>>

InsertFakeCalls ==
  /\ pass = "guards"
  /\ IF \E f \in Functions : \E g \in Guards(module.fns[f]) : ~TargetOK(module.fns[f], g.branch, TRUE)
     THEN pass' = "crash" /\ UNCHANGED module
     ELSE /\ \E order \in [Functions -> UNION {GuardOrders(module.fns[f]) : f \in Functions}] :
               /\ \A f \in Functions : order[f] \in GuardOrders(module.fns[f])
               /\ module' = [module EXCEPT !.fns = [f \in Functions |-> InsertGuards(@[f], order[f])]]
          /\ pass' = "done"
  /\ UNCHANGED <<source, propagation, known>>

PassInit ==
  /\ source \in DOMAIN Sources
  /\ module = Sources[source]
  /\ pass = "memcpy"
  /\ work = {} /\ pending = {} /\ changedFunction = {} /\ known = {}
  /\ argPropagated = FALSE

Preprocess ==
  \/ LowerMemcpy
  \/ FoldFunctions
  \/ StartRound
  \/ \E f \in pending : PropagateArguments(f)
  \/ FoldChanged
  \/ RemoveHandlers
  \/ CanonicalizeGEPs
  \/ DuplicateOpenMPForks
  \/ InsertFakeCalls
=============================================================================
