------------------------------ MODULE Frontend ------------------------------
(***************************************************************************)
(* From the program to what is analysed: the passes rewrite it, the        *)
(* pointers of the result are analysed and its functions are summarised;   *)
(* then the program as it was compiled runs, to compare what it does with  *)
(* what the analysis takes it to do.                                       *)
(***************************************************************************)
EXTENDS PreProcessing, FunctionSummary, BitcodeExecution, ConsGraphBuilder

VARIABLE summaries      \* FunctionSummaryBuilder's cache

vars == <<passVars, builderVars, execVars, summaries>>

Init ==
  /\ PassInit
  /\ BuilderInit
  /\ ExecInit(Sources[source])
  /\ summaries = <<>>

Rewriting ==
  /\ Preprocess
  /\ UNCHANGED <<builderVars, execVars, summaries>>

AnalyzePointers ==
  /\ pass = "done" /\ summaries = <<>>
  /\ Analyze(module)
  /\ UNCHANGED <<passVars, execVars, summaries>>

Summarise ==
  /\ pass = "done" /\ summaries = <<>> /\ Finished(module)
  /\ IF \E f \in Functions : Unhandled(module.fns[f]) # {}
     THEN pass' = "crash" /\ UNCHANGED summaries
     ELSE summaries' = [f \in Functions |-> Summary(module, f)] /\ UNCHANGED pass
  /\ UNCHANGED <<source, module, propagation, known, builderVars, execVars>>

Run(p) ==
  /\ summaries # <<>>
  /\ Execute(Sources[source], p)
  /\ UNCHANGED <<passVars, builderVars, summaries>>

Next ==
  \/ Rewriting
  \/ AnalyzePointers
  \/ Summarise
  \/ \E p \in Processes : Run(p)

Spec == Init /\ [][Next]_vars

-----------------------------------------------------------------------------
Analysed == summaries # <<>>

Compiled == Sources[source]

\* The calls that are running.
Calls == UNION {{frames[p][n] : n \in DOMAIN frames[p]} : p \in Processes}

KnownIn(f) == {k \in known : k.fn = f}

(***************************************************************************)
(* What OMPConstantPropPass puts in place of an argument, or of the result *)
(* of an instruction, is what that argument or instruction has in every    *)
(* call of the function, whoever makes it.                                 *)
(***************************************************************************)
ConstantsSound ==
  \A c \in Calls : \A k \in KnownIn(c.fn) :
    LET value == Eval(c, k.value)
    IN IF k.at[1] = "a" THEN c.args[k.at[2]] = value
       ELSE k.at[2] \in DOMAIN c.env => c.env[k.at[2]] = value

(***************************************************************************)
(* Every access that a process is about to make is in the summary of its   *)
(* function, unless it is atomic or thread local, or a load of what is     *)
(* known to be constant: no pass and no recogniser loses one.  A call is   *)
(* there too.                                                              *)
(***************************************************************************)
NextOf(p) == NextInst(Compiled, p)

PlainAccess(i) ==
  i.op \in {"load", "store"} /\ Summarised(Compiled, i, Last(i.args))

SummaryOf(f, id) == {e \in ToSet(summaries[f]) : e.id = id}

AccessesKept ==
  Analysed =>
    \A p \in {p \in Processes : Running(p)} :
      LET f == Top(p).fn
          i == NextOf(p)
      IN /\ PlainAccess(i) =>
              \/ SummaryOf(f, i.id) # {}
              \/ i.op = "load" /\ \E k \in KnownIn(f) : k.at = Res(i.id)
         /\ IsCall(i) /\ i.callee \in Functions => SummaryOf(f, i.id) # {}

(***************************************************************************)
(* The chain of instructions that CanonicalizeGEPPass makes of an address  *)
(* leads where the address led, whatever the variable indices are.         *)
(***************************************************************************)
Replacements(F, v) == {k.value : k \in {k \in KnownIn(F.name) : k.at = v}}

\* The number an index stands for, when the variables have the numbers in index.
Number(F, v, index) ==
  IF v[1] = "c" THEN v[2]
  ELSE IF Replacements(F, v) # {} THEN (CHOOSE c \in Replacements(F, v) : TRUE)[2]
  ELSE index[v]

RECURSIVE Address(_, _, _)
Address(F, v, index) ==
  LET through(i) ==
        LET base == Address(F, i.args[1], index)
        IN IF i.op = "bitcast" THEN base
           ELSE <<base[1], base[2] + ByteOffset(i.ty, [k \in 1..(Len(i.args) - 1) |-> Number(F, i.args[k + 1], index)])>>
      insts == {i \in InstsOf(F) : Res(i.id) = v /\ i.op \in {"gep", "bitcast"}}
  IN CASE v[1] = "ce" -> through(v[2])
       [] Replacements(F, v) # {} -> Address(F, CHOOSE c \in Replacements(F, v) : TRUE, index)
       [] Replacements(F, v) = {} /\ insts # {} -> through(CHOOSE i \in insts : TRUE)
       [] OTHER -> <<v, 0>>

Variables(F) ==
  {v \in UNION {ToSet(Tail(i.args)) : i \in {i \in InstsOf(F) : i.op = "gep"}} : ~IsConstant(v)}

AddressesPreserved ==
  Analysed =>
    \A f \in Functions :
      LET F == Compiled.fns[f]
          G == module.fns[f]
          same == {t \in InstsOf(F) \X InstsOf(G) : t[1].id = t[2].id /\ t[1].op \in {"load", "store"}}
      IN \A index \in [Variables(F) -> 1..2], t \in same :
           Address(F, Last(t[1].args), index) = Address(G, Last(t[2].args), index)

(***************************************************************************)
(* Every parallel and teams region of the program is in the summary as two *)
(* forks of its function followed by their joins, and no two forks of the  *)
(* program share a handle.                                                 *)
(***************************************************************************)
ForksIn(f) == {e \in ToSet(summaries[f]) : e.type \in {"OpenMPFork", "OpenMPForkTeams"}}

AllForks == UNION {ForksIn(f) : f \in DOMAIN summaries}

PairOf(f, i, n) ==
  LET s == summaries[f]
  IN /\ \A k \in {n, n + 1} : s[k].type = ForkType(i) /\ Tail(s[k].inst.args) = Tail(i.args)
     /\ \A k \in {n, n + 1} : s[k + 2].type = JoinType(i) /\ s[k + 2].id = s[k].id
     /\ s[n].id # s[n + 1].id /\ s[n + 1].id = i.id

RegionsPaired ==
  Analysed =>
    /\ \A f \in Functions : \A i \in {i \in InstsOf(module.fns[f]) : IsFork(i)} :
         (\E j \in InstsOf(Compiled.fns[f]) : j.id = i.id) =>
            \E n \in 1..(Len(summaries[f]) - 3) : PairOf(f, i, n)
    /\ \A e, g \in AllForks : e.id # g.id => e.inst.args[1] # g.inst.args[1]

(***************************************************************************)
(* Code between the calls that insertFakeCallForGuardBlocks inserts is run *)
(* by the thread whose number they are given, and by no other.             *)
(***************************************************************************)
GuardsOf(f, b) ==
  IF b \notin DOMAIN module.fns[f].code THEN {}
  ELSE {i.args[1][2] : i \in {i \in ToSet(module.fns[f].code[b]) :
                               IsCall(i) /\ i.callee = "omp_get_thread_num_guard_start"}}

GuardedByThread ==
  Analysed =>
    \A p \in Team : \A n \in DOMAIN frames[p] :
      GuardsOf(frames[p][n].fn, frames[p][n].block) \subseteq {p - 1}

(***************************************************************************)
(* Guards begin and end in turn in a summary, as getRegions (OpenMP-       *)
(* Analysis.cpp) asserts of a trace ("encountered two start types in a     *)
(* row").  A block under checks of two calls of omp_get_thread_num has two *)
(* starts and then two ends.                                               *)
(***************************************************************************)
GuardEntries(f) ==
  SelectSeq(summaries[f], LAMBDA e : e.type \in {"OpenMPGetThreadNumGuardStart", "OpenMPGetThreadNumGuardEnd"})

GuardsAlternate ==
  Analysed =>
    \A f \in Functions : \A n \in 2..Len(GuardEntries(f)) : GuardEntries(f)[n].type # GuardEntries(f)[n - 1].type

(***************************************************************************)
(* When two members of a team are about to access one location, one of     *)
(* them to write, their blocks are not both taken to be of the last        *)
(* iteration, and not both of one reduction: such accesses are not         *)
(* reported, because one member makes them, or one at a time.              *)
(***************************************************************************)
Reductions(F) == {i \in InstsOf(F) : IsCall(i) /\ i.callee \in {"reduce", "reduce_nowait"}}

SwitchAfter(F, reduce) ==
  LET b == CHOOSE b \in DOMAIN F.code : reduce \in ToSet(F.code[b]) IN Last(F.code[b])

Excluded(F, b, c) ==
  \/ {b, c} \subseteq LastprivateBlocks(F)
  \/ \E r \in Reductions(F) : {b, c} \subseteq ReduceBlocks(F, SwitchAfter(F, r))

Accessing(p) == Running(p) /\ PlainAccess(NextOf(p))

Location(p) == Eval(Top(p), Last(NextOf(p).args))

NoRaceExcluded ==
  Analysed =>
    \A p, q \in Team :
      p # q /\ Accessing(p) /\ Accessing(q)
      /\ "store" \in {NextOf(p).op, NextOf(q).op} /\ Top(p).fn = Top(q).fn
      /\ Location(p) = Location(q)
        => ~Excluded(module.fns[Top(p).fn], Top(p).block, Top(q).block)

(***************************************************************************)
(* The rounds of OMPConstantPropPass end: a function that has it begin     *)
(* another round has fewer operands that vary, or fewer instructions, than *)
(* before.                                                                 *)
(***************************************************************************)
Weight(F) ==
  Cardinality(InstsOf(F)) +
  FoldSet(LAMBDA i, n : n + Cardinality({k \in DOMAIN i.args : ~IsConstant(i.args[k])}), 0, InstsOf(F))

PropagationShrinks ==
  [][\A f \in pending \ pending' :
       IF module'.fns[f] = module.fns[f] THEN argPropagated' = argPropagated
       ELSE Weight(module'.fns[f]) < Weight(module.fns[f])]_vars

(***************************************************************************)
(* What a running call is for the pointer analysis: its context, in which  *)
(* a member of the team is one of the two threads that stand for it.       *)
(***************************************************************************)
RECURSIVE ContextOf(_, _)
ContextOf(p, calls) ==
  LET id == Last(calls)
      i == CHOOSE i \in UNION {InstsOf(Compiled.fns[f]) : f \in DOMAIN Compiled.fns} : i.id = id
      thread == IF IsFork(i) /\ p = 1 THEN [i EXCEPT !.id = Suffixed("twin", id)] ELSE i
  IN IF calls = <<>> THEN InitialCtx ELSE ContextEvolve(ContextOf(p, Front(calls)), thread)

\* The site of a location that exists at run time.
SiteOf(root) ==
  IF root[1] = "g" THEN <<GlobalCtx, root>>
  ELSE IF root[1] = "own" THEN <<GlobalCtx, Glob(root[3])>>
  ELSE <<ContextOf(root[2], root[3]), Res(root[4])>>

(***************************************************************************)
(* Every call that runs is a node of the call graph in its context,        *)
(* whether it was made directly, through a pointer or by the runtime.      *)
(***************************************************************************)
CallsKnown ==
  Analysed =>
    \A p \in Processes : \A n \in DOMAIN frames[p] :
      <<ContextOf(p, frames[p][n].calls), frames[p][n].fn>> \in callNodes

(***************************************************************************)
(* Every access that a process is about to make and that is left in the    *)
(* module is to an object in the points-to set of its pointer, in the      *)
(* context of the call: a location that the analysis gives to no object,   *)
(* or to another one, is a race that is not seen.                          *)
(***************************************************************************)
Left(f, id) == {i \in InstsOf(module.fns[f]) : i.id = id}

PointsToSound ==
  Analysed =>
    \A p \in {p \in Processes : Accessing(p)} :
      LET frame == Top(p)
          F == module.fns[frame.fn]
      IN \A i \in Left(frame.fn, NextOf(p).id) :
           LET at == At(Location(p))
               objects == ObjectAt(memBlockMap, SiteOf(at[1]), at[2])
           IN /\ objects # {}
              /\ objects \subseteq Of(pts, PtrNode(ContextOf(p, frame.calls), F, Last(i.args)))

(***************************************************************************)
(* Two members of a team never have one object for their own memory: what  *)
(* a thread has on its stack or allocates is not taken to be shared with   *)
(* the other thread of the region.                                         *)
(***************************************************************************)
OwnRoots(p) == {at[1] : at \in {at \in DOMAIN memory : at[1][1] \in {"stack", "heap"} /\ at[1][2] = p}}

MembersApart ==
  Analysed =>
    \A p, q \in Team : p # q => {SiteOf(r) : r \in OwnRoots(p)} \cap {SiteOf(r) : r \in OwnRoots(q)} = {}

(***************************************************************************)
(* In a block, the objects are the scalars with the elements of an array   *)
(* taken together: an offset where no scalar begins is none, and two       *)
(* offsets are one object exactly if they differ in the indices of arrays  *)
(* only (the model looks at the first MaxOffset bytes).                    *)
(***************************************************************************)
MaxOffset == 100

RECURSIVE FieldPath(_, _)
FieldPath(ty, p) ==
  LET holders == {k \in DOMAIN ty[2] : p \in FieldOffset(ty, k)..(FieldOffset(ty, k) + TypeSize(ty[2][k]) - 1)}
      k == CHOOSE k \in holders : TRUE
  IN IF IsArray(ty) THEN FieldPath(ty[3], p % TypeSize(ty[3]))
     ELSE IF ~IsStruct(ty) THEN IF p = 0 THEN <<0>> ELSE <<>>
     ELSE IF holders = {} \/ FieldPath(ty[2][k], p - FieldOffset(ty, k)) = <<>> THEN <<>>
     ELSE <<k>> \o FieldPath(ty[2][k], p - FieldOffset(ty, k))

FieldsExact ==
  solved /\ summaries = <<>> =>
    \A site \in {s \in DOMAIN memBlockMap : memBlockMap[s].kind = "aggregate"} :
      LET ty == memBlockMap[site].layout.ty
          offsets == 0..(Min({MaxOffset, TypeSize(ty)}) - 1)
          path == [p \in offsets |-> FieldPath(ty, p)]
          object == [p \in offsets |-> ObjectAt(memBlockMap, site, p)]
      IN \A p \in offsets : IF path[p] = <<>> THEN object[p] = {}
                             ELSE object[p] # {} /\ \A q \in offsets : object[p] = object[q] <=> path[p] = path[q]
=============================================================================
