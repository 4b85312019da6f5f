-------------------------- MODULE FunctionSummary --------------------------
(***************************************************************************)
(* What the trace is built from: the instructions of a function that       *)
(* matter, and the joins that a parallel region implies (generateFunction- *)
(* Summary, IR/Builder.cpp).                                               *)
(***************************************************************************)
EXTENDS Bitcode

\* The calls that are recognised, and what becomes of them.
Recognised ==
  [pthread_create |-> "PthreadCreate", pthread_join |-> "PthreadJoin",
   pthread_mutex_lock |-> "PthreadMutexLock", pthread_mutex_unlock |-> "PthreadMutexUnlock",
   pthread_spin_lock |-> "PthreadSpinLock", pthread_spin_unlock |-> "PthreadSpinUnlock",
   for_static_init |-> "OpenMPForInit", for_static_fini |-> "OpenMPForFini",
   dispatch_init |-> "OpenMPDispatchInit", dispatch_next |-> "OpenMPDispatchNext",
   dispatch_fini |-> "OpenMPDispatchFini",
   single |-> "OpenMPSingleStart", end_single |-> "OpenMPSingleEnd",
   master |-> "OpenMPMasterStart", end_master |-> "OpenMPMasterEnd",
   barrier |-> "OpenMPBarrier",
   reduce |-> "OpenMPReduce", reduce_nowait |-> "OpenMPReduce",
   critical |-> "OpenMPCriticalStart", end_critical |-> "OpenMPCriticalEnd",
   omp_set_lock |-> "OpenMPSetLock", omp_unset_lock |-> "OpenMPUnsetLock",
   omp_set_nest_lock |-> "OpenMPSetLock", omp_unset_nest_lock |-> "OpenMPUnsetLock",
   omp_task |-> "OpenMPTaskFork", omp_taskwait |-> "OpenMPTaskWait",
   omp_get_thread_num |-> "OpenMPGetThreadNum",
   omp_get_thread_num_guard_start |-> "OpenMPGetThreadNumGuardStart",
   omp_get_thread_num_guard_end |-> "OpenMPGetThreadNumGuardEnd",
   ordered |-> "OpenMPOrderedStart", end_ordered |-> "OpenMPOrderedEnd"]

NoEffect == {"push_num_threads", "global_thread_num", "copyprivate", "push_num_teams",
             "end_reduce", "end_reduce_nowait", "task_alloc"}

Intrinsic == {"memcpy", "dbg", "lifetime", "stacksave", "stackrestore"}

Ignored == Intrinsic \cup {"printf"}

\* Other calls of the runtime, for which there is no model; one in a function ends
\* the analysis with an assertion when the function is summarised.
Unmodelled == {"flush", "taskyield", "taskgroup"}

Unhandled(F) == {i \in InstsOf(F) : IsCall(i) /\ i.callee \in Unmodelled \ NoEffect}

Entry(type, i) == [type |-> type, id |-> i.id, inst |-> i]

\* An access is left out if it is atomic or volatile, or of a thread-local global.
Summarised(mod, i, ptr) ==
  /\ ~IsVolatile(i)
  /\ ~("atomic" \in DOMAIN i)
  /\ ptr[1] = "g" => ~mod.globals[ptr[2]].threadLocal

Access(mod, i) ==
  IF i.op = "load" THEN IF Summarised(mod, i, i.args[1]) THEN <<Entry("Load", i)>> ELSE <<>>
  ELSE IF Summarised(mod, i, i.args[2]) THEN <<Entry("Store", i)>> ELSE <<>>

ForkType(i) == IF i.callee = "fork" THEN "OpenMPFork" ELSE "OpenMPForkTeams"
JoinType(i) == IF i.callee = "fork" THEN "OpenMPJoin" ELSE "OpenMPJoinTeams"

\* A fork and its twin are joined at once.  Without a twin right after it, the
\* region is left out.
Region(i, twin) ==
  IF twin = <<>> THEN <<>>
  ELSE LET t == twin[1]
       IN <<Entry(ForkType(i), i), Entry(ForkType(t), t), Entry(JoinType(i), i), Entry(JoinType(t), t)>>

\* Calls without effect stay in the summary, as calls of functions without a body.
Call(mod, i) ==
  CASE i.callee \in Ignored -> <<>>
    [] i.callee \in DOMAIN Recognised -> <<Entry(Recognised[i.callee], i)>>
    [] OTHER -> <<Entry("CallIR", i)>>

\* The twin is passed over.
RECURSIVE SummariseBlock(_, _)
SummariseBlock(mod, code) ==
  LET i == Head(code)
      isTwin == Len(code) > 1 /\ IsFork(code[2]) /\ code[2].callee = i.callee
      twin == IF isTwin THEN <<code[2]>> ELSE <<>>
      rest == SubSeq(code, 2 + Len(twin), Len(code))
  IN CASE code = <<>> -> <<>>
       [] i.op \in {"load", "store"} -> Access(mod, i) \o SummariseBlock(mod, Tail(code))
       [] IsFork(i) -> Region(i, twin) \o SummariseBlock(mod, rest)
       [] IsCall(i) /\ ~IsFork(i) -> Call(mod, i) \o SummariseBlock(mod, Tail(code))
       [] OTHER -> SummariseBlock(mod, Tail(code))

Summary(mod, f) ==
  LET F == mod.fns[f]
  IN FlattenSeq([n \in DOMAIN F.blocks |->
       IF F.blocks[n] \in DOMAIN F.code THEN SummariseBlock(mod, F.code[F.blocks[n]]) ELSE <<>>])
=============================================================================
