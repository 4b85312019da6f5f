--------------------------- MODULE SamplePrograms ---------------------------
(***************************************************************************)
(* Constructors for the small programs that are model-checked: the IR that *)
(* generateFunctionSummary (IR/Builder.cpp) makes of the calls it knows.   *)
(***************************************************************************)
EXTENDS Naturals, SequencesExt

Load(i, v) == [type |-> "Load", inst |-> i, var |-> v, global |-> TRUE]
Store(i, v) == [type |-> "Store", inst |-> i, var |-> v, global |-> TRUE]

\* A store through a pointer that is a local value of the function.
LocalStore(i, v) == [type |-> "Store", inst |-> i, var |-> v, global |-> FALSE]

\* Accesses to the elements of an array, at an index of the program.
ElementLoad(i, v, x) == Load(i, v) @@ [index |-> x]
ElementStore(i, v, x) == Store(i, v) @@ [index |-> x]

CallOf(i, f) == [type |-> "Call", inst |-> i, callee |-> f]

Create(i, h, f) == [type |-> "PthreadCreate", inst |-> i, handle |-> h, entry |-> f]
PJoin(i, h) == [type |-> "PthreadJoin", inst |-> i, handle |-> h]
Lock(i, l) == [type |-> "PthreadMutexLock", inst |-> i, lock |-> l]
Unlock(i, l) == [type |-> "PthreadMutexUnlock", inst |-> i, lock |-> l]

\* A lock that its owner may take again.
NestLocked(i, e, l, body) ==
  <<[type |-> "OpenMPSetLock", inst |-> i, lock |-> l, nest |-> TRUE]>> \o body \o
  <<[type |-> "OpenMPUnsetLock", inst |-> e, lock |-> l]>>

\* Calls of the OpenMP runtime that are no events of their own are calls of a
\* function that is only declared.
Marker(type, i) == [type |-> type, inst |-> i, callee |-> "ext"]
Barrier(i) == [type |-> "OpenMPBarrier", inst |-> i]
Task(i, f) == [type |-> "OpenMPTaskFork", inst |-> i, handle |-> f, entry |-> f]
TaskWait(i) == Marker("OpenMPTaskWait", i)

\* Parallel and teams regions: the duplicated fork and the implicit joins.
Region(i, f) ==
  <<[type |-> "OpenMPFork", inst |-> i[1], handle |-> i[1], entry |-> f, master |-> TRUE],
    [type |-> "OpenMPFork", inst |-> i[2], handle |-> i[2], entry |-> f, master |-> FALSE],
    [type |-> "OpenMPJoin", inst |-> i[1], handle |-> i[1]],
    [type |-> "OpenMPJoin", inst |-> i[2], handle |-> i[2]]>>

Teams(i, f) ==
  <<[type |-> "OpenMPForkTeams", inst |-> i[1], handle |-> i[1], entry |-> f],
    [type |-> "OpenMPForkTeams", inst |-> i[2], handle |-> i[2], entry |-> f],
    [type |-> "OpenMPJoinTeams", inst |-> i[1], handle |-> i[1]],
    [type |-> "OpenMPJoinTeams", inst |-> i[2], handle |-> i[2]]>>

Critical(i, e, body) ==
  <<[type |-> "OpenMPCriticalStart", inst |-> i, lock |-> "critical"]>> \o body \o
  <<[type |-> "OpenMPCriticalEnd", inst |-> e, lock |-> "critical"]>>

Master(i, e, body) ==
  <<Marker("OpenMPMasterStart", i)>> \o body \o <<Marker("OpenMPMasterEnd", e)>>

Single(i, e, body) ==
  <<Marker("OpenMPSingleStart", i)>> \o body \o <<Marker("OpenMPSingleEnd", e)>>

\* A region guarded by omp_get_thread_num() == tid.
Guarded(tid, i, e, body) ==
  <<Marker("OpenMPGetThreadNumGuardStart", i) @@ [tid |-> tid]>> \o body \o
  <<Marker("OpenMPGetThreadNumGuardEnd", e) @@ [tid |-> tid]>>

\* The code of a basic block that has a name.
InBlock(block, body) == [k \in DOMAIN body |-> body[k] @@ [block |-> block]]

\* A block one member runs: a section, or the copy of a lastprivate variable.
Once(block, i, body) == InBlock(block, <<CallOf(i, "ext")>> \o body)

Reduction(i, block, body) == <<Marker("OpenMPReduce", i)>> \o InBlock(block, body)

\* A loop whose iterations the members of the team share.
For(loop, i, e, body) ==
  <<Marker("OpenMPForInit", i) @@ [loop |-> loop]>> \o body \o
  <<Marker("OpenMPForFini", e) @@ [loop |-> loop]>>

\* Bodies made of up to n different blocks.
Sequences(blocks, n) ==
  {FlattenSeq(s) : s \in {r \in UNION {[1..k -> blocks] : k \in 1..n} :
                            \A i, j \in DOMAIN r : i # j => r[i] # r[j]}}

\* What else is known of a program: the blocks of its sections, lastprivate
\* copies and reductions; thread-local variables; what its pointers point to;
\* the instructions without a source location; the pairs of instructions whose
\* metadata says that they do not alias within a call; and the loops, indices
\* and values of SimpleArrayAnalysis.
Prog(main, bodies) == [main |-> "main", extern |-> {"ext"},
                       body |-> [f \in DOMAIN bodies \cup {"main"} |->
                                   IF f = "main" THEN main ELSE bodies[f]],
                       cases |-> {}, lastprivate |-> {}, reduces |-> <<>>,
                       tls |-> {}, points |-> <<>>, unlocated |-> {}, noalias |-> {},
                       loops |-> <<>>, index |-> <<>>, values |-> <<>>, rests |-> <<>>]
=============================================================================
