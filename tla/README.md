# OpenRace in TLA+

OpenRace reads the LLVM bitcode of a C or C++ program that uses OpenMP or
pthreads and reports the data races it finds, without running the program. This
directory holds TLA+ models of the parts of OpenRace that decide *what is
reported* (the passes over the bitcode, the pointer analysis from its memory
model to its solver, the summaries of functions, the trace, the happens-before
graph, lock sets, the filters of the race detection and the report), their
model-checking configurations, and machine-checked proofs about the trace, the
happens-before graph, their composition in the race detection, and the solver,
which is proved to implement its abstract specification.

The analysis itself is a sequential program. What makes it hard is that it
reasons about concurrency with one linear pass over the code: the order in which
it visits the program is not the order in which the program runs, several passes
share mutable state (the OpenMP runtime model, the event info, the map of last
barriers), and the result must hold for all interleavings of the analysed
program. So the project checks four kinds of things:

* the algorithms against reference definitions (`HappensBeforeGraph`,
  `TraceBuilder`, `LockSet`);
* the worklist solver of the pointer analysis as an implementation of what any
  points-to analysis promises (`PartialUpdateSolver` refines `PointsTo`);
* the report against the *running* analysed program, in every interleaving
  (`RaceDetect` composed with `ProgramExecution`);
* the rewritten bitcode, its points-to sets and its summaries against the
  *running* compiled program, instruction by instruction (`Frontend` composed
  with `BitcodeExecution`).

## 1. Inventory

| Component (under `src/src`) | State | Operations | Correct when |
|---|---|---|---|
| `RaceDetect.cpp` driver | shared objects, report | `detectRaces`, `checkRace` | every possible race of the program is reported |
| `Trace/Build/TraceBuilder`, `Trace/ThreadTrace`, `Trace/ProgramTrace` | call stack, event info, `inParallel`, `skipUntil`, list of threads | `buildTrace`, `isRecursiveThreadSpawn`, `shouldSkipIR`, thread construction, flattening | traces are finite, calls balance, forks and threads correspond, ids are positions |
| `Trace/Build/OpenMPRuntime` | `inTeamsregion`, `inSingleRegion`, `masterRegions`, `currentMasterStart`, `unjoinedTasks`: one object for all threads | `preVisit`, `preFork`, `postFork` | team members agree, tasks are joined once and after their fork, regions are left |
| `Trace/Event*` | thread, context, IR of an event | getters | an event has the context of the code that makes it |
| `Analysis/HappensBeforeGraph` | `syncEdges`, `threadSyncs`, `syncReachable`, `lastBarrier` | construction, `getCorrespondingFork`, `canReach`, `areParallel` | an order is claimed exactly when the program keeps it |
| `Analysis/LockSet` | cache of lock multisets | `heldLocks`, `sharesLock` | the locks held at an access |
| `Analysis/SharedMemory` | readers and writers per object | construction, `getSharedObjects` | no object that two threads access, one writing, is left out |
| `Analysis/OpenMPAnalysis`, `Analysis/OpenMP` | none (FunctionAnalysisManager) | regions, `inSameTeam`, `insideCompatibleSections`, reductions, lastprivate, guards | only pairs that cannot race are filtered |
| `Analysis/SimpleArrayAnalysis` | none | `canIndexOverlap`, loop bounds | disjoint only if indices are |
| `Analysis/SimpleAlias`, `Analysis/ThreadLocalAnalysis` | cache | `mustNotAlias`, `isThreadLocalAccess` | only pairs that cannot race are filtered |
| `IR`, `LanguageModel` | none | `generateFunctionSummary`, name predicates | calls become the right IR |
| `PointerAnalysis/Solver`, `Graph` | constraint graph, points-to sets, worklists | `runSolver`, `processCopySCC`, `resolveFunPtrs` | the least solution of the constraints |
| `PointerAnalysis/Context` | interned contexts | `contextEvolve` | bounded, deterministic |
| `PointerAnalysis/Models`, `Program`, `Util` | memory blocks, layouts | building of constraints | covers the instructions |
| `PreProcessing` | none (rewrites bitcode) | passes | the program keeps its meaning |
| `Reporter` | set of races | `collect`, `computeCallstack`, JSON | each race once, with its call stacks |
| `Statistics`, `Demangler`, `Logging`, `main.cpp` | counters | output | - |

How they interact. `detectRaces` runs everything in one thread:
preprocessing, then the pointer analysis and the trace (`ProgramTrace`'s
constructor), then the analyses of the finished trace. `buildTrace` calls the
runtime models back (`preVisit`, `preFork`, `postFork`) around every IR and
every fork; building a fork builds the whole child thread before the parent
goes on, so the shared state of the runtime model is seen by *all* threads in
depth-first order. The graph's constructor and all later analyses only read the
trace. `checkRace` asks the graph and the lock sets and then the filters
(thread-local memory, aliases, and for two events of one parallel region array
indices, single regions, reductions, sections, guards and lastprivate copies)
about a pair of events; what none of them drops goes to the report. The passes
change the module in place, one after the other; the pointer analysis builds its
call graph while it finds constraints, and the solver calls it back when a
function pointer has new targets. `getFunctionSummary` reads what the passes
left: two forks side by side are a region, calls to the guard functions are
guards.

The hard behaviours, and where they bite, are the `hazards` of `PROJECT.json`.
The largest classes: state shared by threads that are traced one after the
other but run at the same time; matching of joins, barriers and tasks by handle
or instruction; boundaries of the queries; state that is not restored after a
call or a fork; cut-off of recursion.

## 2. Modules

| Module | Models | Role |
|---|---|---|
| `TraceBuilder` | `TraceBuilder.cpp`, `ThreadTrace.cpp`, `ProgramTrace.cpp`, `OpenMPRuntime.cpp`, contexts | state machine |
| `TraceBuilder_proofs` | - | its types, the form of a finished trace, the order of threads, origins and calls |
| `TraceBuilder_runtime` | - | the tasks and regions of the runtime model |
| `TraceBuilder_twins` | - | the two threads of a parallel region run the same code |
| `HappensBeforeGraph` | `HappensBeforeGraph.cpp` | state machine and queries |
| `HappensBeforeGraph_proofs` | - | theorems about it |
| `LockSet` | `LockSet.cpp` | functions of the trace |
| `OpenMPAnalysis` | `OpenMPAnalysis.cpp` | functions of the trace |
| `SimpleArrayAnalysis` | `SimpleArrayAnalysis.cpp` | functions of the trace and of the indices in it |
| `Reporter` | `Reporter.cpp`, `Reporter.h` | functions of the trace |
| `RaceDetect` | `RaceDetect.cpp`, `SharedMemory.cpp`, `ThreadLocalAnalysis.cpp`, `SimpleAlias.cpp` | composes all of these with `INSTANCE`, then runs the program |
| `RaceDetect_proofs` | - | the trace and the graph in the composition, the report |
| `ProgramExecution` | external: the analysed program, pthreads and the OpenMP runtime | state machine |
| `SamplePrograms` | `IR/Builder.cpp` | constructors of IR for the checked programs |
| `PointerConstraints` | nodes and constraints; what a constraint means | definitions shared by the next three |
| `PointsTo` | - | abstract specification of a points-to analysis |
| `ConstraintGraph` | `ConstraintGraph.h`, `CGNodeBase.h`, `SCCIterator.h`, `process*` of `SolverBase.h` | graph and operations on it |
| `PartialUpdateSolver` | `PartialUpdateSolver.h`, indirect calls of `ConsGraphBuilder.h` | state machine, refines `PointsTo` |
| `PartialUpdateSolver_proofs` | - | the solver invents nothing, forgets nothing and implements `PointsTo`; its types; the least solution |
| `Bitcode` | external: modules, functions, blocks, instructions and types of LLVM | vocabulary of the next eight |
| `GuardedBlocks` | `OpenMP.cpp`, block analyses of `OpenMPAnalysis.cpp` | functions of a function's blocks |
| `PreProcessing` | the passes of `PreProcessing/` | state machine, one action per pass or round |
| `FunctionSummary` | `IR/Builder.cpp` | function of a module |
| `MemLayout` | `Layout/*`, types of `Util/Util.cpp` | functions of types |
| `FSMemModel` | `FSMemModel.h`, `MemBlock.h`, `DefaultHeapModel.cpp` | functions of blocks and objects |
| `ConsGraphBuilder` | `ConsGraphBuilder.h`, `CtxModule.h`, `RaceModel.cpp`, `Canonicalizer.cpp`, `PtrNodeManager.h` | state machine |
| `BitcodeExecution` | external: the compiled program, its memory and one team | state machine |
| `Frontend` | `preprocess`, `getFunctionSummary`, `constructConsGraph` | composes the eight, then runs the program |
| `MCTraceBuilder`, `MCHappensBeforeGraph`, `MCRaceDetect`, `MCPartialUpdateSolver`, `MCFrontend` | - | finite sets of programs, traces and constraint graphs |

**TraceBuilder.** The recursion of `buildTrace` is `stack`, one frame per
activation; a call pushes a frame of the same thread, a fork a frame of the new
thread. An action is one turn of the loop over a summary: the checks before it
(`shouldSkipIR`, the serial part, `preVisit`) are the predicates `Skipping`,
`Serial`, `SkippedInTeams`, `SkippedTask`, `SkippedMaster`, in the code's order,
and `PreVisit` is what the runtime model changes. `threads[t].einfo` is
`state.einfo`: the shared event info that is replaced on entry of a function and
never restored. A failing assertion of the runtime model, and the exception of
`masterRegions.at`, are the action `Abort`. Data is abstract: an instruction, a
handle and a lock is a name; a context is the spawn sites remembered (three, the
`k` of `KOrigin`) and the last call site.

**HappensBeforeGraph.** `Construct` to `StartSearch` are the loop over events
with one action per case of its `switch`; `PickSource`, `Expand`, `FinishSource`
are the worklist search, one action per turn of the `while` loop, duplicates in
the worklist included. `getCorrespondingFork` is a list of alternatives
(`ForkByHandle`, `NearestFork`); optional values are sets of at most one
element. LLVM's use lists are the constants `LoadPointer`, `StorePointers`,
`PhiIncoming`. Where the loop over a phi node does not end the action
`JoinSpins` stutters.

**RaceDetect.** Builds the trace, builds the graph, asks the filters about every
pair in the order of `checkRace`, reports what is left, then lets
`ProgramExecution` run the same program in every interleaving. `AccessedMemory` stands for the points-to set of
an access: a global is known in every context, a local pointer only in a
context in which the pointer analysis analysed its function.

**OpenMPAnalysis.** Everything is read off the trace: two threads are of one
region if their forks are at distance one (`FromSameParallelRegion`), regions are
paired starts and ends (`Regions`), a task without regions is where it was
created (`ContainingRegion`), and the n-th single region of one member is the
n-th of the other (`RegionID`). Blocks guarded by a branch (reductions,
lastprivate, sections) are blocks the program names; how the code finds them is
`GuardedBlocks`. `SectionVerdict` has the walk of `insideCompatibleSections`
with its two oddities: the event of the other thread is looked up in the first
thread, and a walk that does not find both events runs off the trace, which is
"undefined" and may end the detection.

**SimpleArrayAnalysis.** An access carries the operands of its GEPs and what
scalar evolution says of its address: `step` per iteration of the shared loop,
`inner` per iteration of a loop in it, a constant, and a rest that it knows
nothing of. The names LLVM gave the values (`Indvars`, `Idxprom`,
`StoreMerge`) are kinds; from them the code guesses the induction variable
(`computeIdxName`, `ArrayAccess` with collapsed loops). `CanIndexOverlap` puts
the two halves together in the order of the code; `optional::value()` of a loop
index that is not there throws.

**Reporter.** A race is an ordered pair of instructions, a report a set of them;
races without a location are left out. `ComputeCallstack` replays calls and
returns up to an event, through the forks above its thread.

**ProgramExecution** is what the analysis must be right about: processes
(threads, team members, tasks) with a program counter, created, joined, waiting
at barriers, running single and master regions and taking locks. Instructions
have no data but loop iterations, so every path of a function body is its only path. A parallel
region runs with two members, as the analysis models it. A barrier waits for
the members of the team that are running, and for the tasks bound to the
region. It is external: taken from how the source uses the calls, and mapped
as such.

**ConstraintGraph and PartialUpdateSolver.** A node is a pointer, an object, or
the anonymous pointer of an object, `Anon(o)`, the node whose id follows the
object's. `edges` is `succCons` and `predCons`, `superOf` is `getSuperNode()`
with the chain followed, `pts` the points-to sets, merged and cleared when a
cycle is collapsed. A bit that is *not set* in a worklist of the code means "to
do": `copyWork`, `lsWork` and `target` hold those nodes. `required` is
`requiredEdge` without hash collisions, which only cause extra work.

A round is `FindComponents` (the stack of components is filled before any is
handled), then one `ProcessNode` or `ProcessCycle` per component, then
`ProcessComplexEdges`. The order in which Tarjan's iterator delivers components
depends on the order of roots and successors; the model allows every topological
order, and any node of a cycle as its front. The loop over load, store, offset
and special edges only adds edges and nodes and reads points-to sets that it does
not change, so the order of its turns is not visible and it is one action.
`ResolveCalls` is `resolveFunPtrs` with the call back: `SeenByCallBack` is its
`switch`. When more functions are found than `Max_Indirect_Target` allows, any of
them may be kept.

A program is a set of constraints and, for each call site and function, the
constraints that resolving the call adds: parameters, return value and the body
of the callee. A field access is a function from objects to field objects, the
field of a field and the contents of `AggregateMemBlock` are left out;
`std::vector` is the special object that is modelled, virtual tables are not.
The results of field accesses and of vector operations have no other incoming
copies, because their nodes are LLVM instructions with one definition each; so
they are never collapsed, as `handledGEPMap` and `processSpecial` require. What
`push_back` pushes is a node of its own, loaded right before
(`LoadsWhatItPushes`).

**PreProcessing, GuardedBlocks, FunctionSummary.** A module is a record of
functions and globals; a function has blocks of instructions; an instruction has
an opcode, an id and operands (`Bitcode`). Each pass is one action, constant
propagation one per phase and per function of a round, because its order depends
on pointers (`PropagateArguments(f)` takes any pending function). `known`
collects which values were replaced by what, so that the running program can be
asked whether it was right. Where a pass uses what is not there (`getPrevNode` of
the first instruction, `back()` of an empty worklist) the pass is "crash", and so it is
where a summary meets an OpenMP call that the source does not handle (`Unhandled`).

**MemLayout, FSMemModel.** A layout collapses the elements of an array to one:
`LayoutOf` builds it type by type as `MemLayoutManager` does, `Between` is
`indexBetweenArrays`, which turns an offset in memory into one in the layout and
into the same place of the first element. An object is a site and that place.
`IndexObject` is what a GEP makes of an object: with constants an offset, after a
filter on types; with a variable the same object, if `ArrayExistsAt` finds an
array with that step. Heap blocks get a type from the next cast and the size.

**ConsGraphBuilder.** `VisitCallNode` takes a node of the call graph from the
queue (any: the graph does not depend on it), links its calls and expands new
callees. `Solve` is the least solution that the solver is checked to reach, and
`UpdateFunPtrs` brings the targets of function pointers, until `Finished`.
Contexts are the hybrid ones: last origins, and last call site.

**Frontend.** `Rewriting` until the passes are done, `AnalyzePointers`,
`Summarise`, and then the program *as it was compiled* runs on
`BitcodeExecution`: main, then a region with two members, with memory addressed
by root and offset. Invariants compare the two.

**PointsTo** is the promise: points-to sets grow within the least solution of
the constraints known (soundness of every entry), callees join only if a call
site can reach them, and the analysis is finished only with a solution
(completeness). The refinement maps `sol[n]` to the points-to set of the super
node of `n`, which is what `getPointsTo` gives a client.

## 3. Runs

`tlc -config X.cfg M` for each; all use `SPECIFICATION Spec`, all but those of
`Frontend` check deadlock.

| Run | Configuration | States | Shows |
|---|---|---|---|
| `graph` | `MCHappensBeforeGraph.cfg` | 36,170 | the graph answers `canReach` exactly, the constructor ends |
| `trace` | `MCTraceBuilder.cfg` | 72,015 | traces are well formed, complete, balanced; the builder ends |
| `race` | `MCRaceDetect.cfg` | 143,021 | no race is missed, no filter drops what can happen, call stacks are right |
| `solver` | `MCPartialUpdateSolver.cfg` | 62,180 | rounds forget nothing, the result is the least solution, `solve()` returns |
| `frontend` | `MCFrontend.cfg` | 7,408 | the passes keep the meaning, points-to sets cover every access |
| `graph_phi_handle` | `MCHappensBeforeGraph_phi.cfg` | violation | finding 1 |
| `trace_stale_context` | `MCTraceBuilder_context.cfg` | violation | finding 3 |
| `race_late_task` | `MCRaceDetect_late_task.cfg` | violation | finding 4 |
| `race_reused_barrier` | `MCRaceDetect_reused_barrier.cfg` | violation | finding 5 |
| `solver_late_vector` | `MCPartialUpdateSolver_late_vector.cfg` | violation | finding 6 |
| `preprocess_adjacent_regions` | `MCFrontend_adjacent_regions.cfg` | violation | finding 7 |
| `race_adjacent_forks` | `MCRaceDetect_adjacent_forks.cfg` | violation | finding 8 |

Four more configurations fail as well; each shows one further disagreement, or the
consequence of one, and is not among the runs of `PROJECT.json`:

| Configuration | Property | Shows |
|---|---|---|
| `MCTraceBuilder_recursion.cfg` | `EntryTwiceAllowed` | finding 2 |
| `MCRaceDetect_adjacent_arrays.cfg` | `NoMissedRace` | the race that is lost by finding 8 |
| `MCRaceDetect_alias.cfg` | `NoMissedRace` | finding 9 |
| `MCFrontend_nested_guards.cfg` | `GuardsAlternate` | finding 10 |

**graph.** `SyncReachableExact`: the cached table is the least set closed under
edges. `CanReachExact`: the graph keeps synchronisation events only, and its
queries over next and previous synchronisation must agree with paths in the
graph of *all* events. `Termination` excludes traces with a looping phi handle
(`NoPhiLoop`), which `graph_phi_handle` shows. `MaxMain = 4` bounds the main
thread: two forks, two joins, or one of each with accesses around them, in every
order; children have up to two events, or none. Joins find their fork through
the same thread, another thread, a load, a store, a phi, a task, or the nearest
fork. Four threads occur in the task traces. Longer traces repeat these
patterns: edges connect two events, so a wrong query shows with an event before,
at and after a synchronisation on two threads.

**trace.** `MaxBlocks = 3` constructs per region body, all different, in every
order; a region is entered from `main`, from a function called twice, or inside
a teams region. The pthread programs have all mixes of calls and creations
between three mutually recursive functions. `DeepPrograms` nests four threads so
that `OriginK = 3` forgets one, `MasterPrograms` reach the failing assertions.
Three constructs are enough for one to be left open by a second and met by a
third (a single region, its task, and a wait).

**race.** Three constructs per region body (one more for pthreads), two team
members, tasks, a critical section, a mutex, nested regions and teams. The helper of
`RegionPrograms` takes a nest lock again inside a critical section that it entered under
the same lock, so that the lock is still held after its first release; programs of
`NestedPrograms` with the main function `ThreadFirst` create a pthread right before a
parallel region.
`NoMissedRace` is the purpose of the tool; `ConcurrentNotOrdered` is the part of
it that the graph owes, `HeldLocksExact` the part of the lock sets, as bags (each
lock as often as the process has taken it and not released it), and
`WaitsSeen` asks that a wait of the program is an edge (otherwise the report has
false races). `GraphInputOK` discharges the assumption of `HappensBeforeGraph`
on every trace that `TraceBuilder` builds.

The filters have programs of their own. `FilterPrograms` put two constructs that
one member runs at a time next to each other, so that regions are paired by order
and number; `FilteredNeverConcurrent` says that what a filter takes for the work
of one member is never reached by two. `SameRegionSameTeam` asks that events taken to
be of one region (`_fromSameParallelRegion`) were made by one team, also in nested
regions, in teams and behind another fork. It is about forks of *parallel regions*: the
code does not look at the kind of a fork, and two calls of `pthread_create`, the two
forks of a teams region, and a `pthread_create` before a region are adjacent as well.
They are in the programs of this run, and are left out of the property; that the
source's claim does not hold of them is finding 8, from a run with the same property of
all forks (`AdjacentForksOneTeam`). `PointerPrograms` mix thread-local and shared
targets, metadata on aliases and accesses without a location. The pairs with metadata
are within one function, where the code must not ask for it; of metadata shared by two
functions `NoMissedRace` is false (finding 9). `ArrayPrograms` share a loop of four iterations
between two members: strides 1 and 2, distances from 0 to beyond the loop, an
inner loop whose number of iterations is known or not, indirect indices,
collapsed loops, counters that threads share; `NoOverlapMeansDisjoint` compares
the verdict with the elements that the members touch. `CallstacksExact` compares
the reported call stacks with the calls of the running program, and
`BothOrdersOnlyOfWrites` says when a pair may be in the report twice. `ReportExact`
is about the loops around the filters: the report is the set of located conflicts
between threads that the filters keep, so that neither the counting of threads in
`getSharedObjects` nor the loops over writes, reads and writes of later threads lose
one.

The array programs leave out `A[i % 4]`, `A[i + j]`, `A[i + B[i]]`, columns that
leave their row, negative bounds and steps, index arrays with repetitions, and
pairs in different functions (also of two pthreads, finding 8): for those `canIndexOverlap` answers that there is
no overlap although there can be (its own comment, "If unsure report they do
alias", is about a later line). Loops with dynamic schedules are not modelled.

The families of programs in this run exclude what the documentation calls
unsupported or what a finding below already shows, by name, in `MCRaceDetect`:
tasks created after a barrier or a taskwait, a task of a single region with a
master region before it or after an intervening taskwait (`Supported`); barriers
in nested teams; a handle set twice or a region function called twice; waits
inside tasks. A program outside these limits can have races the tool misses.

**solver.** Three pointers that point to an aggregate, a scalar and a constant
global that holds an address, with every choice of up to `MaxCons = 3` further
copies, loads and stores between them (two, when one of two field accesses is
there): three edges make a cycle, a cycle that a load or store closes in a later
round, and a cycle that absorbs another, the cases in which a node is collapsed
while work is pending. Further programs have a caller with up to two and a callee
with up to two constraints (`MaxCons - 1`) out of those that connect globals,
parameters and the function pointer itself, which may so gain a second target;
and a vector used through the global or a local pointer, in the caller or the
callee, where three functions compete for `MaxIndirectTarget = 2` places. The
callee uses the vector through a new pointer only; that it may not use the old
one is finding 6. `NothingForgotten` says that between rounds each edge is
satisfied or scheduled, in terms of the very worklists and `shouldProcessCopy`
that decide; `Implements` is the refinement of `PointsTo`.

**frontend.** Twenty-two programs, each for one concern: guards with joins, two
guards in a row, a guard in a guard and a guarded return; lastprivate and both
kinds of reductions;
constants that reach a function from one of two callers, through a region, or
around a recursion; atomics, volatiles, thread-local globals and a call that may
throw; addresses of nested members with a variable index at each place; a copied
structure with pointers; two regions, a teams region, and one at the beginning of a block (the
pass crashes); a region that is given a thread-local variable, which is another one in
each member; a call of the OpenMP runtime without a model (the summary fails its
assertion); a heap allocation for each rule of type inference; a list built by
main and changed by a region; pointers to functions in a table and to members in
initializers; stack memory of a member given away; arrays of unknown size and a
step back. `TeamSize = 2` as in the analysis. `Unbounded = 1000` stands for an
array without a size, more than any index; `MaxOffset = 100` bytes of a block are
looked at by `FieldsExact`, more than the largest type has.
`PointsToSound` is the purpose of the pointer analysis: whatever location an
instruction touches is an object that its pointer has, in the context of the
call. `FieldsExact` adds that fields are neither lost nor confused, `MembersApart`
that two members do not share an object for what is their own (a false race), and
`CallsKnown` that no call is missing from the call graph. `ConstantsSound`,
`AddressesPreserved`, `AccessesKept`, `RegionsPaired` and `GuardedByThread` are
what each pass owes; `NoRaceExcluded` is what the block analyses of
`OpenMPAnalysis` owe. Deadlock is not checked: the compiled program ends, and a
pass that crashes stops everything.

Left out of the programs, because the code is known not to handle them: calls
that do throw; arguments passed by value on the stack (`byval`, `inalloca`), which
`Replaceable` has and no program; volatile loads of variables shared with a region;
a guarded block
with another way in (`a || b`); variables stored to through a pointer that was
given away; a region started by `invoke`; an outlined function started from two
places; an array of structures with arrays, behind another array, with a variable
index; `new T[n]` (misspelt in `isHeapAllocAPI`); a step back to the beginning of
a structure (`container_of`); a heap allocation followed by a cast of another
value. Points that the code leaves open and the model decides: structures are
compared by their fields, there is one type of pointer, and a call through a
pointer is compatible with a function if the numbers of arguments agree.

**Fairness.** `TraceBuilder`, `HappensBeforeGraph` and `PartialUpdateSolver` assume `WF_vars(Next)`:
one thread runs the code and nothing blocks, so while a step is possible one is
taken. `RaceDetect` and `Frontend` state no liveness and assume no fairness; that
the rounds of constant propagation end is the action property
`PropagationShrinks`.

**Deadlock.** The components end in an explicit stuttering action (`Finished`,
`Terminated`), so a deadlock reported by TLC is a state from which the code, or
the analysed program, cannot go on.

## 4. Findings

1. `HappensBeforeGraph.cpp:121`: the loop over phi handles does not change the
   value it tests. A join whose handle is a phi node, and which no fork matches
   directly, never returns; the heuristics behind it are not reached.
2. `TraceBuilder.cpp:107`: the comment allows the same thread entry twice; the
   count starts at one, so the first repetition is refused.
3. `TraceBuilder.cpp:67`: the event info is not restored after a call; later
   events of the caller are looked up in the callee's context, in which a local
   pointer of the caller points to nothing. `OriginsNameThread` shows that the
   origin half of the context stays right: only the call site is stale.
4. `OpenMPRuntime.cpp:56`: the list of unjoined tasks is shared by the members
   of a team. A task created by the first member after a barrier is joined by
   the second at that same barrier, which is earlier: an order that hides races.
5. `HappensBeforeGraph.cpp:174`: barriers are matched by instruction. A barrier
   in a function called twice, or passed by two inner teams, connects phases or
   teams in both directions: accesses that run at the same time are ordered.
6. `PartialUpdateSolver.h:91`: the call back ignores special constraints. A
   `push_back`, `begin` or `operator[]` on a global vector in a function that is
   reached only through an indirect call is never processed: the global's node is
   old and its points-to set no longer changes, so nothing visits the new
   constraint, although the comment at line 343 says that every added constraint
   is recorded.
7. `DuplicateOpenMPForks.cpp:26`: the handle of a fork is made before the
   instruction that precedes the fork. If that is the fork of another region, as
   in two regions in a row, the handle separates this fork from its twin;
   `getTwinOmpFork` looks at the next instruction only, and the first region is
   skipped with all its races. A region at the beginning of a block has no
   preceding instruction, and the pass crashes.
8. `OpenMPAnalysis.cpp:60`: two threads are of one parallel region if their forks are
   adjacent, and "Only matching omp forks can be adjacent, because they are always
   followed by joins"; line 50 says that both are checked to be OpenMP forks. They are
   not: threads of two calls of `pthread_create` in a row, of the two forks of a teams
   region, or of a `pthread_create` right before a region pass for members of one team,
   and the filters for regions are applied to them. Two such pthreads that go through
   one array, each in a function of its own, race unseen: `canIndexOverlap` answers for
   accesses in different functions that they do not overlap.
9. `SimpleAlias.cpp:21`: the comment says that the analysis of scoped alias metadata
   "requires the instructions are in the same function", and the code returns when they
   are. The scopes describe one call. A function and its clone share them, and when two
   threads call the two with their arguments exchanged, the races are dropped.
10. `InsertFakeCallForGuardBlocks.cpp:149`: guards are inserted per call of
   `omp_get_thread_num`. A block under the checks of two such calls gets two starts
   and then two ends, all with the number that was found last; `getRegions` asserts
   that two starts in a row do not occur (`OpenMPAnalysis.cpp:77`), and with assertions
   enabled the detection ends there.

## 5. Proofs

`HappensBeforeGraph_proofs` proves, for every set of traces and any number of
threads and events:

* `TypeCorrect`: `Spec => []TypeOK`;
* `SyncReachableCorrect`: `Spec => []SyncReachableExact`: the table computed by
  the search is exactly reachability;
* `CanReachCorrect`: `Spec => []CanReachExact`: what `canReach` answers, with
  program order inside a thread, are exactly the paths of the graph of *all*
  events, although only the synchronisation events are kept and searched.

The assumption is `TracesAssumption`: traces are finite, the events of a thread
are a sequence, forks name a thread they spawned and a join that names a fork
names a fork event. That every trace that is built is of this form is
`GraphInputHolds`, below.

`SyncReachableExact` is not inductive: it speaks of the end. The invariant is
`SearchInv`. Before the search nothing is reachable. During it every source is
either still to do or its entry is a finished search (`FinishedSearch`: it holds
the source, is closed under the steps of the graph, and lies in every closed set
that holds the source). For the source in progress (`CurrentSearch`), visited
and waiting nodes together lie in every closed set with the source, the source
is among them, and the successors of a visited node are visited or waiting. When
the worklist is empty the last part says that the visited set is closed, which
is the step from "search in progress" to "finished". The waiting nodes may
repeat: only the range of the worklist matters (`ExpandWorklist`,
`RangeConcat`, `RangeHeadTail`). The edges no longer change once the search has
begun (`SameGraph`).

`CanReachExact` is a consequence of `SearchInv` at the end (`CacheAnswers`). That
what happens after `a` is closed under the steps between events
(`HappensAfterClosed`) needs that the cache of the first synchronisation event
after `a` holds all later ones of the thread (`LaterSyncs`), and that the next
event is either no synchronisation event, and has the same predecessor, or is
the next one of that predecessor. That it is least (`HappensAfterLeast`) needs
that a closed set of events holds the later events of a thread (`LaterEvents`).
Both are inductions along a thread, done as the search for the least position
that would contradict them (`LeastPosition`, from the library's theorem that a
well-founded relation has minimal elements).

`TraceBuilder_proofs` proves, for every set of programs:

* `TraceTypeCorrect`: `Spec => []TypeOK`;
* `FinishedTraceWellFormed`: `Spec => []TraceWellFormed`: in a finished trace
  forks and spawned threads correspond one to one, which is what the graph
  asserts ("Some forkEvent in does not correspond to a thread").

The assumptions are `ProgramsAssumption` (summaries are sequences; the entry
of the program and of its forks have a body: `buildTrace` asserts that a fork has
an entry and takes the value of its summary; and a function is only declared or has
a body), `OriginKAssumption`, and `NoneAssumption` (the values that stand for "no
spawn site" and "no fork" are no positions).

`TraceWellFormed` is not inductive: it speaks of the end, and in between a fork
is an event before its thread is listed by the parent. What connects the two is
the stack. In `Inv`, a spawned thread is listed by its parent (`Listed`) or has
its first frame on the stack, above a frame of another thread (`Starting`), and
that other thread is the one its spawn site names (`StackInv`). So the return
from a thread, which appends it to `childThreads` of whoever is below, lists it
in the right place; and when the main function returns the stack is empty and
nothing is `Starting`. Frames that are not on top wait inside their summary, so
the walk goes on at an IR that exists. A step appends events to one thread and
takes nothing back (`Grows`, `EventsGrow`, `ForksGrow`), which keeps the joins
and the unjoined tasks of the runtime model at forks of tasks (`JoinInv`). Each
action has a lemma of its own (`VisitForkKeeps`, `ReturnFromThreadKeeps`, ...).

The second part of `TraceBuilder_proofs` is what follows from `buildTrace` being a
recursion. For every set of programs:

* `ThreadsFlattenInOrder`: `Spec => []FlattenedInThreadOrder`: the walk of
  `ProgramTrace` lists the threads in the order of their ThreadIDs;
* `EventsNameTheirOrigins`: `Spec => []OriginsNameThread`: an event remembers the
  last `OriginK` spawn sites above its thread;
* `TracesBalanceCalls`: `Spec => []CallsBalanced`: the enter and leave events of a
  thread nest.

The assumptions are the same. All three properties speak of the end, and none is inductive.

*Order of threads.* `TreeInv` says that ids are the preorder of the spawns. A thread
is younger than its parent, and two threads never cross: one that is younger than
another and has a younger parent was spawned below or after it (`SpawnTree`). The
same relates threads to the frames that still run (`StackOrdered`), and a parent
lists finished children in ascending order (`ChildrenOrdered`). `ListInv` speaks of
the walk: what is listed so far are the first ids, and the worklist holds, youngest
at the bottom, the threads whose parent is listed.

*Origins.* `OriginsInv`: the origins in each event of a thread and in each of its
frames are those of the thread, which are those of its parent and the spawn site,
cut to `OriginK`. Nothing restores the event info after a call or a fork; the proof
shows that nothing has to. That `SpawnPath`, a recursive function, exists is proved
by a least counterexample (`LeastOf`, `PathsExist`).

*Calls.* `CallsInv`: replaying the events of a thread leaves the calls that its frames
on the stack wait at, but for the last frame, and none if it has no frames. A call
that is cut off to prevent recursion enters and leaves in one step. Replaying is a
recursive function too; `IsAfter` characterises it, and two runs that begin alike
agree as far as they do (`BeginAlike`).

`TraceBuilder_runtime` proves what the runtime model of OpenMP, one object for all
threads, owes to the order in which they are traced. For every set of programs:

* `TasksAreJoinedOnce`: `Spec => []TasksJoinedOnce`: no task is joined twice, and a
  task spawned inside a parallel region is joined;
* `RuntimeStateIsReset`: `Spec => []RuntimeStateReset`: when the trace is done no
  teams, single or master region is open and no thread skips.

To the assumptions above it adds what the summaries look like. Each is a predicate
on one program, and TLC evaluates them all in the runs `trace` and `race`:

* `RegionsAssumption` (`PairsForks`): the fork of a region is followed by its join,
  with nothing but forks of regions in between, and the one that is not for the
  master comes right after one for the master with the same function.
  `IR/Builder.cpp:171-191` is the only place that makes these IRs; it pushes the
  fork, its twin, and then the joins. It takes the next call for the twin
  (`getTwinOmpFork`), which `DuplicateOpenMPForks.cpp:35` has put there.
* `TeamsAssumption` (`OutlinesTeams`): a function outlined for a teams region is
  forked by `__kmpc_fork_teams` only: the compiler makes one function per construct.
* `MarksAssumption` (`CallsRuntime`): the marks of master and single regions are
  calls of functions that are only declared, each an instruction of its own
  (`IR/Builder.cpp:133-140`).
* `StructureAssumption` (`NestsRegions`): master and single regions are structured
  blocks: the end of one is in the same summary as its start, master regions of a
  summary do not overlap ("encountered two master starts in a row",
  `OpenMPRuntime.h:22`), and a master region in a single region ends there. The
  programs of the run `trace` that reach the failing assertion satisfy it too: their
  second start is in another function.

*Tasks.* `TaskInv`: the runtime model lists exactly the tasks that no join names, each
once, and no two joins name the same task. A step is one of three: it leaves the
list alone (`QuietStep`), joins all of it (`JoiningStep`) or forks (`ForkingStep`).
This is the first half of the property. The second, that the tasks of a region are
joined, needs that the join of the region is met, and neither skipped nor passed
over as serial code (`inParallel` is set by the first spawn). `FrameLinks` ties the frames: one waits at a call,
or at the fork of the thread above it, in a thread that skips nothing. `RegionInv`:
while a task is unjoined a thread has been spawned, and if the task was spawned
inside a region, some activation has nothing but forks of regions between itself
and a join (`Awaits`). A finished trace has no activations, so no such task. Being
inside a region is stated of any set of threads closed under "forked by a region, or
the parent is in the set" (`InRegions`), so that the recursion of the property is
needed only at the end (`ParallelRegions`).

*Regions.* A single or master region ends at a mark, and the proof has to show that
the thread which met the start comes to it. Four invariants do.
`MasterInv` is about `currentMasterStart`: it is set exactly while one frame of a
thread that stands for a master is behind a start and not yet behind the end of that
region (`OpenAt`, `Inside`), at most one frame of the whole stack is, and a recorded
region (`masterRegions`) is a start with the end that closes it. `SkipInv` is about
`skipUntil`: only the thread that runs skips, it does not stand for the master, and
the instruction it waits for is the end of a master region ahead in the summary of
its last frame. `SingleInv`: while `inSingleRegion` is set some frame has the end of a
single region ahead, and all master regions up to it close before it; so a thread
that skips a master region inside the single region cannot skip over its end
(`SkipInSingle`). `TeamsInv`: while `inTeamsRegion` is set some frame waits at the fork
of a teams region; a refused fork of one is inside another (`RefusedInTeams`). Since
a finished trace has no frames, nothing is open.

`TraceBuilder_twins` proves, for every set of programs:

* `TwinsRunTheSameCode`: `Spec => []TwinsAgree`: in a finished trace the two threads
  that stand for the team of a parallel region have the same accesses, locks,
  unlocks and barriers outside of master regions, in the same order.

It uses the assumptions above and one more:

* `NestingAssumption` (`NestsNoTeams`): a teams region is not inside another one,
  which OpenMP forbids. The flag `inTeamsRegion` is cleared at the end of any teams
  region, so with a teams region inside another the first twin would drop barriers
  and locks that the second keeps.

The property compares two threads that are built one after the other, in different
states of everything that threads share: the runtime model, the list of tasks, the
depth of the call stack below them. The proof does not compare the threads with
each other. It compares each with a machine that has no shared state (`Moves`):
a list of activations, the code so far, and one constant, whether the thread is in a
teams region. The machine calls a function that is not among its own activations,
passes over a master region at once, and is deterministic (`MovesOnce`), so it ends
in one configuration at most (`EndsOnce`).

* `Stands(t, c)`: the frames of the thread on the stack are the activations of `c`, and its
  code is the code of `c`. A thread in a master region, or one that skips it,
  stands at the end of the region from its start on: for the one that stands for
  the master the frames above are not those of the machine, and its events there
  are no code of the team (`Open`); the other one has none.
* `ThreadStep`: every step of the builder moves the machine of each thread once or
  leaves it where it is. `SimInv` follows: every thread has come to stand where the
  machine gets to from the entry of the thread (`GetsTo`, stated as membership in
  every closed set so that no recursion is needed).
* `FlagInv`: the flag for teams regions is set exactly if the running thread is in
  a teams region or was spawned, at any depth, by one that is; so no other thread
  left it set or cleared it.
* `TwinInv`: between the two forks the parent emits nothing (`AtTwin`, `SiteLast`),
  so twins have the same parent and the same entry (`TwinsShareEntry`).

When the trace is done no thread has frames, so the machines of both twins have
ended, from the same start with the same constant. What the code of a run of events
is, a choice by rank in `TeamCode`, needs lemmas about ranks in finite sets of
numbers (`RankIs`, `OneMore`, `Appended`).

`RaceDetect_proofs` is about the race detection, whose specification is the
composition of the trace builder, the graph and the running program. For every set of
programs:

* `GraphInputHolds`: `Spec => []GraphInputOK`: the constructor of the graph is only
  given traces it can work with;
* `RaceGraphExact`: `Spec => []Graph!CanReachExact`: the answers the race detection
  gets from the graph are exactly the paths between the events of the trace that was
  just built;
* `ReadsComeSecond`: `Spec => []BothOrdersOnlyOfWrites`: a race that is in the report
  twice is one between two writes;
* `NoConflictIsLost`: `Spec => ReportExact`: what is reported is exactly the conflicts
  between threads that no filter drops.

The assumptions are those of `RaceDetect`, which are those of the trace builder stated
of the composition: `RaceProgramsAssumption` for the programs and
`RaceConstantsAssumption` for `OriginK` and the values that stand for "none".

The first two carry the proofs of the components over. The module instantiates
`TraceBuilder_proofs` and `HappensBeforeGraph_proofs` over the variables of the
composition; their definitions are those `RaceDetect` has through its own instances
(`SameActivation` to `SameInit`, `SameEventsThere` to `SameExact`), and what they
assume of their constants is proved of these (`BuilderAssumptions`,
`SearchAssumption`). A step of the composition is a step of the trace builder or leaves
its variables alone (`RaceStepsBuild`), so its invariants carry over;
`TraceIsGraphInput` derives `TraceOK` from them. For the graph, `TracesAssumption` is
about constants, which the composition does not have; the lemmas of
`HappensBeforeGraph_proofs` are therefore stated of any trace of the right form
(`Typed`), and a step of the composition does not change the trace once the graph is
begun (`RaceSteps`, `GraphInv`). `ReportInv` is the invariant of the report: it is
empty until the detection is done and every pair in it begins with a write, which the
filters and the constructor of `Race` keep (`ReportedWrites`). `ReportExact` is about
one step, and needs of the past only that the trace is finite: the numbers of writing
and reading threads are compared, and that a conflict makes an object shared
(`ConflictsAreShared`) is false of infinite sets, whose cardinality is no number.
What the filters answer is not opened in either proof.

`PartialUpdateSolver_proofs` proves, for every set of programs, what the solver owes a
client:

* `NothingIsInvented`: `Spec => []NothingInvented`:
  what `getPointsTo` gives a client is in every solution of the constraints known
  so far, whatever the order in which the solver works;
* `SolverTypeCorrect`: `Spec => []TypeOK`;
* `NothingIsForgotten`: `Spec => []NothingForgotten`;
* `LeastSolutionIsLeast`: the recursion of
  `LeastSolution` ends in a solution, and every solution contains it;
* `SolverImplementsPointsTo`:
  `Spec => Implements`, the refinement of `PointsTo`.

The assumptions are

* `ObjectsAssumption`, `NodesAssumption` (pointers, objects and anonymous pointers
  differ) and `FiniteAssumption` (there are finitely many of them);
* `ProgramsAssumption`, which asks `WellFormed` of the constraints: nobody names an
  anonymous pointer (`addCGNode` keeps them to itself), a field access, `push_back`
  and `operator[]` define a node that nothing else copies into (`modelVectorAPIs`: a
  fresh node or the call instruction), and a constant global receives only
  addresses, when it is initialised (`processScalarGlobals`, then `setImmutable`);
  and `LoadsWhatItPushes`;
* for `NothingIsForgotten` and `SolverImplementsPointsTo`, as a hypothesis of theirs,
  `VectorsComeWithTheCall`: a
  vector operation in a callee is on a pointer that first occurs in that callee.
  Without it they are false, and that is finding 6.

TLC evaluates all of them in the run `solver`.

*Nothing invented.* The invariant `Inv` speaks of one solution `S` at a time. `S`
satisfies every edge of the graph (`SoundEdge`), has what the points-to sets have,
and gives a node, its super node and the other members of a pending component the
same objects. Two things make this more than a simple induction. First, a
component is listed at the start of a round and collapsed later: its members are
equal in `S` because they reach each other along sound edges (`ReachSound`, from
`Reach` being the least closed set), and this outlives the change of the graph
(`SameInComponents`). Second, what a special edge means depends on its target
(`Param`), and an offset or special edge copies from the anonymous pointer of an
object: neither may be merged with another node. So `Single` collects anonymous
pointers, results of field accesses and vector operations and immutable objects,
and `GoodEdge`, `PendingInv` and `GoodSuper` keep them out of cycles
(`NoCycleThroughSingle`). The induction is for solutions that give an anonymous
pointer its own object only (`Exact`); any solution can be cut down to such a one
(`StarSolution`).

*Types.* `TypeOK` asks that edges end at nodes that exist and are their own super
nodes. `Shape` says why new edges do: what exists is closed (`Closed`: an object
comes with its anonymous pointer and the element of a vector), points-to sets and
super nodes of what exists exist, and the members of the components still to come
have not been collapsed, because components are disjoint (`ComponentInv`,
`ComponentsPartition`).

*Nothing forgotten.* `NothingForgotten` speaks of the time between rounds. `Complete`
says what holds within a round (`CopyInv`): a copy edge that has not carried
everything over leaves a component still to come, and an edge that leaves such a
component ends in one still to come, or at a node that has no copy edges. Since
components are taken in topological order, no edge can be left behind by a change
later in the round. `Followed` states what a load, store, offset or special edge
stands for in terms of constraints, not of the graph: the copy is `Placed` if it is
an edge between super nodes, or its ends were collapsed into one. So it survives
collapsing, which moves edges and drops self copies (`PlacedMoved`). The objects in
`handledGEPMap` have their fields (`HandledInv`), every constraint is placed
(`InsertedInv`), every call site has its targets, as many as it may, or an updated
pointer (`CallInv`), and a vector operation that is still to come is on a pointer
still to come (`VectorInv`).

*The refinement.* `ProcessNode` and `ProcessCycle` are `Grow`, or a stutter when
they change nothing: points-to sets grow along `superOf`, and stay within
`LeastSolution(cons)` because they are in every solution and the least one is a
solution. `ResolveCalls` is `AddCallees`, and `Finish` is `Finish`: with empty
worklists `Complete` says that every constraint is satisfied
(`ConstraintSatisfied`) and every call resolved (`CallsLookedAt`). All other steps
stutter.

*The least solution.* `LeastSolution` is a recursive function on assignments, and
TLA+ gives it a meaning only if some function satisfies the recursion. Because
`Demand` is monotone the function that maps `S` to the least fixed point above `S`
does (`ClimbExists`). Whatever function is chosen, it ends at that fixed point
(`ClimbEnds`): a least counterexample, by the set of objects still missing, would
have a smaller one.

Model-checked only: liveness (`Termination`), which the prover used cannot do; of
`RaceDetect`, the properties that compare
the report with the running program (`NoMissedRace`, `ConcurrentNotOrdered`,
`HeldLocksExact`, `WaitsSeen`, `CallstacksExact`, `SameRegionSameTeam`,
`FilteredNeverConcurrent`, `NoOverlapMeansDisjoint`): they hold of the families of
programs the run names and not of every program (findings 4 and 5, and the limits of
section 3), so what a theorem could say is bounded by the class of programs it would
have to describe; and all properties of `Frontend`, whose definitions recurse over
data.

## 6. Not modelled, and the plan

Not modelled:

* output: `main.cpp`, `Statistics`, `Logging`, `Demangler`, the JSON of the
  report, `debugDump`;
* LLVM's own analyses and passes: scalar evolution is an input of
  `SimpleArrayAnalysis`, scoped alias metadata one of `MustNotAlias`; inlining and
  the simplifications between the passes are not steps of `PreProcessing`;
* the calls of global constructors (`InsertGlobalCtorCallPass`): one call per
  entry of a list, without state;
* in the constraint builder: phi nodes, tasks and their allocations,
  `pthread_create`, the arguments of main, anonymous objects, field access paths
  and the metadata of types (`TypeMetaData`); the field insensitive memory model
  and `CppMemModel`, whose layout of vectors and virtual tables the solver sees as
  one special object;
* the solvers `Andersen` and `AndersenWave`, which nothing instantiates for races,
  and the representation of points-to sets and contexts (bit vectors, ring
  buffers, interning tables): they are sets and sequences here.

The option `Xmemlayout-filtering` is described as enabling the type filter, and
`MemBlock.h` filters while it is *not* set; the model has the default, filtering.

What remains, in this order:

1. Proofs: a class of programs, closed under what the
   documentation supports, for which `ConcurrentNotOrdered` is a theorem.
2. `SCCIterator`: the stack of Tarjan's algorithm, against the components that
   `PartialUpdateSolver` is given.
3. Tasks in the constraint builder and waits inside tasks in the checked programs.
