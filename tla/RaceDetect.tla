----------------------------- MODULE RaceDetect -----------------------------
(***************************************************************************)
(* The detection of data races (RaceDetect.cpp): the trace is built, then  *)
(* the happens-before graph of the trace, then the pairs of accesses to    *)
(* shared memory are checked and the races among them are reported.        *)
(*                                                                         *)
(* Only then, the analysed program itself is run, in every interleaving:   *)
(* what the report says is compared with what happens.                     *)
(***************************************************************************)
EXTENDS Naturals, FiniteSets, SequencesExt

CONSTANTS Programs, OriginK, NoSpawn, NoFork, NoInst

VARIABLES
  program, status, stack, inParallel, inTeamsRegion, inSingleRegion,
  masterRegions, currentMasterStart, unjoinedTasks, flatThreads,
  flattenWorklist,                       \* TraceBuilder
  threads,                               \* the trace, built and then analysed
  pc, unvisited, lastBarrier, syncEdges, threadSyncs, todo, src, worklist,
  visited, syncReachable,                \* HappensBeforeGraph
  detection,                             \* "pending", "done" or "crashed"
  reported,                              \* the races reported, <<first, second>>
  procs, handles, owners, taken          \* ProgramExecution

buildVars == <<program, status, stack, inParallel, inTeamsRegion, inSingleRegion,
               masterRegions, currentMasterStart, unjoinedTasks, flatThreads,
               flattenWorklist, threads>>

graphVars == <<pc, unvisited, lastBarrier, syncEdges, threadSyncs, todo, src,
               worklist, visited, syncReachable>>

reportVars == <<detection, reported>>

runVars == <<procs, handles, owners, taken>>

vars == <<buildVars, graphVars, reportVars, runVars>>

Trace == INSTANCE TraceBuilder

\* The pointers of this model are no loads, stores or phis of handles.
Graph == INSTANCE HappensBeforeGraph
  WITH Traces <- {}, LoadPointer <- <<>>, StorePointers <- <<>>, PhiIncoming <- <<>>

Locks == INSTANCE LockSet

OpenMP == INSTANCE OpenMPAnalysis

Arrays == INSTANCE SimpleArrayAnalysis

Reports == INSTANCE Reporter

Execution == INSTANCE ProgramExecution

\* What the trace builder is given.
ASSUME RaceConstantsAssumption ==
  /\ OriginK \in Nat \ {0}
  /\ NoSpawn \notin (Nat \ {0}) \X (Nat \ {0}) /\ NoFork \notin (Nat \ {0}) \X (Nat \ {0})

ASSUME RaceProgramsAssumption ==
  \A p \in Programs :
    /\ Trace!HasSummaries(p) /\ Trace!PairsForks(p) /\ Trace!OutlinesTeams(p)
    /\ Trace!NestsNoTeams(p) /\ Trace!CallsRuntime(p) /\ Trace!NestsRegions(p)

-----------------------------------------------------------------------------
(***************************************************************************)
(* The memory an access event touches.  The pointer analysis knows a local *)
(* pointer of a function in the contexts it analysed the function in; a    *)
(* context ends with the call or fork that entered the function.           *)
(***************************************************************************)
FunctionOf(inst) ==
  CHOOSE fn \in DOMAIN program.body :
    \E i \in DOMAIN program.body[fn] : program.body[fn][i].inst = inst

EnteredBy(fn, inst) ==
  \E f \in DOMAIN program.body : \E i \in DOMAIN program.body[f] :
    LET ir == program.body[f][i]
    IN /\ ir.inst = inst
       /\ \/ ir.type \in Trace!ForkTypes /\ ir.entry = fn
          \/ ir.type = "Call" /\ ir.callee = fn

AnalysedIn(fn, ctx) ==
  IF ctx.callsite = NoInst THEN fn = program.main ELSE EnteredBy(fn, ctx.callsite)

AccessedMemory(n) ==
  LET e == Trace!EventAt(n)
  IN {v \in Execution!Targets(e.ir.var) :
        e.ir.global \/ AnalysedIn(FunctionOf(e.ir.inst), e.ctx)}

(***************************************************************************)
(* SharedMemory.                                                           *)
(***************************************************************************)
Accesses(type) == {n \in Trace!EventPIDs : Trace!EventAt(n).type = type}

Accessing(type, obj) == {n \in Accesses(type) : obj \in AccessedMemory(n)}

Objects == UNION {AccessedMemory(n) : n \in Accesses("Read") \cup Accesses("Write")}

ThreadsOf(S) == {n[1] : n \in S}

\* Mutant: one writer and one reader are taken for the same thread.
IsShared_LoneReader(obj) ==
  LET writers == ThreadsOf(Accessing("Write", obj))
      readers == ThreadsOf(Accessing("Read", obj))
  IN \/ Cardinality(writers) > 1
     \/ Cardinality(writers) = 1 /\ Cardinality(readers) > 1

IsShared(obj) ==
  LET writers == ThreadsOf(Accessing("Write", obj))
      readers == ThreadsOf(Accessing("Read", obj))
  IN \/ Cardinality(writers) > 1
     \/ Cardinality(writers) = 1 /\ Cardinality(readers) > 1
     \/ Cardinality(writers) = 1 /\ Cardinality(readers) = 1 /\ writers # readers

(***************************************************************************)
(* ThreadLocalAnalysis: all that both accesses may touch is thread local.  *)
(***************************************************************************)
IsThreadLocalAccess(write, other) ==
  AccessedMemory(write) \cap AccessedMemory(other) \subseteq program.tls

(***************************************************************************)
(* SimpleAlias: the metadata that LLVM leaves for the arguments of one     *)
(* call of a function, asked only of accesses in different functions.      *)
(***************************************************************************)
NoAlias(write, other) ==
  {Trace!EventAt(write).ir.inst, Trace!EventAt(other).ir.inst} \in program.noalias

\* Mutant: asked of accesses in the same function, as the comment has it.
MustNotAlias_SameFunction(write, other) ==
  /\ FunctionOf(Trace!EventAt(write).ir.inst) = FunctionOf(Trace!EventAt(other).ir.inst)
  /\ NoAlias(write, other)

MustNotAlias(write, other) ==
  /\ FunctionOf(Trace!EventAt(write).ir.inst) # FunctionOf(Trace!EventAt(other).ir.inst)
  /\ NoAlias(write, other)

(***************************************************************************)
(* checkRace.  The filters for OpenMP are asked of events of one parallel  *)
(* region only.  The array analysis may throw, and the walk over the       *)
(* sections may run off the trace.                                         *)
(***************************************************************************)
Unprotected(write, other) ==
  /\ Graph!AreParallel(write, other)
  /\ ~Locks!SharesLock(write, other)
  /\ ~IsThreadLocalAccess(write, other)
  /\ ~MustNotAlias(write, other)

FilteredByRegion(write, other) ==
  \/ OpenMP!GuardedBySameTID(write, other)
  \/ OpenMP!IsInLastprivate(write) /\ OpenMP!IsInLastprivate(other)

IndexVerdict(write, other) ==
  IF Arrays!IsLoopArrayAccess(write, other) THEN Arrays!CanIndexOverlap(write, other) ELSE "yes"

CheckRace(write, other) ==
  IF ~OpenMP!FromSameParallelRegion(write, other) THEN "race"
  ELSE CASE IndexVerdict(write, other) = "throws" -> "crash"
         [] IndexVerdict(write, other) = "no" -> "none"
         [] OTHER ->
    IF OpenMP!InSameSingleBlock(write, other) \/ OpenMP!InSameReduce(write, other) THEN "none"
    ELSE CASE OpenMP!SectionVerdict(write, other) = "undefined" -> "crash"
           [] OpenMP!SectionVerdict(write, other) = "yes" -> "none"
           [] OTHER -> IF FilteredByRegion(write, other) THEN "none" ELSE "race"

(***************************************************************************)
(* detectRaces: every write of a shared object against the reads of the    *)
(* other threads and the writes of later threads.                          *)
(***************************************************************************)
Candidates ==
  UNION {UNION {{<<write, other>> :
                   other \in {n \in Accessing("Read", obj) : n[1] # write[1]}
                             \cup {n \in Accessing("Write", obj) : n[1] > write[1]}} :
                  write \in Accessing("Write", obj)} :
         obj \in {o \in Objects : IsShared(o)}}

Verdicts ==
  [c \in {d \in Candidates : Unprotected(d[1], d[2])} |-> CheckRace(c[1], c[2])]

Collected(verdicts) == {c \in DOMAIN verdicts : verdicts[c] = "race"}

-----------------------------------------------------------------------------
Init ==
  /\ Trace!Init
  /\ pc = "start" /\ unvisited = {} /\ lastBarrier = {} /\ syncEdges = {}
  /\ threadSyncs = {} /\ todo = {} /\ src = <<>> /\ worklist = <<>>
  /\ visited = {} /\ syncReachable = <<>>
  /\ detection = "pending" /\ reported = {}
  /\ Execution!ExecInit

BuildTrace ==
  /\ status \in {"building", "flattening"}
  /\ Trace!Next
  /\ UNCHANGED <<graphVars, reportVars, runVars>>

BuildGraph ==
  /\ status = "done" /\ pc # "done"
  /\ Graph!Next
  /\ UNCHANGED <<program, status, stack, inParallel, inTeamsRegion, inSingleRegion,
                 masterRegions, currentMasterStart, unjoinedTasks, flatThreads,
                 flattenWorklist, reportVars, runVars>>

Detect ==
  /\ pc = "done" /\ detection = "pending"
  /\ LET verdicts == Verdicts
     IN \/ /\ \A c \in DOMAIN verdicts : verdicts[c] # "crash"
           /\ detection' = "done"
           /\ reported' = Reports!Report(Collected(verdicts))
        \/ /\ \/ \E c \in DOMAIN verdicts : verdicts[c] = "crash"
              \/ Reports!MayCrash(Collected(verdicts))
           /\ detection' = "crashed"
           /\ UNCHANGED reported
  /\ UNCHANGED <<buildVars, graphVars, runVars>>

RunProgram(p) ==
  /\ detection = "done"
  /\ Execution!Run(p)
  /\ UNCHANGED <<buildVars, graphVars, reportVars>>

Terminated ==
  /\ \/ detection = "crashed"
     \/ detection = "done" /\ Execution!Running = {}
  /\ UNCHANGED vars

Next ==
  \/ BuildTrace
  \/ BuildGraph
  \/ Detect
  \/ \E p \in Execution!Running : RunProgram(p)
  \/ Terminated

Spec == Init /\ [][Next]_vars

-----------------------------------------------------------------------------
(***************************************************************************)
(* The constructor of the graph is only given traces it can work with: the *)
(* assumption of HappensBeforeGraph holds of every trace that is built.    *)
(***************************************************************************)
GraphInputOK == status = "done" /\ pc = "start" => Graph!TraceOK(threads)

(***************************************************************************)
(* No race is missed: whenever the running program has two processes at    *)
(* conflicting accesses, the pair was reported, unless one of them has no  *)
(* location ("races with unknown location" are skipped, Reporter.cpp).     *)
(* None of the filters drops a pair that the program can bring about.      *)
(***************************************************************************)
Located == {r \in Execution!DataRaces : r \cap program.unlocated = {}}

NoMissedRace == detection = "done" => Located \subseteq {{r[1], r[2]} : r \in reported}

(***************************************************************************)
(* Accesses that two processes are at in the same moment are not ordered   *)
(* by the graph: the edges for forks, joins, barriers and task joins claim *)
(* no order that the program does not keep ("This enforces a               *)
(* happens-before ordering that models barrier behaviour",                 *)
(* HappensBeforeGraph.cpp).                                                *)
(***************************************************************************)
AtAccesses == {p \in Execution!Running : Execution!AtAccess(p)}

EventsAt(p) ==
  LET inst == Execution!Current(p).inst
  IN {n \in Trace!EventPIDs : Trace!EventAt(n).type \in {"Read", "Write"}
                              /\ Trace!EventAt(n).ir.inst = inst}

ConcurrentNotOrdered ==
  detection = "done" =>
    \A p, q \in AtAccesses : p < q =>
      \E m \in EventsAt(p), n \in EventsAt(q) :
        m[1] # n[1] /\ Graph!AreParallel(m, n)

(***************************************************************************)
(* A thread of the trace stands for the processes that were created at the *)
(* same chain of places.                                                   *)
(***************************************************************************)
ProcessPath[p \in Nat] ==
  IF procs[p].parent = 0 THEN <<>>
  ELSE Append(ProcessPath[procs[p].parent], procs[p].site)

ThreadsFor(p) == {t \in DOMAIN threads : Trace!SpawnPath[t] = ProcessPath[p]}

\* The accesses the processes are at, in the threads that stand for them.
EventsNow ==
  UNION {LET path == ProcessPath[p]
         IN {<<p, n>> : n \in {e \in EventsAt(p) : Trace!SpawnPath[e[1]] = path}} :
         p \in AtAccesses}

(***************************************************************************)
(* The locks held at an access are those that its process owns when it     *)
(* gets there, each as often as it was taken and not yet released: a nest  *)
(* lock that is released once may still protect what follows (heldLocks,   *)
(* LockSet.cpp, "only remove the first element").                          *)
(***************************************************************************)
OwnedLocks(p) == {o[1] : o \in {w \in owners : w[2] = p}} \ {Execution!Reduction}

HeldLocksExact ==
  detection = "done" =>
    \A p \in AtAccesses :
      \A n \in EventsAt(p) :
        Locks!HeldLocks(n) = [l \in OwnedLocks(p) |-> Execution!Acquired(l, p)]

(***************************************************************************)
(* The waits of the running program are edges of the graph: the last event *)
(* of a thread reaches the join that waits for it.  A wait that is not     *)
(* seen makes the code after the join race with the joined thread          *)
(* (HappensBeforeGraph.cpp, getCorrespondingFork).                         *)
(***************************************************************************)
WaitedFor(p) ==
  LET ir == Execution!Current(p)
  IN CASE ir.type = "PthreadJoin" -> {h[2] : h \in {g \in handles : g[1] = ir.handle}}
       [] ir.type = "OpenMPJoin" -> Execution!Forked(p, ir.inst)
       [] OTHER -> {}

WaitsSeen ==
  detection = "done" =>
    \A p \in Execution!Running : \A q \in WaitedFor(p) :
      \A t \in ThreadsFor(p), u \in ThreadsFor(q) :
        \A n \in {n \in {t} \X DOMAIN threads[t].events :
                    Trace!EventAt(n).type = "Join"
                    /\ Trace!EventAt(n).ir = Execution!Current(p)} :
          threads[u].events # <<>> => Graph!CanReach(<<u, Len(threads[u].events)>>, n)

(***************************************************************************)
(* The call stack shown with an access is the chain of calls and forks the *)
(* running program is in when it gets there (computeCallstack), once there *)
(* is a second thread and accesses are events.  The two forks of a region  *)
(* are one construct: the trace gives the task of a single region to the   *)
(* master, whichever member creates it.                                    *)
(***************************************************************************)
IRs == UNION {ToSet(program.body[fn]) : fn \in DOMAIN program.body}

Construct(inst) ==
  LET ir == CHOOSE i \in IRs : i.inst = inst /\ i.type \notin {"OpenMPJoin", "OpenMPJoinTeams"}
  IN IF ir.type = "OpenMPFork" THEN ir.entry ELSE inst

Constructs(chain) == [i \in DOMAIN chain |-> Construct(chain[i])]

CallstacksExact ==
  detection = "done" =>
    \A p \in AtAccesses : Len(procs) > 1 =>
      \E n \in EventsAt(p) :
        Constructs(Reports!ComputeCallstack(n)) = Constructs(Execution!CallChain(p))

(***************************************************************************)
(* Forks of parallel regions that are adjacent in the trace are the two of *)
(* one team: events that are taken to be of one region (_fromSameParallel- *)
(* Region, OpenMPAnalysis.cpp) belong to members and tasks of one parallel *)
(* region, of no two regions and no two threads, with other forks before   *)
(* the region, and regions in it.  Forks of other kinds are left out here: *)
(* the code does not look at the kind.                                     *)
(***************************************************************************)
SpawnedByFork(n) ==
  LET site == OpenMP!RootSpawnSite(n[1])
  IN site # NoSpawn /\ Trace!EventAt(site).ir.type = "OpenMPFork"

TakenForOneRegion(a, b) == OpenMP!FromSameParallelRegion(a[2], b[2])

OneTeam(a, b) == procs[a[1]].team = procs[b[1]].team

SameRegionSameTeam ==
  detection = "done" =>
    \A a, b \in EventsNow :
      TakenForOneRegion(a, b) /\ SpawnedByFork(a[2]) /\ SpawnedByFork(b[2]) => OneTeam(a, b)

(***************************************************************************)
(* The same of all forks, as the comments have it ("Check both spawn       *)
(* events are OpenMP forks", "Only matching omp forks can be adjacent,     *)
(* because they are always followed by joins", OpenMPAnalysis.cpp).  Two   *)
(* calls of pthread_create, the two forks of a teams region, and a         *)
(* pthread_create right before a parallel region are adjacent too.         *)
(***************************************************************************)
AdjacentForksOneTeam ==
  detection = "done" =>
    \A a, b \in EventsNow : TakenForOneRegion(a, b) => OneTeam(a, b)

(***************************************************************************)
(* Two events that a filter for OpenMP takes for the work of one member at *)
(* a time are never reached by two processes at once: the regions, guards, *)
(* reductions, lastprivate copies and sections that are paired by their    *)
(* order or number in two traces are the same ones when the program runs   *)
(* ("Certain omp blocks cannot race with themselves", RaceDetect.cpp).     *)
(***************************************************************************)
Filtered(m, n) ==
  \/ OpenMP!InSameSingleBlock(m, n) \/ OpenMP!InSameReduce(m, n)
  \/ OpenMP!SectionVerdict(m, n) = "yes" \/ FilteredByRegion(m, n)

FilteredNeverConcurrent ==
  detection = "done" =>
    \A a, b \in EventsNow :
      a[1] # b[1] /\ OpenMP!FromSameParallelRegion(a[2], b[2]) => ~Filtered(a[2], b[2])

(***************************************************************************)
(* Two accesses whose indices cannot overlap, by their names or by their   *)
(* SCEV, never touch one element at the same moment ("each index is unique *)
(* so there is no race", RaceDetect.cpp).                                  *)
(***************************************************************************)
NoOverlapMeansDisjoint ==
  detection = "done" =>
    \A p, q \in {r \in AtAccesses : Execution!IsElement(r)} : p # q =>
      \A m \in EventsAt(p), n \in EventsAt(q) :
        OpenMP!FromSameParallelRegion(m, n) /\ IndexVerdict(m, n) = "no"
          => ~Execution!MayMeet(p, q)

(***************************************************************************)
(* A race is reported in both orders only if both of its accesses are      *)
(* writes: a pair is not put in order (Reporter.h, the constructor of      *)
(* Race), but the read always comes second.                                *)
(***************************************************************************)
Writes == {Trace!EventAt(n).ir.inst : n \in Accesses("Write")}

BothOrdersOnlyOfWrites ==
  detection = "done" =>
    \A r \in reported : <<r[2], r[1]>> \in reported => {r[1], r[2]} \subseteq Writes

(***************************************************************************)
(* The report is what the filters leave of the conflicts between threads:  *)
(* no conflict is lost because an object is taken for one that a single    *)
(* thread uses (getSharedObjects counts writers and readers), or between   *)
(* the loops over writes, reads and writes of later threads, which meet    *)
(* every pair once, and nothing else is reported (RaceDetect.cpp).         *)
(***************************************************************************)
Conflicts ==
  {c \in Accesses("Write") \X (Accesses("Read") \cup Accesses("Write")) :
     /\ c[2] \in Accesses("Write") => c[1][1] < c[2][1]
     /\ c[1][1] # c[2][1]
     /\ AccessedMemory(c[1]) \cap AccessedMemory(c[2]) # {}
     /\ ~Reports!MissingLocation(c[1]) /\ ~Reports!MissingLocation(c[2])}

Kept(c) == Unprotected(c[1], c[2]) /\ CheckRace(c[1], c[2]) = "race"

ReportExact ==
  [][detection # "done" /\ detection' = "done" =>
       reported' = {Reports!RaceOf(c) : c \in {d \in Conflicts : Kept(d)}}]_vars
=============================================================================
