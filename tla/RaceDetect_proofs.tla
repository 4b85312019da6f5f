------------------------- MODULE RaceDetect_proofs -------------------------
(***************************************************************************)
(* Proofs about the race detection, for every set of programs.  It         *)
(* composes the trace builder, the graph and the running program; what is  *)
(* proved of the first two alone is carried over to the composition: the   *)
(* graph is only given traces it can work with (GraphInputHolds), and what *)
(* the detection asks it is answered exactly (RaceGraphExact).  Then there *)
(* is the report itself (ReadsComeSecond, NoConflictIsLost).               *)
(*                                                                         *)
(* The modules with the proofs of the components are instantiated over the *)
(* variables of the composition.  RaceDetect has instances of the          *)
(* components themselves, and the operators of both are the same.          *)
(***************************************************************************)
EXTENDS RaceDetect, TLAPS, FiniteSetTheorems

Build == INSTANCE TraceBuilder_proofs

Search == INSTANCE HappensBeforeGraph_proofs
  WITH Traces <- {}, LoadPointer <- <<>>, StorePointers <- <<>>, PhiIncoming <- <<>>

(***************************************************************************)
(* The trace.                                                              *)
(***************************************************************************)
\* The constants are what the trace builder assumes of them.
LEMMA BuilderAssumptions ==
  /\ OriginK \in Nat \ {0}
  /\ NoSpawn \notin (Nat \ {0}) \X (Nat \ {0}) /\ NoFork \notin (Nat \ {0}) \X (Nat \ {0})
  /\ \A p \in Programs : Build!HasSummaries(p)
  /\ \A p \in Programs : Build!PairsForks(p)
  /\ \A p \in Programs : Build!OutlinesTeams(p)
  /\ \A p \in Programs : Build!NestsNoTeams(p)
  /\ \A p \in Programs : Build!CallsRuntime(p)
  /\ \A p \in Programs : Build!NestsRegions(p)
<1>1. /\ Trace!ForkTypes = Build!ForkTypes /\ Trace!MasterMarks = Build!MasterMarks
      /\ Trace!RegionMarks = Build!RegionMarks
      /\ \A ir : Trace!Kind(ir) = Build!Kind(ir)
  BY DEF Trace!ForkTypes, Build!ForkTypes, Trace!MasterMarks, Build!MasterMarks,
         Trace!RegionMarks, Build!RegionMarks, Trace!Kind, Build!Kind, Trace!JoinTypes,
         Build!JoinTypes, Trace!LockTypes, Build!LockTypes, Trace!UnlockTypes, Build!UnlockTypes
<1>2. ASSUME NEW p \in Programs
      PROVE  /\ Build!HasSummaries(p) /\ Build!PairsForks(p) /\ Build!OutlinesTeams(p)
             /\ Build!NestsNoTeams(p) /\ Build!CallsRuntime(p) /\ Build!NestsRegions(p)
  <2>1. Trace!HasSummaries(p) => Build!HasSummaries(p)
    BY <1>1 DEF Trace!HasSummaries, Build!HasSummaries, Trace!ToSet, Build!ToSet
  <2>2. Trace!PairsForks(p) => Build!PairsForks(p)
    BY DEF Trace!PairsForks, Build!PairsForks
  <2>3. Trace!OutlinesTeams(p) => Build!OutlinesTeams(p)
    BY <1>1 DEF Trace!OutlinesTeams, Build!OutlinesTeams, Trace!ToSet, Build!ToSet
  <2>4. Trace!NestsNoTeams(p) => Build!NestsNoTeams(p)
    BY <1>1 DEF Trace!NestsNoTeams, Build!NestsNoTeams, Trace!ToSet, Build!ToSet
  <2>5. Trace!CallsRuntime(p) => Build!CallsRuntime(p)
    BY <1>1 DEF Trace!CallsRuntime, Build!CallsRuntime
  <2>6. Trace!NestsRegions(p) => Build!NestsRegions(p)
    BY <1>1 DEF Trace!NestsRegions, Build!NestsRegions, Trace!Closes, Build!Closes,
                Trace!ClosesWithin, Build!ClosesWithin
  <2>7. QED
    BY <2>1, <2>2, <2>3, <2>4, <2>5, <2>6, RaceProgramsAssumption
<1>3. QED
  BY <1>2, RaceConstantsAssumption

\* The running activation.
LEMMA SameActivation ==
  /\ Trace!Top = Build!Top
  /\ Trace!Tid = Build!Tid
  /\ Trace!Thread = Build!Thread
  /\ Trace!IRNow = Build!IRNow
  /\ (Trace!HasIR <=> Build!HasIR)
  /\ \A frame : Trace!IRAt(frame) = Build!IRAt(frame)
  /\ \A frames : Trace!Step(frames) = Build!Step(frames)
  /\ \A t, fn, ctx : Trace!Frame(t, fn, ctx) = Build!Frame(t, fn, ctx)
BY DEF Trace!Top, Build!Top, Trace!Tid, Build!Tid, Trace!Thread, Build!Thread,
      Trace!IRAt, Build!IRAt, Trace!IRNow, Build!IRNow, Trace!HasIR, Build!HasIR,
      Trace!Frame, Build!Frame, Trace!Step, Build!Step

\* Kinds of IR and contexts.
LEMMA SameKinds ==
  /\ Trace!ForkTypes = Build!ForkTypes
  /\ \A ir : Trace!Kind(ir) = Build!Kind(ir)
  /\ \A ctx, ir : Trace!ContextEvolve(ctx, ir) = Build!ContextEvolve(ctx, ir)
  /\ Trace!InitialCtx = Build!InitialCtx
BY DEF Trace!ForkTypes, Build!ForkTypes, Trace!JoinTypes, Build!JoinTypes,
      Trace!LockTypes, Build!LockTypes, Trace!UnlockTypes, Build!UnlockTypes,
      Trace!Kind, Build!Kind, Trace!LastK, Build!LastK, Trace!ContextEvolve,
      Build!ContextEvolve, Trace!InitialCtx, Build!InitialCtx

\* The trace so far.
LEMMA SameTrace ==
  /\ \A n : Trace!EventAt(n) = Build!EventAt(n)
  /\ Trace!EventPIDs = Build!EventPIDs
  /\ \A type, ir : Trace!NewEvent(type, ir) = Build!NewEvent(type, ir)
  /\ \A evs : Trace!Emit(evs) = Build!Emit(evs)
  /\ Trace!ForkSite = Build!ForkSite
  /\ \A fn : Trace!OnCallStack(fn) <=> Build!OnCallStack(fn)
  /\ Trace!IsOpenMPMasterThread <=> Build!IsOpenMPMasterThread
  /\ \A entry : Trace!IsRecursiveThreadSpawn(entry) <=> Build!IsRecursiveThreadSpawn(entry)
BY SameActivation
  DEF Trace!EventAt, Build!EventAt, Trace!EventPIDs, Build!EventPIDs,
      Trace!NewEvent, Build!NewEvent, Trace!Emit, Build!Emit, Trace!ForkSite,
      Build!ForkSite, Trace!OnCallStack, Build!OnCallStack, Trace!IsOpenMPMasterThread,
      Build!IsOpenMPMasterThread, Trace!IsRecursiveThreadSpawn, Build!IsRecursiveThreadSpawn

\* What happens to the IR at hand.
LEMMA SameConditions ==
  /\ Trace!Skipping <=> Build!Skipping
  /\ Trace!Reached <=> Build!Reached
  /\ Trace!Serial <=> Build!Serial
  /\ Trace!SkippedInTeams <=> Build!SkippedInTeams
  /\ Trace!SkippedTask <=> Build!SkippedTask
  /\ Trace!SkippedMaster <=> Build!SkippedMaster
  /\ Trace!MasterMismatch <=> Build!MasterMismatch
  /\ Trace!Unskipped <=> Build!Unskipped
  /\ Trace!Visited <=> Build!Visited
BY SameActivation, SameKinds, SameTrace
  DEF Trace!Skipping, Build!Skipping, Trace!Reached, Build!Reached, Trace!Serial,
      Build!Serial, Trace!TeamSpecificTypes, Build!TeamSpecificTypes,
      Trace!SkippedInTeams, Build!SkippedInTeams, Trace!SkippedTask, Build!SkippedTask,
      Trace!SkippedMaster, Build!SkippedMaster, Trace!MasterMismatch,
      Build!MasterMismatch, Trace!Unskipped, Build!Unskipped, Trace!Visited, Build!Visited

\* The runtime model.
LEMMA SameRuntime ==
  /\ Trace!TaskJoins = Build!TaskJoins
  /\ \A tasks : Trace!PreVisit(tasks) <=> Build!PreVisit(tasks)
  /\ Trace!Continue <=> Build!Continue
  /\ UNCHANGED Trace!runtimeVars <=> UNCHANGED Build!runtimeVars
BY SameActivation, SameTrace
  DEF Trace!JoinsTasks, Build!JoinsTasks, Trace!TaskJoins, Build!TaskJoins,
      Trace!TasksLeft, Build!TasksLeft, Trace!PreVisit, Build!PreVisit,
      Trace!Continue, Build!Continue, Trace!runtimeVars, Build!runtimeVars

\* Steps that pass over the IR.
LEMMA SameSkips ==
  /\ Trace!SkipToTarget <=> Build!SkipToTarget
  /\ Trace!SkipSerial <=> Build!SkipSerial
  /\ Trace!SkipInTeams <=> Build!SkipInTeams
  /\ Trace!SkipTask <=> Build!SkipTask
  /\ Trace!SkipMasterRegion <=> Build!SkipMasterRegion
  /\ Trace!Abort <=> Build!Abort
BY SameActivation, SameKinds, SameTrace, SameConditions, SameRuntime
  DEF Trace!SkipToTarget, Build!SkipToTarget, Trace!SkipSerial, Build!SkipSerial,
      Trace!SkipInTeams, Build!SkipInTeams, Trace!SkipTask, Build!SkipTask,
      Trace!SkipMasterRegion, Build!SkipMasterRegion, Trace!Abort, Build!Abort,
      Trace!Pass, Build!Pass

\* Visits, ...
LEMMA SameVisits ==
  /\ Trace!VisitEvent <=> Build!VisitEvent
  /\ Trace!VisitUnresolvedCall <=> Build!VisitUnresolvedCall
  /\ Trace!VisitExternCall <=> Build!VisitExternCall
  /\ Trace!VisitRecursiveCall <=> Build!VisitRecursiveCall
  /\ Trace!VisitCall <=> Build!VisitCall
  /\ Trace!VisitRecursiveFork <=> Build!VisitRecursiveFork
BY SameActivation, SameKinds, SameTrace, SameConditions, SameRuntime
  DEF Trace!VisitEvent, Build!VisitEvent, Trace!VisitUnresolvedCall,
      Build!VisitUnresolvedCall, Trace!VisitExternCall, Build!VisitExternCall,
      Trace!VisitRecursiveCall, Build!VisitRecursiveCall, Trace!VisitCall,
      Build!VisitCall, Trace!VisitRecursiveFork, Build!VisitRecursiveFork, Trace!Pass,
      Build!Pass, Trace!RecursiveCallEvents, Build!RecursiveCallEvents

\* ... forks, ...
LEMMA SameForks ==
  /\ Trace!VisitFork <=> Build!VisitFork
BY SameActivation, SameKinds, SameTrace, SameConditions, SameRuntime
  DEF Trace!VisitFork, Build!VisitFork, Trace!NewThread, Build!NewThread

\* ... ends of functions, ...
LEMMA SameReturns ==
  /\ Trace!ReturnFromCall <=> Build!ReturnFromCall
  /\ Trace!ReturnFromThread <=> Build!ReturnFromThread
  /\ Trace!ReturnFromMain <=> Build!ReturnFromMain
BY SameActivation, SameKinds, SameTrace, SameConditions, SameRuntime
  DEF Trace!ReturnFromCall, Build!ReturnFromCall, Trace!ReturnFromThread,
      Build!ReturnFromThread, Trace!ReturnFromMain, Build!ReturnFromMain, Trace!Ended,
      Build!Ended, Trace!Caller, Build!Caller, Trace!PostFork, Build!PostFork,
      Trace!Front, Build!Front

\* ... and the list of threads.
LEMMA SameLists ==
  /\ Trace!Flatten <=> Build!Flatten
  /\ Trace!Finish <=> Build!Finish
  /\ Trace!Finished <=> Build!Finished
BY SameActivation, SameKinds, SameTrace, SameConditions, SameRuntime
  DEF Trace!Flatten, Build!Flatten, Trace!Finish, Build!Finish, Trace!Finished,
      Build!Finished, Trace!PushChildren, Build!PushChildren, Trace!Last, Build!Last,
      Trace!Reverse, Build!Reverse, Trace!Front, Build!Front, Trace!vars, Build!vars,
      Trace!runtimeVars, Build!runtimeVars

\* The trace is built in the composition as it is alone.
LEMMA SameNext == Trace!Next <=> Build!Next
BY SameSkips, SameVisits, SameForks, SameReturns, SameLists
  DEF Trace!Next, Build!Next

\* The trace builder starts as it does alone, ...
LEMMA SameInit == Trace!Init <=> Build!Init
BY SameKinds, SameActivation
  DEF Trace!Init, Build!Init, Trace!NewThread, Build!NewThread

-----------------------------------------------------------------------------
\* The constructor of the graph and the detection leave the trace alone.
LEMMA GraphKeepsTrace == Graph!Next => threads' = threads
BY DEF Graph!Next, Graph!vars, Graph!Construct, Graph!VisitFork,
  Graph!VisitJoin, Graph!JoinSpins, Graph!VisitBarrier,
  Graph!VisitOther, Graph!Visit, Graph!StartSearch,
  Graph!PickSource, Graph!Searching, Graph!Expand,
  Graph!FinishSource, Graph!Finish, Graph!Finished

\* ... and every step of the composition is one of its own or leaves it alone.
LEMMA RaceStepsBuild == [Next]_vars => [Build!Next]_(Build!vars)
<1>1. CASE BuildTrace
  BY <1>1, SameNext DEF BuildTrace
<1>2. CASE BuildGraph
  BY <1>2, GraphKeepsTrace DEF BuildGraph, Build!vars
<1>3. CASE Detect
  BY <1>3 DEF Detect, buildVars, Build!vars
<1>4. ASSUME NEW p, RunProgram(p)
      PROVE  UNCHANGED Build!vars
  BY <1>4 DEF RunProgram, buildVars, Build!vars
<1>5. CASE Terminated \/ UNCHANGED vars
  BY <1>5 DEF Terminated, vars, buildVars, Build!vars
<1>6. QED
  BY <1>1, <1>2, <1>3, <1>4, <1>5 DEF Next

\* A trace has finitely many events.
LEMMA FiniteTrace ==
  ASSUME Build!Typed
  PROVE  IsFiniteSet(Build!EventPIDs)
<1> DEFINE Events(t) == {t} \X DOMAIN threads[t].events
<1>1. DOMAIN threads = Build!Tids /\ Len(threads) \in Nat
  BY DEF Build!Typed, Build!Tids
<1>2. ASSUME NEW t \in Build!Tids PROVE IsFiniteSet(Events(t))
  <2>1. threads[t].events \in Seq(Build!EventRecords)
    BY <1>2, Build!ThreadTyped, BuilderAssumptions DEF Build!Typed, Build!Tids
  <2>2. DOMAIN threads[t].events = 1..Len(threads[t].events) /\ Len(threads[t].events) \in Nat
    BY <2>1
  <2>3. IsFiniteSet(DOMAIN threads[t].events)
    BY <2>2, FS_Interval
  <2>4. IsFiniteSet({t})
    BY FS_Singleton
  <2>5. QED
    BY <2>3, <2>4, FS_Product
<1>3. PICK T : T = {Events(t) : t \in Build!Tids}
  OBVIOUS
<1>4. PICK f : f = [t \in Build!Tids |-> Events(t)]
  OBVIOUS
<1>5. f \in Surjection(Build!Tids, T)
  BY <1>3, <1>4 DEF Surjection
<1>6. IsFiniteSet(Build!Tids)
  BY <1>1, FS_Interval DEF Build!Tids
<1>7. IsFiniteSet(T)
  BY <1>5, <1>6, FS_Surjection
<1>8. IsFiniteSet(UNION T)
  BY <1>2, <1>3, <1>7, FS_UNION
<1>9. QED
  BY <1>1, <1>3, <1>8 DEF Build!EventPIDs

\* A finished trace is one the constructor of the graph can work with.
LEMMA TraceIsGraphInput ==
  ASSUME Build!Inv, status = "done"
  PROVE  Graph!TraceOK(threads)
<1>1. Build!TraceWellFormed
  BY Build!InvWellFormed, BuilderAssumptions
<1>2. DOMAIN threads = Build!Tids /\ Build!Typed /\ Build!JoinInv /\ Build!Tids \subseteq Nat
  BY DEF Build!Inv, Build!Typed, Build!Tids
<1>3. /\ Graph!PIDsOf(threads) = Build!EventPIDs
      /\ \A n : Graph!IsForkIn(threads, n) <=> n \in Build!ForkEvents
  BY DEF Graph!PIDsOf, Graph!IsForkIn, Build!EventPIDs, Build!ForkEvents, Build!EventAt
<1>4. IsFiniteSet(Build!EventPIDs)
  BY <1>2, FiniteTrace
<1>5. \A S : Graph!IsFiniteSet(S) <=> IsFiniteSet(S)
  BY DEF Graph!IsFiniteSet, IsFiniteSet
<1>6. ASSUME NEW t \in Build!Tids
      PROVE  threads[t].events \in Seq(Graph!Range(threads[t].events))
  <2>1. threads[t].events \in Seq(Build!EventRecords)
    BY <1>2, <1>6, Build!ThreadTyped, BuilderAssumptions DEF Build!Typed, Build!Tids
  <2>2. PICK evs \in Seq(Build!EventRecords) : evs = threads[t].events
    BY <2>1
  <2>3. evs \in Seq(Graph!Range(evs))
    BY DEF Graph!Range
  <2>4. QED
    BY <2>2, <2>3
<1>7. ASSUME NEW n \in Build!ForkEvents PROVE \E t \in Build!Tids : threads[t].spawnSite = n
  BY <1>1, <1>2, <1>7 DEF Build!TraceWellFormed
<1>8. ASSUME NEW n \in Build!EventPIDs, Build!EventAt(n).type = "Join"
      PROVE  Build!EventAt(n).fork = NoFork \/ Build!EventAt(n).fork \in Build!ForkEvents
  BY <1>2, <1>8 DEF Build!JoinInv, Build!TaskForks
<1>9. QED
  BY <1>2, <1>3, <1>4, <1>5, <1>6, <1>7, <1>8 DEF Graph!TraceOK, Build!EventAt

\* The constructor of the graph is only given traces it can work with: the
\* assumption of HappensBeforeGraph holds of the trace of every program.
THEOREM GraphInputHolds == Spec => []GraphInputOK
<1>1. Init => Build!Inv
  BY SameInit, Build!InitInv, BuilderAssumptions DEF Init
<1>2. Build!Inv /\ [Next]_vars => Build!Inv'
  BY RaceStepsBuild, Build!NextKeeps, BuilderAssumptions
<1>3. Build!Inv => GraphInputOK
  BY TraceIsGraphInput DEF GraphInputOK
<1>4. QED
  BY <1>1, <1>2, <1>3, PTL DEF Spec

-----------------------------------------------------------------------------
(***************************************************************************)
(* The graph.                                                              *)
(***************************************************************************)
\* No trace is a constant: the graph is built of the one that was just built.
LEMMA SearchAssumption == \A tr \in {} : Search!TraceOK(tr)
OBVIOUS

\* The events of the trace.
LEMMA SameEventsThere ==
  /\ Graph!EventPIDs = Search!EventPIDs
  /\ \A tr : Graph!PIDsOf(tr) = Search!PIDsOf(tr)
  /\ \A n : Graph!Event(n) = Search!Event(n)
  /\ \A t : Graph!EventsOf(t) = Search!EventsOf(t)
  /\ \A m, n : Graph!Before(m, n) <=> Search!Before(m, n)
BY DEF Graph!EventPIDs, Search!EventPIDs, Graph!PIDsOf, Search!PIDsOf, Graph!Event, Search!Event,
  Graph!EventsOf, Search!EventsOf, Graph!Before, Search!Before

\* The order of events, by thread and position.
LEMMA SameOrder ==
  /\ \A S : Graph!First(S) = Search!First(S) /\ Graph!Last(S) = Search!Last(S)
  /\ \A S : Graph!ForksIn(S) = Search!ForksIn(S)
  /\ \A S : Graph!FirstNonEmpty(S) = Search!FirstNonEmpty(S)
BY SameEventsThere DEF Graph!First, Search!First, Graph!Last, Search!Last, Graph!ForksIn, Search!ForksIn,
  Graph!FirstNonEmpty, Search!FirstNonEmpty

\* The forks that joins correspond to.
LEMMA SameForkedThreads ==
  /\ \A n : Graph!ForkedThread(n) = Search!ForkedThread(n)
  /\ \A j : Graph!CorrespondingFork(j) = Search!CorrespondingFork(j)
  /\ \A j : Graph!PhiLoops(j) <=> Search!PhiLoops(j)
<1>1. \A h, S : Graph!ForkWithHandle(h, S) = Search!ForkWithHandle(h, S)
  BY SameOrder, SameEventsThere DEF Graph!ForkWithHandle, Search!ForkWithHandle
<1>2. \A j : Graph!KnownFork(j) = Search!KnownFork(j) /\ Graph!NearestFork(j) = Search!NearestFork(j)
  BY SameOrder, SameEventsThere DEF Graph!KnownFork, Search!KnownFork, Graph!NearestFork, Search!NearestFork
<1>3. DOMAIN <<>> = {}
  OBVIOUS
<1>4. \A h : Graph!ForkThroughLoad(h) = Search!ForkThroughLoad(h)
  BY <1>3 DEF Graph!ForkThroughLoad, Search!ForkThroughLoad
<1>5. \A h : Graph!ForkThroughPhi(h) = Search!ForkThroughPhi(h)
  BY <1>3 DEF Graph!ForkThroughPhi, Search!ForkThroughPhi
<1>6. \A j : Graph!ForkByHandle(j) = Search!ForkByHandle(j)
  BY <1>1, <1>2, <1>4, <1>5, SameOrder, SameEventsThere DEF Graph!ForkByHandle, Search!ForkByHandle
<1>7. QED
  BY <1>2, <1>3, <1>6, SameOrder, SameEventsThere
  DEF Graph!ForkedThread, Search!ForkedThread, Graph!CorrespondingFork, Search!CorrespondingFork,
      Graph!PhiLoops, Search!PhiLoops

\* The synchronisation events.
LEMMA SameSyncs ==
  /\ \A n : Graph!FindNextSyncAfter(n) = Search!FindNextSyncAfter(n)
  /\ \A n : Graph!EdgesFrom(n) = Search!EdgesFrom(n)
BY SameOrder DEF Graph!FindNextSyncAfter, Search!FindNextSyncAfter, Graph!EdgesFrom, Search!EdgesFrom

\* The steps over events.
LEMMA SameGraphVisits ==
  ASSUME NEW n
  PROVE  /\ Graph!VisitFork(n) <=> Search!VisitFork(n)
         /\ Graph!VisitJoin(n) <=> Search!VisitJoin(n)
         /\ Graph!JoinSpins(n) <=> Search!JoinSpins(n)
         /\ Graph!VisitBarrier(n) <=> Search!VisitBarrier(n)
         /\ Graph!VisitOther(n) <=> Search!VisitOther(n)
         /\ Graph!PickSource(n) <=> Search!PickSource(n)
<1>1. Graph!Visit(n) <=> Search!Visit(n)
  BY SameOrder DEF Graph!Visit, Search!Visit, Graph!searchVars, Search!searchVars
<1>2. \A e : Graph!AddSyncEdges(e) <=> Search!AddSyncEdges(e)
  BY DEF Graph!AddSyncEdges, Search!AddSyncEdges
<1>3. Graph!VisitFork(n) <=> Search!VisitFork(n)
  BY <1>1, <1>2, SameOrder, SameEventsThere, SameForkedThreads DEF Graph!VisitFork, Search!VisitFork
<1>4. Graph!VisitJoin(n) <=> Search!VisitJoin(n)
  <2> DEFINE new == UNION {{<<m, n>> : m \in Search!Last(Search!EventsOf(Search!ForkedThread(f)))} :
                             f \in Search!CorrespondingFork(n)}
  <2>1. \A f : Graph!Last(Graph!EventsOf(Graph!ForkedThread(f)))
                 = Search!Last(Search!EventsOf(Search!ForkedThread(f)))
    BY SameOrder, SameEventsThere, SameForkedThreads
  <2>2. UNION {{<<m, n>> : m \in Graph!Last(Graph!EventsOf(Graph!ForkedThread(f)))} :
                 f \in Graph!CorrespondingFork(n)} = new
    <3>1. \A f : {<<m, n>> : m \in Graph!Last(Graph!EventsOf(Graph!ForkedThread(f)))}
                   = {<<m, n>> : m \in Search!Last(Search!EventsOf(Search!ForkedThread(f)))}
      BY <2>1
    <3>2. Graph!CorrespondingFork(n) = Search!CorrespondingFork(n)
      BY SameForkedThreads
    <3>3. QED
      BY <3>1, <3>2
  <2>3. Graph!Event(n) = Search!Event(n) /\ (Graph!PhiLoops(n) <=> Search!PhiLoops(n))
    BY SameEventsThere, SameForkedThreads
  <2> HIDE DEF new
  <2>4. QED
    BY <1>1, <1>2, <2>2, <2>3 DEF Graph!VisitJoin, Search!VisitJoin, new
<1>5. Graph!JoinSpins(n) <=> Search!JoinSpins(n)
  BY SameOrder, SameEventsThere, SameForkedThreads DEF Graph!JoinSpins, Search!JoinSpins, Graph!vars, Search!vars
<1>6. Graph!VisitBarrier(n) <=> Search!VisitBarrier(n)
  BY <1>1, <1>2, SameEventsThere DEF Graph!VisitBarrier, Search!VisitBarrier
<1>7. Graph!VisitOther(n) <=> Search!VisitOther(n)
  BY <1>1, SameEventsThere DEF Graph!VisitOther, Search!VisitOther
<1>8. Graph!PickSource(n) <=> Search!PickSource(n)
  BY SameOrder DEF Graph!PickSource, Search!PickSource, Graph!Searching, Search!Searching
<1>9. QED
  BY <1>3, <1>4, <1>5, <1>6, <1>7, <1>8

\* All steps of the constructor.
LEMMA SameGraphNext ==
  Graph!Next <=> Search!Next
<1>1. Graph!Construct <=> Search!Construct
  BY SameEventsThere DEF Graph!Construct, Search!Construct, Graph!searchVars, Search!searchVars
<1>2. Graph!StartSearch <=> Search!StartSearch
  BY DEF Graph!StartSearch, Search!StartSearch
<1>3. \A S : Graph!Ascending(S) = Search!Ascending(S)
  <2>1. \A s : Graph!Range(s) = Search!Range(s)
    BY DEF Graph!Range, Search!Range
  <2>2. \A S : Graph!Cardinality(S) = Search!Cardinality(S)
    BY DEF Graph!Cardinality, Search!Cardinality
  <2> SUFFICES ASSUME NEW S
               PROVE  Graph!Ascending(S) = Search!Ascending(S)
    OBVIOUS
  <2> DEFINE Fits(s) == Search!Range(s) = S /\ \A i, j \in DOMAIN s : i < j => Search!Before(s[i], s[j])
  <2>3. \A s : (/\ Graph!Range(s) = S
                /\ \A i, j \in DOMAIN s : i < j => Graph!Before(s[i], s[j])) <=> Fits(s)
    BY <2>1, SameEventsThere
  <2>4. Search!Ascending(S) = {s \in [1..Search!Cardinality(S) -> S] : Fits(s)}
    BY DEF Search!Ascending
  <2> HIDE DEF Fits
  <2>5. Graph!Ascending(S) = {s \in [1..Graph!Cardinality(S) -> S] : Fits(s)}
    BY <2>3 DEF Graph!Ascending
  <2>6. QED
    BY <2>2, <2>4, <2>5
<1>4. Graph!Expand <=> Search!Expand
  BY <1>3, SameSyncs DEF Graph!Expand, Search!Expand, Graph!Searching, Search!Searching
<1>5. Graph!FinishSource <=> Search!FinishSource
  BY DEF Graph!FinishSource, Search!FinishSource, Graph!Searching, Search!Searching
<1>6. Graph!Finish <=> Search!Finish
  BY DEF Graph!Finish, Search!Finish, Graph!Searching, Search!Searching, Graph!searchVars, Search!searchVars
<1>7. Graph!Finished <=> Search!Finished
  BY DEF Graph!Finished, Search!Finished, Graph!vars, Search!vars
<1>8. QED
  BY <1>1, <1>2, <1>4, <1>5, <1>6, <1>7, SameGraphVisits DEF Graph!Next, Search!Next

-----------------------------------------------------------------------------
Fresh ==
  /\ pc = "start" /\ unvisited = {} /\ lastBarrier = {} /\ syncEdges = {}
  /\ threadSyncs = {} /\ todo = {} /\ src = <<>> /\ worklist = <<>>
  /\ visited = {} /\ syncReachable = <<>>

\* The graph is only built of a finished trace, which stays as it is.
GraphInv ==
  /\ pc = "start" => Fresh
  /\ pc # "start" => status = "done" /\ Search!Typed /\ Search!SearchInv

\* Before the constructor starts its state is well typed.
LEMMA FreshTyped ==
  ASSUME Fresh, Search!TraceOK(threads)
  PROVE  Search!Typed /\ Search!SearchInv
<1>1. DOMAIN syncReachable = {}
  BY DEF Fresh
<1>2. QED
  BY <1>1 DEF Fresh, Search!Typed, Search!SearchInv

\* A step of the composition is one of the graph, or leaves trace and graph alone
\* once the graph is begun.
LEMMA RaceSteps ==
  ASSUME [Next]_vars
  PROVE  \/ /\ status # "done"
            /\ UNCHANGED <<pc, unvisited, lastBarrier, syncEdges, threadSyncs, todo, src,
                           worklist, visited, syncReachable>>
         \/ status = "done" /\ pc # "done" /\ Search!Next /\ UNCHANGED status
         \/ UNCHANGED <<Search!vars, status>>
<1>1. CASE BuildTrace
  BY <1>1 DEF BuildTrace, graphVars
<1>2. CASE BuildGraph
  BY <1>2, SameGraphNext DEF BuildGraph
<1>3. CASE Detect
  BY <1>3 DEF Detect, buildVars, graphVars, Search!vars
<1>4. ASSUME NEW p, RunProgram(p)
      PROVE  UNCHANGED <<Search!vars, status>>
  BY <1>4 DEF RunProgram, buildVars, graphVars, Search!vars
<1>5. CASE Terminated \/ UNCHANGED vars
  BY <1>5 DEF Terminated, vars, buildVars, graphVars, Search!vars
<1>6. QED
  BY <1>1, <1>2, <1>3, <1>4, <1>5 DEF Next

\* Every step keeps the invariant.
LEMMA GraphInvNext ==
  ASSUME GraphInv, GraphInputOK, [Next]_vars
  PROVE  GraphInv'
<1>1. CASE /\ status # "done"
           /\ UNCHANGED <<pc, unvisited, lastBarrier, syncEdges, threadSyncs, todo, src,
                          worklist, visited, syncReachable>>
  BY <1>1 DEF GraphInv, Fresh
<1>2. CASE status = "done" /\ pc # "done" /\ Search!Next /\ UNCHANGED status
  <2>1. Search!Typed /\ Search!SearchInv
    <3>1. CASE pc = "start"
      <4>1. Graph!TraceOK(threads)
        BY <1>2, <3>1 DEF GraphInputOK
      <4>2. Search!TraceOK(threads)
        <5>1. \A s : Graph!Range(s) = Search!Range(s)
          BY DEF Graph!Range, Search!Range
        <5>2. \A n : Graph!IsForkIn(threads, n) <=> Search!IsForkIn(threads, n)
          BY SameEventsThere DEF Graph!IsForkIn, Search!IsForkIn
        <5>3. \A S : Graph!IsFiniteSet(S) <=> Search!IsFiniteSet(S)
          BY DEF Graph!IsFiniteSet, Search!IsFiniteSet
        <5>4. Graph!PIDsOf(threads) = Search!PIDsOf(threads)
          BY SameEventsThere
        <5>5. DOMAIN threads \subseteq Nat /\ Search!IsFiniteSet(Search!PIDsOf(threads))
          BY <4>1, <5>3, <5>4 DEF Graph!TraceOK
        <5>6. \A t \in DOMAIN threads : threads[t].events \in Seq(Search!Range(threads[t].events))
          BY <4>1, <5>1 DEF Graph!TraceOK
        <5>7. \A n \in Search!PIDsOf(threads) : Search!IsForkIn(threads, n) =>
                \E t \in DOMAIN threads : threads[t].spawnSite = n
          BY <4>1, <5>2, <5>4 DEF Graph!TraceOK
        <5>8. \A n \in Search!PIDsOf(threads) : LET e == threads[n[1]].events[n[2]] IN
                e.type = "Join" => e.fork = NoFork \/ Search!IsForkIn(threads, e.fork)
          BY <4>1, <5>2, <5>4 DEF Graph!TraceOK
        <5>9. QED
          BY <5>5, <5>6, <5>7, <5>8 DEF Search!TraceOK
      <4>3. QED
        BY <3>1, <4>2, FreshTyped DEF GraphInv
    <3>2. QED
      BY <3>1 DEF GraphInv
  <2>2. Search!Typed' /\ Search!SearchInv'
    BY <1>2, <2>1, Search!TypeStep, Search!SearchStep, SearchAssumption
  <2>3. pc' # "start"
    BY <1>2 DEF Search!Next, Search!Construct, Search!VisitFork, Search!VisitJoin, Search!JoinSpins, Search!VisitBarrier, Search!VisitOther,
      Search!Visit, Search!StartSearch, Search!PickSource, Search!Searching, Search!Expand, Search!FinishSource, Search!Finish, Search!Finished, Search!vars
  <2>4. QED
    BY <1>2, <2>2, <2>3 DEF GraphInv
<1>3. CASE UNCHANGED <<Search!vars, status>>
  <2>1. CASE pc = "start"
    BY <1>3, <2>1 DEF GraphInv, Fresh, Search!vars
  <2>2. CASE pc # "start"
    <3>1. Search!Typed' /\ Search!SearchInv'
      BY <1>3, <2>2, Search!TypeStep, Search!SearchStep, SearchAssumption DEF GraphInv
    <3>2. QED
      BY <1>3, <2>2, <3>1 DEF GraphInv, Search!vars
  <2>3. QED
    BY <2>1, <2>2
<1>4. QED
  BY <1>1, <1>2, <1>3, RaceSteps

\* Nothing is in the graph at first.
LEMMA InitGraphInv == Init => GraphInv
BY DEF Init, GraphInv, Fresh

\* What is proved of canReach is the same statement in the composition.
LEMMA SameExact == Graph!CanReachExact <=> Search!CanReachExact
<1>1. \A a, b : Graph!CanReach(a, b) <=> Search!CanReach(a, b)
  BY SameOrder DEF Graph!CanReach, Search!CanReach, Graph!FindNextSync, Search!FindNextSync,
    Graph!FindPrevSync, Search!FindPrevSync, Graph!HasEdge, Search!HasEdge,
    Graph!IsReachable, Search!IsReachable
<1>2. \A a : Graph!HappensAfter(a) = Search!HappensAfter(a)
  BY <1>1, SameEventsThere DEF Graph!HappensAfter, Search!HappensAfter
<1>3. Graph!EventSteps = Search!EventSteps
  BY SameEventsThere
  DEF Graph!EventSteps, Search!EventSteps, Graph!EventSuccessors, Search!EventSuccessors
<1>4. \A S, Steps : Graph!Closed(S, Steps) <=> Search!Closed(S, Steps)
  BY DEF Graph!Closed, Search!Closed
<1>5. QED
  BY <1>2, <1>3, <1>4, SameEventsThere DEF Graph!CanReachExact, Search!CanReachExact

\* The race detection asks a graph whose answers are exact.  The constructor is
\* run on the trace that was built before, whatever the program, and the trace
\* stays as it is while it is asked: AreParallel, by which pairs of accesses
\* are dropped, is the absence of a path between two events either way.
THEOREM RaceGraphExact == Spec => []Graph!CanReachExact
<1>1. Init => GraphInv
  BY InitGraphInv
<1>2. GraphInv /\ GraphInputOK /\ [Next]_vars => GraphInv'
  BY GraphInvNext
<1>3. GraphInv => Graph!CanReachExact
  BY Search!QueriesExact, SearchAssumption, SameExact DEF GraphInv, Search!CanReachExact
<1>4. QED
  BY <1>1, <1>2, <1>3, GraphInputHolds, PTL DEF Spec

-----------------------------------------------------------------------------
(***************************************************************************)
(* The report.  It is made once, of the finished trace, and the first of   *)
(* the two accesses of a pair is a write.                                  *)
(***************************************************************************)
ReportInv ==
  /\ pc # "start" => status = "done"
  /\ detection # "pending" => pc = "done"
  /\ detection = "pending" => reported = {}
  /\ \A r \in reported : r[1] \in Writes

\* What is reported of pairs that begin with a write begins with a write.
LEMMA ReportedWrites ==
  ASSUME NEW V, V = Verdicts, NEW r \in Reports!Report(Collected(V))
  PROVE  r[1] \in Writes
<1>1. PICK c \in Collected(V) : r = Reports!RaceOf(c)
  BY DEF Reports!Report
<1>2. c \in Candidates
  BY <1>1 DEF Collected, Verdicts
<1>3. c[1] \in Accesses("Write")
  BY <1>2 DEF Candidates, Accessing
<1>4. r[1] = Trace!EventAt(c[1]).ir.inst
  BY <1>1 DEF Reports!RaceOf, Reports!EventOf, Trace!EventAt
<1>5. QED
  BY <1>3, <1>4 DEF Writes

\* What is a write stays one.
LEMMA WritesStay == threads' = threads => Writes' = Writes
BY DEF Writes, Accesses, Trace!EventAt, Trace!EventPIDs

\* Every step keeps the invariant of the report.
LEMMA ReportNext ==
  ASSUME ReportInv, [Next]_vars
  PROVE  ReportInv'
<1>1. CASE BuildTrace
  BY <1>1 DEF BuildTrace, graphVars, reportVars, ReportInv
<1>2. CASE BuildGraph
  BY <1>2 DEF BuildGraph, reportVars, ReportInv
<1>3. CASE Detect
  <2>1. UNCHANGED <<pc, status, threads>> /\ pc = "done"
    BY <1>3 DEF Detect, buildVars, graphVars
  <2>2. PICK V : V = Verdicts
    OBVIOUS
  <2>3. \/ detection' = "done" /\ reported' = Reports!Report(Collected(V))
        \/ detection' = "crashed" /\ reported' = reported
    BY <1>3, <2>2 DEF Detect
  <2>4. \A r \in reported' : r[1] \in Writes
    BY <2>2, <2>3, ReportedWrites DEF ReportInv
  <2>5. QED
    BY <2>1, <2>3, <2>4, WritesStay DEF ReportInv
<1>4. ASSUME UNCHANGED <<pc, status, threads, detection, reported>>
      PROVE  ReportInv'
  BY <1>4, WritesStay DEF ReportInv
<1>5. ASSUME NEW p, RunProgram(p)
      PROVE  UNCHANGED <<pc, status, threads, detection, reported>>
  BY <1>5 DEF RunProgram, buildVars, graphVars, reportVars
<1>6. CASE Terminated \/ UNCHANGED vars
  BY <1>4, <1>6 DEF Terminated, vars, buildVars, graphVars, reportVars
<1>7. QED
  BY <1>1, <1>2, <1>3, <1>4, <1>5, <1>6 DEF Next

\* A race is reported in both orders only if both of its accesses are writes:
\* the constructor of Race leaves a pair in the order in which it was checked,
\* and that begins with a write, whatever the filters drop.
THEOREM ReadsComeSecond == Spec => []BothOrdersOnlyOfWrites
<1>1. Init => ReportInv
  BY DEF Init, ReportInv
<1>2. ReportInv /\ [Next]_vars => ReportInv'
  BY ReportNext
<1>3. ReportInv => BothOrdersOnlyOfWrites
  <2>1. ASSUME ReportInv, NEW r \in reported, <<r[2], r[1]>> \in reported
        PROVE  r[1] \in Writes /\ r[2] \in Writes
    BY <2>1 DEF ReportInv
  <2>2. QED
    BY <2>1 DEF BothOrdersOnlyOfWrites
<1>4. QED
  BY <1>1, <1>2, <1>3, PTL DEF Spec

-----------------------------------------------------------------------------
(***************************************************************************)
(* The pairs that are compared.  Sharing is decided by counting threads,   *)
(* and it is the set of threads of a finite trace that is counted.         *)
(***************************************************************************)
LEMMA AccessThreads ==
  ASSUME Build!Inv, NEW S \in SUBSET Trace!EventPIDs
  PROVE  /\ IsFiniteSet(ThreadsOf(S)) /\ Cardinality(ThreadsOf(S)) \in Nat
         /\ ThreadsOf(S) \subseteq Nat
<1>1. DOMAIN threads = 1..Len(threads) /\ Len(threads) \in Nat
  BY DEF Build!Inv, Build!Typed
<1>2. IsFiniteSet(1..Len(threads))
  BY <1>1, FS_Interval
<1>3. ThreadsOf(S) \subseteq 1..Len(threads)
  BY <1>1 DEF ThreadsOf, Trace!EventPIDs
<1>4. QED
  BY <1>1, <1>2, <1>3, FS_Subset, FS_CardinalityType

\* A set of two elements has more than one.
LEMMA TwoElements ==
  ASSUME NEW S, IsFiniteSet(S), NEW a \in S, NEW b \in S, a # b
  PROVE  Cardinality(S) > 1
<1>1. {b} \subseteq S /\ {b} # S
  OBVIOUS
<1>2. IsFiniteSet({b}) /\ Cardinality({b}) = 1
  BY FS_Singleton
<1>3. Cardinality({b}) <= Cardinality(S) /\ Cardinality(S) \in Nat
  BY <1>1, FS_Subset, FS_CardinalityType
<1>4. Cardinality({b}) # Cardinality(S)
  BY <1>1, FS_Subset
<1>5. QED
  BY <1>2, <1>3, <1>4

\* An object that one thread writes and another accesses is shared.
LEMMA ConflictsAreShared ==
  ASSUME Build!Inv, NEW obj, NEW write \in Accessing("Write", obj),
         NEW other \in Accessing("Read", obj) \cup Accessing("Write", obj),
         write[1] # other[1]
  PROVE  IsShared(obj)
<1> DEFINE writers == ThreadsOf(Accessing("Write", obj))
           readers == ThreadsOf(Accessing("Read", obj))
<1>1. /\ Accessing("Write", obj) \subseteq Trace!EventPIDs
      /\ Accessing("Read", obj) \subseteq Trace!EventPIDs
  BY DEF Accessing, Accesses
<1>2. /\ IsFiniteSet(writers) /\ Cardinality(writers) \in Nat
      /\ IsFiniteSet(readers) /\ Cardinality(readers) \in Nat
  BY <1>1, AccessThreads
<1>3. write[1] \in writers /\ other[1] \in readers \cup writers
  BY DEF ThreadsOf
<1> HIDE DEF writers, readers
<1>4. CASE other[1] \in writers
  BY <1>2, <1>3, <1>4, TwoElements DEF IsShared, writers
<1>5. CASE other[1] \in readers \ writers
  <2>1. Cardinality(writers) # 0 /\ Cardinality(readers) # 0
    BY <1>2, <1>3, <1>5, FS_EmptySet
  <2>2. writers # readers
    BY <1>5
  <2>3. Cardinality(writers) > 1 \/ Cardinality(writers) = 1
    BY <1>2, <2>1
  <2>4. Cardinality(readers) > 1 \/ Cardinality(readers) = 1
    BY <1>2, <2>1
  <2>5. QED
    BY <2>2, <2>3, <2>4 DEF IsShared, writers, readers
<1>6. QED
  BY <1>3, <1>4, <1>5

\* The loops of detectRaces meet every conflict, and nothing else.
LEMMA ConflictsAreCandidates ==
  ASSUME Build!Inv
  PROVE  Conflicts = {c \in Candidates : /\ ~Reports!MissingLocation(c[1])
                                         /\ ~Reports!MissingLocation(c[2])}
<1>1. \A c : c \in Candidates <=>
        \E obj \in {o \in Objects : IsShared(o)} : \E write \in Accessing("Write", obj) :
          \E other \in {n \in Accessing("Read", obj) : n[1] # write[1]}
                       \cup {n \in Accessing("Write", obj) : n[1] > write[1]} :
            c = <<write, other>>
  BY DEF Candidates
<1>2. \A type : \A n \in Accesses(type) : n[1] \in Nat
  BY DEF Accesses, Trace!EventPIDs, Build!Inv, Build!Typed
<1>3. Accesses("Read") \cap Accesses("Write") = {}
  BY DEF Accesses
<1>4. \A type, obj, n : n \in Accessing(type, obj) <=>
        n \in Accesses(type) /\ obj \in AccessedMemory(n)
  BY DEF Accessing
<1>5. ASSUME NEW c \in Conflicts
      PROVE  c \in Candidates
  <2>1. PICK write \in Accesses("Write"), other \in Accesses("Read") \cup Accesses("Write") :
          c = <<write, other>>
    BY <1>5 DEF Conflicts
  <2>2. /\ other \in Accesses("Write") => write[1] < other[1]
        /\ write[1] # other[1] /\ AccessedMemory(write) \cap AccessedMemory(other) # {}
    BY <1>5, <2>1 DEF Conflicts
  <2>3. PICK obj : obj \in AccessedMemory(write) /\ obj \in AccessedMemory(other)
    BY <2>2
  <2>4. write \in Accessing("Write", obj)
        /\ other \in Accessing("Read", obj) \cup Accessing("Write", obj)
    BY <1>4, <2>1, <2>3
  <2>5. IsShared(obj)
    BY <2>2, <2>4, ConflictsAreShared
  <2>6. obj \in Objects
    BY <2>3 DEF Objects
  <2>7. \/ other \in Accessing("Read", obj) /\ other[1] # write[1]
        \/ other \in Accessing("Write", obj) /\ other[1] > write[1]
    BY <1>2, <1>4, <2>1, <2>2, <2>4
  <2>8. QED
    BY <1>1, <2>1, <2>4, <2>5, <2>6, <2>7
<1>6. ASSUME NEW c \in Candidates, ~Reports!MissingLocation(c[1]), ~Reports!MissingLocation(c[2])
      PROVE  c \in Conflicts
  <2>1. PICK obj, write, other :
          /\ obj \in Objects /\ write \in Accessing("Write", obj)
          /\ other \in {n \in Accessing("Read", obj) : n[1] # write[1]}
                        \cup {n \in Accessing("Write", obj) : n[1] > write[1]}
          /\ c = <<write, other>>
    BY <1>1
  <2>2. /\ write \in Accesses("Write") /\ other \in Accesses("Read") \cup Accesses("Write")
        /\ obj \in AccessedMemory(write) \cap AccessedMemory(other)
    BY <1>4, <2>1
  <2>3. write[1] \in Nat /\ other[1] \in Nat
    BY <1>2, <2>2
  <2>4. write[1] # other[1] /\ (other \in Accesses("Write") => write[1] < other[1])
    BY <1>3, <1>4, <2>1, <2>3
  <2>5. QED
    BY <1>6, <2>1, <2>2, <2>4 DEF Conflicts
<1>7. QED
  BY <1>5, <1>6 DEF Conflicts

\* What is collected of them is what the filters keep.
LEMMA ReportOfVerdicts ==
  ASSUME Build!Inv
  PROVE  Reports!Report(Collected(Verdicts))
           = {Reports!RaceOf(c) : c \in {d \in Conflicts : Kept(d)}}
<1>1. Collected(Verdicts) = {c \in Candidates : Kept(c)}
  BY DEF Collected, Verdicts, Kept
<1>2. {q \in Collected(Verdicts) : ~Reports!MissingLocation(q[1]) /\ ~Reports!MissingLocation(q[2])}
        = {d \in Conflicts : Kept(d)}
  BY <1>1, ConflictsAreCandidates
<1>3. QED
  BY <1>2 DEF Reports!Report

\* The report is exactly the conflicts between threads that no filter drops: the
\* counting of getSharedObjects and the loops of detectRaces lose none of them,
\* for any number of threads and objects, and add none.
THEOREM NoConflictIsLost == Spec => ReportExact
<1>1. Init => Build!Inv
  BY SameInit, Build!InitInv, BuilderAssumptions DEF Init
<1>2. Build!Inv /\ [Next]_vars => Build!Inv'
  BY RaceStepsBuild, Build!NextKeeps, BuilderAssumptions
<1>3. Build!Inv /\ [Next]_vars =>
        [detection # "done" /\ detection' = "done" =>
           reported' = {Reports!RaceOf(c) : c \in {d \in Conflicts : Kept(d)}}]_vars
  <2> SUFFICES ASSUME Build!Inv, [Next]_vars, detection # "done", detection' = "done"
               PROVE  reported' = {Reports!RaceOf(c) : c \in {d \in Conflicts : Kept(d)}}
    OBVIOUS
  <2>1. ASSUME NEW p, RunProgram(p)
        PROVE  UNCHANGED detection
    BY <2>1 DEF RunProgram, reportVars
  <2>2. Detect
    BY <2>1 DEF Next, BuildTrace, BuildGraph, Terminated, vars, reportVars
  <2>3. reported' = Reports!Report(Collected(Verdicts))
    BY <2>2 DEF Detect
  <2>4. QED
    BY <2>3, ReportOfVerdicts
<1>4. QED
  BY <1>1, <1>2, <1>3, PTL DEF Spec, ReportExact
=============================================================================
