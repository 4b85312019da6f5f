------------------------- MODULE HappensBeforeGraph -------------------------
(***************************************************************************)
(* The happens-before graph of a program trace                             *)
(* (Analysis/HappensBeforeGraph.cpp).                                      *)
(*                                                                         *)
(* The constructor takes a finished program trace ("start") and is a       *)
(* sequential algorithm in two phases:                                     *)
(*   "build"   every event of every thread is visited in order; a fork, a  *)
(*             join or a barrier adds synchronisation edges;               *)
(*   "search"  for every synchronisation event, in ascending order, a      *)
(*             worklist search collects the synchronisation events it      *)
(*             reaches (syncReachable).                                    *)
(* Afterwards canReach and areParallel are queries on the finished graph.  *)
(*                                                                         *)
(* An event is named by its EventPID <<tid, eid>>.  Both count from 1 here *)
(* and from 0 in the code.                                                 *)
(***************************************************************************)
EXTENDS Naturals, Sequences, FiniteSets, Functions

CONSTANTS
  Traces,         \* the program traces the graph may be built from
  NoSpawn,        \* the spawnSite of the main thread (std::nullopt)
  NoFork,         \* a join whose fork is not known (std::nullopt)
  LoadPointer,    \* handle that is a load instruction -> its pointer operand
  StorePointers,  \* pointer -> pointer operands of the stores that use it
  PhiIncoming     \* handle that is a phi -> its first incoming value

(***************************************************************************)
(* A trace is a sequence of threads; a thread has a spawn site and events. *)
(* An event is a record with a type and the IR it was made from, which     *)
(* names the handle of a fork or join and the instruction of a barrier; a  *)
(* join also has the fork event, when that is known (OpenMPTaskJoin).      *)
(***************************************************************************)
PIDsOf(tr) == UNION {{t} \X DOMAIN tr[t].events : t \in DOMAIN tr}

IsForkIn(tr, n) == n \in PIDsOf(tr) /\ tr[n[1]].events[n[2]].type = "Fork"

TraceOK(tr) ==
  /\ DOMAIN tr \subseteq Nat
  /\ IsFiniteSet(PIDsOf(tr))
  /\ \A t \in DOMAIN tr : tr[t].events \in Seq(Range(tr[t].events))
  /\ \A n \in PIDsOf(tr) : IsForkIn(tr, n) =>
       \E t \in DOMAIN tr : tr[t].spawnSite = n
  /\ \A n \in PIDsOf(tr) : LET e == tr[n[1]].events[n[2]] IN
       e.type = "Join" => e.fork = NoFork \/ IsForkIn(tr, e.fork)

ASSUME TracesAssumption == \A tr \in Traces : TraceOK(tr)

VARIABLES
  threads,       \* the program trace
  pc,            \* "start", "build", "search" or "done"
  unvisited,     \* build: the events the two nested loops have not reached
  lastBarrier,   \* build: the last event seen for each barrier instruction
  syncEdges,     \* the edges between synchronisation events
  threadSyncs,   \* the synchronisation events
  todo,          \* search: the sources not yet searched
  src,           \* search: the source being searched, <<>> between sources
  worklist,      \* search: the deque of events to expand
  visited,       \* search: the events expanded so far from src
  syncReachable  \* searched source -> what it reaches

vars == <<threads, pc, unvisited, lastBarrier, syncEdges, threadSyncs,
          todo, src, worklist, visited, syncReachable>>

searchVars == <<todo, src, worklist, visited, syncReachable>>

-----------------------------------------------------------------------------
(***************************************************************************)
(* EventPIDs and their order.  An optional value is a set with at most one *)
(* element.                                                                *)
(***************************************************************************)
EventPIDs == PIDsOf(threads)

Event(n) == threads[n[1]].events[n[2]]

EventsOf(t) == {n \in EventPIDs : n[1] = t}

Before(m, n) == m[1] < n[1] \/ (m[1] = n[1] /\ m[2] < n[2])

First(S) == {n \in S : \A m \in S : m = n \/ Before(n, m)}

Last(S) == {n \in S : \A m \in S : m = n \/ Before(m, n)}

FirstNonEmpty(options) ==
  UNION {options[i] : i \in {k \in DOMAIN options :
           \A j \in DOMAIN options : j < k => options[j] = {}}}

ForksIn(S) == {n \in S : Event(n).type = "Fork"}

\* getForkWithHandle: events are searched in trace order.
ForkWithHandle(h, S) == First({n \in ForksIn(S) : Event(n).ir.handle = h})

-----------------------------------------------------------------------------
(***************************************************************************)
(* Which thread a fork starts and which fork a join waits for.             *)
(***************************************************************************)
ForkedThread(n) == CHOOSE t \in DOMAIN threads : threads[t].spawnSite = n

KnownFork(j) == {n \in ForksIn(EventPIDs) : n = Event(j).fork}

ForkThroughLoad(h) ==
  IF h \notin DOMAIN LoadPointer THEN {} ELSE
  LET p == LoadPointer[h]
      stores == IF p \in DOMAIN StorePointers THEN StorePointers[p] ELSE <<>>
  IN FirstNonEmpty(<<ForkWithHandle(p, EventPIDs)>> \o
       [i \in DOMAIN stores |-> ForkWithHandle(stores[i], EventPIDs)])

ForkThroughPhi(h) ==
  IF h \in DOMAIN PhiIncoming /\ PhiIncoming[h].isCall
  THEN ForkWithHandle(PhiIncoming[h].value, EventPIDs)
  ELSE {}

NearestFork(j) == Last({n \in ForksIn(EventsOf(j[1])) : Before(n, j)})

ForkByHandle(j) ==
  LET h == Event(j).ir.handle
  IN FirstNonEmpty(<<KnownFork(j),
                     ForkWithHandle(h, EventsOf(j[1])),
                     ForkWithHandle(h, EventPIDs),
                     ForkThroughLoad(h),
                     ForkThroughPhi(h)>>)

\* The while loop over a phi handle never changes its condition: it ends only
\* by finding a fork.
PhiLoops(j) == Event(j).ir.handle \in DOMAIN PhiIncoming /\ ForkByHandle(j) = {}

\* Mutant: every join is matched by the heuristic.
CorrespondingFork_Nearest(j) == NearestFork(j)

CorrespondingFork(j) == FirstNonEmpty(<<ForkByHandle(j), NearestFork(j)>>)

-----------------------------------------------------------------------------
(***************************************************************************)
(* Queries on the per-thread sorted lists of synchronisation events.       *)
(***************************************************************************)
FindNextSyncAfter(n) ==
  First({s \in threadSyncs : s[1] = n[1] /\ n[2] < s[2]})

\* Mutant: the search starts at the first synchronisation event of the thread.
FindNextSync_FromStart(n) == First({s \in threadSyncs : s[1] = n[1]})

FindNextSync(n) ==
  First({s \in threadSyncs : s[1] = n[1] /\ n[2] <= s[2]})

\* Mutant: a synchronisation event is not its own predecessor.
FindPrevSync_Strict(n) ==
  Last({s \in threadSyncs : s[1] = n[1] /\ s[2] < n[2]})

FindPrevSync(n) ==
  Last({s \in threadSyncs : s[1] = n[1] /\ s[2] <= n[2]})

EdgesFrom(n) == {m \in threadSyncs : <<n, m>> \in syncEdges}

HasEdge(m, n) == m = n \/ <<m, n>> \in syncEdges

IsReachable(m, n) == m \in DOMAIN syncReachable /\ n \in syncReachable[m]

CanReach(a, b) ==
  \E s \in FindNextSync(a), d \in FindPrevSync(b) :
    HasEdge(s, d) \/ IsReachable(s, d)

AreParallel(a, b) == ~CanReach(a, b) /\ ~CanReach(b, a)

-----------------------------------------------------------------------------
Init ==
  /\ threads \in Traces
  /\ pc = "start"
  /\ unvisited = {}
  /\ lastBarrier = {}
  /\ syncEdges = {}
  /\ threadSyncs = {}
  /\ todo = {}
  /\ src = <<>>
  /\ worklist = <<>>
  /\ visited = {}
  /\ syncReachable = <<>>

Construct ==
  /\ pc = "start"
  /\ pc' = "build"
  /\ unvisited' = EventPIDs
  /\ UNCHANGED <<threads, lastBarrier, syncEdges, threadSyncs>>
  /\ UNCHANGED searchVars

(***************************************************************************)
(* Phase 1: one visit per event.                                           *)
(***************************************************************************)
\* Mutant: only the target of an edge is registered with its thread.
AddSyncEdges_TargetsOnly(edges) ==
  /\ syncEdges' = syncEdges \cup edges
  /\ threadSyncs' = threadSyncs \cup {e[2] : e \in edges}

AddSyncEdges(edges) ==
  /\ syncEdges' = syncEdges \cup edges
  /\ threadSyncs' = threadSyncs \cup {e[1] : e \in edges} \cup {e[2] : e \in edges}

Visit(n) ==
  /\ pc = "build"
  /\ n \in First(unvisited)
  /\ unvisited' = unvisited \ {n}
  /\ UNCHANGED <<threads, pc>>
  /\ UNCHANGED searchVars

\* Mutant: the first event of the thread is taken without a check.
VisitFork_AssumesEvents(n) ==
  /\ Visit(n)
  /\ Event(n).type = "Fork"
  /\ \E m \in First(EventsOf(ForkedThread(n))) : AddSyncEdges({<<n, m>>})
  /\ UNCHANGED lastBarrier

\* A thread with no events is left out of the graph.
VisitFork(n) ==
  /\ Visit(n)
  /\ Event(n).type = "Fork"
  /\ AddSyncEdges({<<n, m>> : m \in First(EventsOf(ForkedThread(n)))})
  /\ UNCHANGED lastBarrier

VisitJoin(n) ==
  /\ Visit(n)
  /\ Event(n).type = "Join"
  /\ ~PhiLoops(n)
  /\ AddSyncEdges(UNION {{<<m, n>> : m \in Last(EventsOf(ForkedThread(f)))} :
                         f \in CorrespondingFork(n)})
  /\ UNCHANGED lastBarrier

\* getCorrespondingFork does not return.
JoinSpins(n) ==
  /\ pc = "build"
  /\ n \in First(unvisited)
  /\ Event(n).type = "Join"
  /\ PhiLoops(n)
  /\ UNCHANGED vars

VisitBarrier(n) ==
  /\ Visit(n)
  /\ Event(n).type = "Barrier"
  /\ LET previous == {m \in lastBarrier : Event(m).ir.inst = Event(n).ir.inst}
     IN /\ AddSyncEdges({<<n, m>> : m \in previous} \cup {<<m, n>> : m \in previous})
        /\ lastBarrier' = (lastBarrier \ previous) \cup {n}

VisitOther(n) ==
  /\ Visit(n)
  /\ Event(n).type \notin {"Fork", "Join", "Barrier"}
  /\ UNCHANGED <<lastBarrier, syncEdges, threadSyncs>>

StartSearch ==
  /\ pc = "build"
  /\ unvisited = {}
  /\ pc' = "search"
  /\ todo' = threadSyncs
  /\ UNCHANGED <<threads, unvisited, lastBarrier, syncEdges, threadSyncs,
                 src, worklist, visited, syncReachable>>

(***************************************************************************)
(* Phase 2: one search per synchronisation event.                          *)
(***************************************************************************)
Ascending(S) ==
  {s \in [1..Cardinality(S) -> S] :
     Range(s) = S /\ \A i, j \in DOMAIN s : i < j => Before(s[i], s[j])}

Searching ==
  /\ pc = "search"
  /\ UNCHANGED <<threads, unvisited, lastBarrier, syncEdges, threadSyncs>>

\* Mutant: the set of visited events is not cleared between sources.
PickSource_VisitedKept(n) ==
  /\ Searching
  /\ src = <<>>
  /\ n \in First(todo)
  /\ src' = n
  /\ worklist' = <<n>>
  /\ UNCHANGED <<pc, todo, visited, syncReachable>>

PickSource(n) ==
  /\ Searching
  /\ src = <<>>
  /\ n \in First(todo)
  /\ src' = n
  /\ worklist' = <<n>>
  /\ visited' = {}
  /\ UNCHANGED <<pc, todo, syncReachable>>

\* One turn of the while loop.  addToWorklist drops a node that was visited,
\* not one that is already waiting in the worklist.
Expand ==
  /\ Searching
  /\ src # <<>>
  /\ worklist # <<>>
  /\ LET node == Head(worklist)
     IN /\ visited' = visited \cup {node}
        /\ \E edges \in Ascending(EdgesFrom(node) \ visited'),
              after \in Ascending(FindNextSyncAfter(node) \ visited') :
             worklist' = Tail(worklist) \o edges \o after
  /\ UNCHANGED <<pc, todo, src, syncReachable>>

FinishSource ==
  /\ Searching
  /\ src # <<>>
  /\ worklist = <<>>
  /\ syncReachable' = [n \in DOMAIN syncReachable \cup {src} |->
                         IF n = src THEN visited ELSE syncReachable[n]]
  /\ todo' = todo \ {src}
  /\ src' = <<>>
  /\ UNCHANGED <<pc, worklist, visited>>

Finish ==
  /\ Searching
  /\ src = <<>>
  /\ todo = {}
  /\ pc' = "done"
  /\ UNCHANGED searchVars

\* The graph is not changed after its construction.
Finished == pc = "done" /\ UNCHANGED vars

Next ==
  \/ Construct
  \/ \E n \in unvisited :
       VisitFork(n) \/ VisitJoin(n) \/ JoinSpins(n) \/ VisitBarrier(n) \/ VisitOther(n)
  \/ StartSearch
  \/ \E n \in todo : PickSource(n)
  \/ Expand
  \/ FinishSource
  \/ Finish
  \/ Finished

Spec == Init /\ [][Next]_vars /\ WF_vars(Next)

-----------------------------------------------------------------------------
(***************************************************************************)
(* Type correctness of the constructor's state.                            *)
(***************************************************************************)
TypeOK ==
  /\ threads \in Traces
  /\ pc \in {"start", "build", "search", "done"}
  /\ unvisited \subseteq EventPIDs
  /\ lastBarrier \subseteq EventPIDs
  /\ threadSyncs \subseteq EventPIDs
  /\ syncEdges \subseteq threadSyncs \X threadSyncs
  /\ todo \subseteq threadSyncs
  /\ src = <<>> \/ src \in threadSyncs
  /\ worklist \in Seq(threadSyncs)
  /\ visited \subseteq threadSyncs
  /\ DOMAIN syncReachable \subseteq threadSyncs
  /\ \A n \in DOMAIN syncReachable : syncReachable[n] \subseteq threadSyncs

(***************************************************************************)
(* Reference definition of reachability: what a node reaches is the least  *)
(* set that holds it and is closed under the steps of the graph.           *)
(***************************************************************************)
SyncSuccessors(m) == EdgesFrom(m) \cup FindNextSyncAfter(m)

SyncSteps == UNION {{<<m, n>> : n \in SyncSuccessors(m)} : m \in threadSyncs}

Closed(S, Steps) == \A e \in Steps : e[1] \in S => e[2] \in S

(***************************************************************************)
(* Once built, the cache of the pre-search holds for every synchronisation *)
(* event exactly the events reachable from it over sync edges and          *)
(* thread-internal edges: the worklist (which may hold an event twice, and *)
(* skips visited ones) neither loses nor invents a path                    *)
(* (HappensBeforeGraph.cpp, "pre-search all reachable sync events").       *)
(***************************************************************************)
SyncReachableExact ==
  pc = "done" =>
    LET Steps == SyncSteps
    IN /\ DOMAIN syncReachable = threadSyncs
       /\ \A m \in threadSyncs : m \in syncReachable[m] /\ Closed(syncReachable[m], Steps)
       /\ \A S \in SUBSET threadSyncs :
            Closed(S, Steps) => \A m \in S : syncReachable[m] \subseteq S

(***************************************************************************)
(* The graph keeps only synchronisation events ("This shrinks the graph    *)
(* that needs to be searched").  The answers of canReach, with program     *)
(* order inside a thread, are exactly the paths of the full event graph,   *)
(* whose steps lead from an event to the next one of its thread and along  *)
(* the sync edges.                                                         *)
(***************************************************************************)
EventSuccessors(m) ==
  {n \in EventPIDs : (n[1] = m[1] /\ n[2] = m[2] + 1) \/ <<m, n>> \in syncEdges}

EventSteps == UNION {{<<m, n>> : n \in EventSuccessors(m)} : m \in EventPIDs}

HappensAfter(a) ==
  {b \in EventPIDs : (b[1] = a[1] /\ a[2] <= b[2]) \/ CanReach(a, b)}

CanReachExact ==
  pc = "done" =>
    LET Steps == EventSteps
    IN /\ \A a \in EventPIDs : Closed(HappensAfter(a), Steps)
       /\ \A S \in SUBSET EventPIDs :
            Closed(S, Steps) => \A a \in S : HappensAfter(a) \subseteq S

(***************************************************************************)
(* The constructor ends: a search only queues unvisited events, and every  *)
(* join is matched or given up.  The condition excludes the traces with a  *)
(* join whose handle is a phi that no lookup matches: getCorrespondingFork *)
(* does not return on them (see JoinsResolved).                            *)
(***************************************************************************)
NoPhiLoop == \A n \in EventPIDs : Event(n).type = "Join" => ~PhiLoops(n)

Termination == NoPhiLoop => <>(pc = "done")

(***************************************************************************)
(* What the comment of getCorrespondingFork says of every join: "If we     *)
(* still have not found the joined thread, use heuristics".  The heuristic *)
(* is out of reach of a join whose handle is an unmatched phi.             *)
(***************************************************************************)
JoinsResolved == <>(unvisited = {} /\ pc # "start")
=============================================================================
