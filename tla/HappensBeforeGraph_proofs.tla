--------------------- MODULE HappensBeforeGraph_proofs ---------------------
(***************************************************************************)
(* Proofs about the construction of the happens-before graph, for every    *)
(* set of finite traces.                                                   *)
(*                                                                         *)
(* SyncReachableExact is not inductive: the inductive invariant SearchInv  *)
(* says what a search in progress has established.  Its heart is           *)
(* CurrentSearch: the source is found, what an expanded event leads to is  *)
(* expanded or waiting, and nothing is found that a closed set with the    *)
(* source could leave out.                                                 *)
(*                                                                         *)
(* CanReachExact follows from the same invariant and an induction along    *)
(* the events of a thread.                                                 *)
(*                                                                         *)
(* The lemmas are about Typed, which asks of the trace only that the       *)
(* constructor can work with it: they hold wherever the trace comes from   *)
(* (RaceDetect_proofs).                                                    *)
(***************************************************************************)
EXTENDS HappensBeforeGraph, TLAPS, FiniteSetTheorems, SequenceTheorems,
        WellFoundedInduction

Typed ==
  /\ TraceOK(threads)
  /\ pc \in {"start", "build", "search", "done"}
  /\ unvisited \subseteq EventPIDs
  /\ lastBarrier \subseteq EventPIDs
  /\ threadSyncs \subseteq EventPIDs
  /\ syncEdges \subseteq threadSyncs \X threadSyncs
  /\ todo \subseteq threadSyncs
  /\ src = <<>> \/ src \in threadSyncs
  /\ worklist \in Seq(threadSyncs)
  /\ visited \subseteq threadSyncs
  /\ DOMAIN syncReachable \subseteq threadSyncs
  /\ \A n \in DOMAIN syncReachable : syncReachable[n] \subseteq threadSyncs

Found == visited \cup Range(worklist)

CurrentSearch ==
  /\ src \in Found
  /\ \A m \in visited : SyncSuccessors(m) \subseteq Found
  /\ \A S \in SUBSET threadSyncs :
       src \in S /\ Closed(S, SyncSteps) => Found \subseteq S

FinishedSearch(m) ==
  /\ m \in syncReachable[m]
  /\ \A k \in syncReachable[m] : SyncSuccessors(k) \subseteq syncReachable[m]
  /\ \A S \in SUBSET threadSyncs :
       m \in S /\ Closed(S, SyncSteps) => syncReachable[m] \subseteq S

SearchInv ==
  /\ pc \in {"start", "build"} => DOMAIN syncReachable = {} /\ src = <<>>
  /\ pc = "search" => threadSyncs = todo \cup DOMAIN syncReachable
  /\ pc = "done" => threadSyncs = DOMAIN syncReachable /\ src = <<>>
  /\ src # <<>> => src \in todo /\ CurrentSearch
  /\ \A m \in DOMAIN syncReachable : FinishedSearch(m)

-----------------------------------------------------------------------------
(***************************************************************************)
(* Lemmas about the operators of the model.                                *)
(***************************************************************************)

\* The first or last element of a set is an element of the set.
LEMMA FirstLastSubset ==
  ASSUME NEW S
  PROVE  First(S) \subseteq S /\ Last(S) \subseteq S
BY DEF First, Last

\* What a synchronisation event leads to is a synchronisation event.
LEMMA SuccessorsAreSyncs ==
  ASSUME NEW m
  PROVE  /\ EdgesFrom(m) \subseteq threadSyncs
         /\ FindNextSyncAfter(m) \subseteq threadSyncs
         /\ SyncSuccessors(m) \subseteq threadSyncs
BY FirstLastSubset DEF EdgesFrom, FindNextSyncAfter, SyncSuccessors

\* Being closed is being closed under SyncSuccessors.
LEMMA ClosedIffSuccessors ==
  ASSUME NEW S \in SUBSET threadSyncs
  PROVE  Closed(S, SyncSteps) <=> \A m \in S : SyncSuccessors(m) \subseteq S
<1>1. ASSUME Closed(S, SyncSteps), NEW m \in S, NEW n \in SyncSuccessors(m)
      PROVE  n \in S
  <2>1. <<m, n>> \in SyncSteps
    BY <1>1 DEF SyncSteps
  <2>2. QED
    BY <1>1, <2>1 DEF Closed
<1>2. ASSUME \A m \in S : SyncSuccessors(m) \subseteq S,
             NEW e \in SyncSteps, e[1] \in S
      PROVE  e[2] \in S
  <2>1. PICK m \in threadSyncs : e \in {<<m, n>> : n \in SyncSuccessors(m)}
    BY DEF SyncSteps
  <2>2. PICK n \in SyncSuccessors(m) : e = <<m, n>>
    BY <2>1
  <2>3. QED
    BY <1>2, <2>2
<1>3. QED
  BY <1>1, <1>2 DEF Closed

\* The first and the last event of a thread are events.
LEMMA EventsOfThread ==
  ASSUME NEW t
  PROVE  First(EventsOf(t)) \subseteq EventPIDs /\ Last(EventsOf(t)) \subseteq EventPIDs
BY FirstLastSubset DEF EventsOf

\* Ascending lists exactly the elements of a finite set.
LEMMA AscendingLists ==
  ASSUME NEW S, IsFiniteSet(S), NEW s \in Ascending(S)
  PROVE  s \in Seq(S) /\ Range(s) = S
<1>1. Cardinality(S) \in Nat
  BY FS_CardinalityType
<1>2. s \in [1..Cardinality(S) -> S] /\ Range(s) = S
  BY DEF Ascending
<1>3. QED
  BY <1>1, <1>2

\* The elements of a concatenation are those of its parts.
LEMMA RangeConcat ==
  ASSUME NEW T, NEW s \in Seq(T), NEW t \in Seq(T)
  PROVE  s \o t \in Seq(T) /\ Range(s \o t) = Range(s) \cup Range(t)
<1>1. s \o t \in Seq(T)
  OBVIOUS
<1>2. Range(s \o t) \subseteq Range(s) \cup Range(t)
  BY DEF Range
<1>3. ASSUME NEW i \in DOMAIN s PROVE s[i] \in Range(s \o t)
  <2>1. i \in DOMAIN (s \o t) /\ (s \o t)[i] = s[i]
    OBVIOUS
  <2>2. QED
    BY <2>1 DEF Range
<1>4. ASSUME NEW i \in DOMAIN t PROVE t[i] \in Range(s \o t)
  <2>1. Len(s) + i \in DOMAIN (s \o t) /\ (s \o t)[Len(s) + i] = t[i]
    OBVIOUS
  <2>2. QED
    BY <2>1 DEF Range
<1>5. QED
  BY <1>1, <1>2, <1>3, <1>4 DEF Range

\* The elements of a nonempty sequence are its head and those of its tail.
LEMMA RangeHeadTail ==
  ASSUME NEW T, NEW s \in Seq(T), s # <<>>
  PROVE  /\ Head(s) \in T /\ Tail(s) \in Seq(T)
         /\ Range(s) = {Head(s)} \cup Range(Tail(s))
<1>1. /\ Head(s) \in T /\ Tail(s) \in Seq(T) /\ Len(s) \in Nat \ {0}
      /\ Head(s) = s[1] /\ Len(Tail(s)) = Len(s) - 1
      /\ \A i \in 1..Len(s) - 1 : Tail(s)[i] = s[i + 1]
  OBVIOUS
<1>2. ASSUME NEW i \in DOMAIN s PROVE s[i] \in {Head(s)} \cup Range(Tail(s))
  <2>1. CASE i = 1
    BY <1>1, <2>1
  <2>2. CASE i # 1
    <3>1. i - 1 \in DOMAIN Tail(s) /\ Tail(s)[i - 1] = s[i]
      BY <1>1, <2>2
    <3>2. QED
      BY <3>1 DEF Range
  <2>3. QED
    BY <2>1, <2>2
<1>3. ASSUME NEW i \in DOMAIN Tail(s) PROVE Tail(s)[i] \in Range(s)
  <2>1. i + 1 \in DOMAIN s /\ Tail(s)[i] = s[i + 1]
    BY <1>1
  <2>2. QED
    BY <2>1 DEF Range
<1>4. Head(s) \in Range(s)
  BY <1>1 DEF Range
<1>5. QED
  BY <1>1, <1>2, <1>3, <1>4 DEF Range

-----------------------------------------------------------------------------
(***************************************************************************)
(* Type correctness.                                                       *)
(***************************************************************************)

\* The threads of the trace never change, so the events do not either.
LEMMA SameEvents ==
  ASSUME threads' = threads
  PROVE  EventPIDs' = EventPIDs
BY DEF EventPIDs

\* A trace has finitely many events, hence finitely many synchronisations.
LEMMA FiniteSyncs ==
  ASSUME Typed
  PROVE  IsFiniteSet(threadSyncs)
<1>1. IsFiniteSet(EventPIDs)
  BY DEF Typed, TraceOK, EventPIDs
<1>2. QED
  BY <1>1, FS_Subset DEF Typed

\* What one turn of the search loop does to the worklist.
LEMMA ExpandWorklist ==
  ASSUME Typed, Expand
  PROVE  /\ Head(worklist) \in threadSyncs
         /\ visited' = visited \cup {Head(worklist)}
         /\ worklist' \in Seq(threadSyncs)
         /\ Range(worklist) = {Head(worklist)} \cup Range(Tail(worklist))
         /\ Range(worklist') =
              Range(Tail(worklist)) \cup (SyncSuccessors(Head(worklist)) \ visited')
<1> DEFINE node == Head(worklist)
<1>1. worklist \in Seq(threadSyncs) /\ worklist # <<>>
  BY DEF Typed, Expand
<1>2. PICK T \in Seq(threadSyncs) : T = Tail(worklist)
  BY <1>1, RangeHeadTail
<1>3. node \in threadSyncs /\ Range(worklist) = {node} \cup Range(T)
  BY <1>1, <1>2, RangeHeadTail
<1>4. visited' = visited \cup {node}
  BY DEF Expand
<1>5. PICK edges \in Ascending(EdgesFrom(node) \ visited'),
           after \in Ascending(FindNextSyncAfter(node) \ visited') :
        worklist' = T \o edges \o after
  BY <1>2 DEF Expand
<1>6. /\ IsFiniteSet(EdgesFrom(node) \ visited')
      /\ IsFiniteSet(FindNextSyncAfter(node) \ visited')
  BY FiniteSyncs, SuccessorsAreSyncs, FS_Subset
<1>7. /\ edges \in Seq(EdgesFrom(node) \ visited')
      /\ Range(edges) = EdgesFrom(node) \ visited'
  BY <1>6, AscendingLists
<1>8. /\ after \in Seq(FindNextSyncAfter(node) \ visited')
      /\ Range(after) = FindNextSyncAfter(node) \ visited'
  BY <1>6, AscendingLists
<1>9. edges \in Seq(threadSyncs) /\ after \in Seq(threadSyncs)
  BY <1>7, <1>8, SuccessorsAreSyncs
<1>10. \A s, t \in Seq(threadSyncs) :
         s \o t \in Seq(threadSyncs) /\ Range(s \o t) = Range(s) \cup Range(t)
  BY RangeConcat
<1>11. PICK U \in Seq(threadSyncs) : U = T \o edges
  BY <1>9, <1>10
<1>12. Range(U) = Range(T) \cup Range(edges)
  BY <1>9, <1>10, <1>11
<1>13. worklist' = U \o after
  BY <1>5, <1>11
<1>14. worklist' \in Seq(threadSyncs) /\ Range(worklist') = Range(U) \cup Range(after)
  BY <1>9, <1>10, <1>13
<1>15. QED
  BY <1>2, <1>3, <1>4, <1>7, <1>8, <1>12, <1>14 DEF SyncSuccessors

\* The constructor does not change the trace.
LEMMA TraceStays == [Next]_vars => threads' = threads
BY DEF Next, vars, Construct, VisitFork, VisitJoin, JoinSpins, VisitBarrier, VisitOther,
  Visit, StartSearch, PickSource, Searching, Expand, FinishSource, Finish, Finished

\* Every step keeps the type of every variable.
LEMMA TypeStep ==
  ASSUME Typed, [Next]_vars
  PROVE  Typed'
<1> USE DEF Typed
<1>1. CASE Construct
  BY <1>1, SameEvents DEF Construct, searchVars
<1>2. ASSUME NEW n \in unvisited, VisitFork(n)
      PROVE  Typed'
  <2> DEFINE new == {<<n, m>> : m \in First(EventsOf(ForkedThread(n)))}
  <2>1. new \subseteq EventPIDs \X EventPIDs
    BY EventsOfThread
  <2>2. AddSyncEdges(new) /\ Visit(n) /\ UNCHANGED lastBarrier
    BY <1>2 DEF VisitFork
  <2> HIDE DEF new
  <2>3. QED
    BY <2>1, <2>2, SameEvents DEF AddSyncEdges, Visit, searchVars
<1>3. ASSUME NEW n \in unvisited, VisitJoin(n)
      PROVE  Typed'
  <2> DEFINE new == UNION {{<<m, n>> : m \in Last(EventsOf(ForkedThread(f)))} :
                             f \in CorrespondingFork(n)}
  <2>1. new \subseteq EventPIDs \X EventPIDs
    BY EventsOfThread
  <2>2. AddSyncEdges(new) /\ Visit(n) /\ UNCHANGED lastBarrier
    BY <1>3 DEF VisitJoin
  <2> HIDE DEF new
  <2>3. QED
    BY <2>1, <2>2, SameEvents DEF AddSyncEdges, Visit, searchVars
<1>4. ASSUME NEW n \in unvisited, JoinSpins(n)
      PROVE  Typed'
  BY <1>4, SameEvents DEF JoinSpins, vars
<1>5. ASSUME NEW n \in unvisited, VisitBarrier(n)
      PROVE  Typed'
  <2> DEFINE previous == {m \in lastBarrier : Event(m).ir.inst = Event(n).ir.inst}
             new == {<<n, m>> : m \in previous} \cup {<<m, n>> : m \in previous}
  <2>1. new \subseteq EventPIDs \X EventPIDs /\ previous \subseteq EventPIDs
    OBVIOUS
  <2>2. /\ AddSyncEdges(new) /\ Visit(n)
        /\ lastBarrier' = (lastBarrier \ previous) \cup {n}
    BY <1>5 DEF VisitBarrier
  <2> HIDE DEF new, previous
  <2>3. QED
    BY <2>1, <2>2, SameEvents DEF AddSyncEdges, Visit, searchVars
<1>6. ASSUME NEW n \in unvisited, VisitOther(n)
      PROVE  Typed'
  BY <1>6, SameEvents DEF VisitOther, Visit, searchVars
<1>7. CASE StartSearch
  BY <1>7, SameEvents DEF StartSearch
<1>8. ASSUME NEW n \in todo, PickSource(n)
      PROVE  Typed'
  BY <1>8, SameEvents DEF PickSource, Searching
<1>9. CASE Expand
  BY <1>9, ExpandWorklist, SameEvents DEF Expand, Searching
<1>10. CASE FinishSource
  BY <1>10, SameEvents DEF FinishSource, Searching
<1>11. CASE Finish
  BY <1>11, SameEvents DEF Finish, Searching, searchVars
<1>12. CASE Finished \/ UNCHANGED vars
  BY <1>12, SameEvents DEF Finished, vars
<1>13. QED
  BY <1>1, <1>2, <1>3, <1>4, <1>5, <1>6, <1>7, <1>8, <1>9, <1>10, <1>11, <1>12
  DEF Next

\* The state of the constructor is always well typed: edges and searches only
\* ever name synchronisation events of the trace.
THEOREM TypeCorrect == Spec => []TypeOK
<1> DEFINE Both == Typed /\ threads \in Traces
<1>1. Init => Both
  BY TracesAssumption DEF Init, Typed
<1>2. Both /\ [Next]_vars => Both'
  BY TypeStep, TraceStays
<1>3. Both => TypeOK
  BY DEF Typed, TypeOK
<1> HIDE DEF Both
<1>4. QED
  BY <1>1, <1>2, <1>3, PTL DEF Spec

LEMMA AlwaysTyped == Spec => []Typed
<1>1. Init => Typed
  BY TracesAssumption DEF Init, Typed
<1>2. Typed /\ [Next]_vars => Typed'
  BY TypeStep
<1>3. QED
  BY <1>1, <1>2, PTL DEF Spec

-----------------------------------------------------------------------------
(***************************************************************************)
(* The pre-search computes reachability.                                   *)
(***************************************************************************)

\* The search does not change the graph it walks.
LEMMA SameGraph ==
  ASSUME UNCHANGED <<threads, syncEdges, threadSyncs>>
  PROVE  /\ \A m : SyncSuccessors(m)' = SyncSuccessors(m)
         /\ SyncSteps' = SyncSteps
<1>1. \A m : EdgesFrom(m)' = EdgesFrom(m) /\ FindNextSyncAfter(m)' = FindNextSyncAfter(m)
  BY DEF EdgesFrom, FindNextSyncAfter
<1>2. \A m : SyncSuccessors(m)' = SyncSuccessors(m)
  BY <1>1 DEF SyncSuccessors
<1>3. QED
  BY <1>2 DEF SyncSteps

\* A finished search stays finished while neither it nor the graph changes.
LEMMA StaysFinished ==
  ASSUME UNCHANGED <<threads, syncEdges, threadSyncs>>,
         NEW m, syncReachable'[m] = syncReachable[m], FinishedSearch(m)
  PROVE  FinishedSearch(m)'
BY SameGraph DEF FinishedSearch

\* Taking a source starts a search that has found the source.
LEMMA PickKeeps ==
  ASSUME Typed, SearchInv, NEW n \in todo, PickSource(n)
  PROVE  SearchInv'
<1>1. /\ UNCHANGED <<threads, syncEdges, threadSyncs, syncReachable, todo, pc>>
      /\ pc = "search" /\ src' = n /\ worklist' = <<n>> /\ visited' = {}
  BY DEF PickSource, Searching
<1>2. Found' = {n}
  <2>1. Range(<<n>>) = {n}
    BY DEF Range
  <2>2. QED
    BY <1>1, <2>1 DEF Found
<1>3. CurrentSearch'
  BY <1>1, <1>2 DEF CurrentSearch
<1>4. ASSUME NEW m \in DOMAIN syncReachable'
      PROVE  FinishedSearch(m)'
  BY <1>1, StaysFinished DEF SearchInv
<1>5. QED
  BY <1>1, <1>3, <1>4 DEF SearchInv

\* Expanding an event keeps the search closed up to its worklist, and finds
\* nothing but what the source leads to.
LEMMA ExpandKeeps ==
  ASSUME Typed, SearchInv, Expand
  PROVE  SearchInv'
<1>1. /\ UNCHANGED <<threads, syncEdges, threadSyncs, syncReachable, todo, pc, src>>
      /\ pc = "search" /\ src # <<>>
  BY DEF Expand, Searching
<1>2. PICK node \in threadSyncs :
        /\ visited' = visited \cup {node}
        /\ node \in Found
        /\ Found' = Found \cup SyncSuccessors(node)
  BY ExpandWorklist DEF Found
<1>3. CurrentSearch
  BY <1>1 DEF SearchInv
<1>4. src' \in Found'
  BY <1>1, <1>2, <1>3 DEF CurrentSearch
<1>5. ASSUME NEW m \in visited'
      PROVE  SyncSuccessors(m)' \subseteq Found'
  BY <1>1, <1>2, <1>3, SameGraph DEF CurrentSearch
<1>6. ASSUME NEW S \in SUBSET threadSyncs, src \in S, Closed(S, SyncSteps)
      PROVE  Found' \subseteq S
  <2>1. Found \subseteq S
    BY <1>3, <1>6 DEF CurrentSearch
  <2>2. SyncSuccessors(node) \subseteq S
    BY <1>2, <1>6, <2>1, ClosedIffSuccessors
  <2>3. QED
    BY <1>2, <2>1, <2>2
<1>7. CurrentSearch'
  BY <1>1, <1>4, <1>5, <1>6, SameGraph DEF CurrentSearch
<1>8. ASSUME NEW m \in DOMAIN syncReachable'
      PROVE  FinishedSearch(m)'
  BY <1>1, StaysFinished DEF SearchInv
<1>9. QED
  BY <1>1, <1>7, <1>8 DEF SearchInv

\* An empty worklist leaves exactly what the source reaches.
LEMMA FinishSourceKeeps ==
  ASSUME Typed, SearchInv, FinishSource
  PROVE  SearchInv'
<1>1. /\ UNCHANGED <<threads, syncEdges, threadSyncs, pc>>
      /\ pc = "search" /\ src # <<>> /\ src' = <<>>
      /\ todo' = todo \ {src}
      /\ syncReachable' = [n \in DOMAIN syncReachable \cup {src} |->
                             IF n = src THEN visited ELSE syncReachable[n]]
  BY DEF FinishSource, Searching
<1>2. src \in todo /\ CurrentSearch
  BY <1>1 DEF SearchInv
<1>3. Found = visited
  BY DEF FinishSource, Found, Range
<1>4. ASSUME NEW m \in DOMAIN syncReachable'
      PROVE  FinishedSearch(m)'
  <2>1. CASE m = src
    BY <1>1, <1>2, <1>3, <2>1, SameGraph DEF CurrentSearch, FinishedSearch
  <2>2. CASE m # src
    BY <1>1, <2>2, StaysFinished DEF SearchInv
  <2>3. QED
    BY <2>1, <2>2
<1>5. threadSyncs' = todo' \cup DOMAIN syncReachable'
  BY <1>1, <1>2 DEF SearchInv
<1>6. QED
  BY <1>1, <1>4, <1>5 DEF SearchInv

\* While the graph is built nothing has been searched.
LEMMA BuildKeeps ==
  ASSUME SearchInv, pc \in {"start", "build"}, pc' \in {"build", "search"},
         UNCHANGED <<src, worklist, visited, syncReachable>>,
         pc' = "search" => todo' = threadSyncs'
  PROVE  SearchInv'
<1>1. DOMAIN syncReachable' = {} /\ src' = <<>>
  BY DEF SearchInv
<1>2. QED
  BY <1>1 DEF SearchInv

\* Every step keeps the invariant of the search.
LEMMA SearchStep ==
  ASSUME Typed, SearchInv, [Next]_vars
  PROVE  SearchInv'
<1>1. CASE Construct
  BY <1>1, BuildKeeps DEF Construct, searchVars
<1>2. ASSUME NEW n \in unvisited,
             VisitFork(n) \/ VisitJoin(n) \/ VisitBarrier(n) \/ VisitOther(n)
      PROVE  SearchInv'
  <2>1. Visit(n)
    BY <1>2 DEF VisitFork, VisitJoin, VisitBarrier, VisitOther
  <2>2. QED
    BY <2>1, BuildKeeps DEF Visit, searchVars
<1>3. CASE StartSearch
  BY <1>3, BuildKeeps DEF StartSearch
<1>4. ASSUME NEW n \in todo, PickSource(n)
      PROVE  SearchInv'
  BY <1>4, PickKeeps
<1>5. CASE Expand
  BY <1>5, ExpandKeeps
<1>6. CASE FinishSource
  BY <1>6, FinishSourceKeeps
<1>7. CASE Finish
  <2>1. ASSUME NEW m \in DOMAIN syncReachable'
        PROVE  FinishedSearch(m)'
    BY <1>7, StaysFinished DEF Finish, Searching, searchVars, SearchInv
  <2>2. QED
    BY <1>7, <2>1 DEF Finish, Searching, searchVars, SearchInv
<1>8. ASSUME UNCHANGED vars
      PROVE  SearchInv'
  <2>1. ASSUME NEW m \in DOMAIN syncReachable'
        PROVE  FinishedSearch(m)'
    BY <1>8, StaysFinished DEF vars, SearchInv
  <2>2. UNCHANGED <<pc, src, todo, threadSyncs, syncReachable>>
    BY <1>8 DEF vars
  <2>3. CurrentSearch' <=> CurrentSearch
    BY <1>8, SameGraph DEF vars, CurrentSearch, Found
  <2>4. QED
    BY <2>1, <2>2, <2>3 DEF SearchInv
<1>9. QED
  BY <1>1, <1>2, <1>3, <1>4, <1>5, <1>6, <1>7, <1>8
  DEF Next, JoinSpins, Finished

\* The invariant answers the question: when the search is done, every source
\* has the least closed set that holds it.
LEMMA SearchInvExact ==
  ASSUME Typed, SearchInv
  PROVE  SyncReachableExact
<1> SUFFICES ASSUME pc = "done"
             PROVE  /\ DOMAIN syncReachable = threadSyncs
                    /\ \A m \in threadSyncs : m \in syncReachable[m]
                         /\ Closed(syncReachable[m], SyncSteps)
                    /\ \A S \in SUBSET threadSyncs : Closed(S, SyncSteps) =>
                         \A m \in S : syncReachable[m] \subseteq S
  BY DEF SyncReachableExact
<1>1. DOMAIN syncReachable = threadSyncs
  BY DEF SearchInv
<1>2. ASSUME NEW m \in threadSyncs
      PROVE  m \in syncReachable[m] /\ Closed(syncReachable[m], SyncSteps)
  <2>1. FinishedSearch(m) /\ syncReachable[m] \in SUBSET threadSyncs
    BY <1>1 DEF SearchInv, Typed
  <2>2. QED
    BY <2>1, ClosedIffSuccessors DEF FinishedSearch
<1>3. ASSUME NEW S \in SUBSET threadSyncs, Closed(S, SyncSteps), NEW m \in S
      PROVE  syncReachable[m] \subseteq S
  <2>1. FinishedSearch(m)
    BY <1>1 DEF SearchInv
  <2>2. QED
    BY <1>3, <2>1 DEF FinishedSearch
<1>4. QED
  BY <1>1, <1>2, <1>3

\* The pre-search of the constructor is reachability in the graph: no pair of
\* ordered synchronisation events is lost and none is invented, for every
\* trace, whatever duplicates the worklist holds.
THEOREM SyncReachableCorrect == Spec => []SyncReachableExact
<1>1. Init => SearchInv
  BY DEF Init, SearchInv
<1>2. Typed /\ SearchInv /\ [Next]_vars => SearchInv'
  BY SearchStep
<1>3. Typed /\ SearchInv => SyncReachableExact
  BY SearchInvExact
<1>4. QED
  BY <1>1, <1>2, <1>3, AlwaysTyped, PTL DEF Spec

-----------------------------------------------------------------------------
(***************************************************************************)
(* The queries.  canReach looks at three synchronisation events only: the  *)
(* first one at or after a, the last one at or before b, and what the      *)
(* cache says of the two.  What lies between inside a thread is shown by   *)
(* the least position that would contradict it.                            *)
(***************************************************************************)
\* A set of positions has a least one.
LEMMA LeastPosition ==
  ASSUME NEW T \in SUBSET Nat, T # {}
  PROVE  \E x \in T : \A y \in T : x <= y
<1> DEFINE R == OpToRel(<, Nat)
<1>1. IsWellFoundedOn(R, Nat)
  BY NatLessThanWellFounded
<1>2. PICK x \in T : \A y \in T : ~ (<<y, x>> \in R)
  <2> HIDE DEF R
  <2>1. QED
    BY <1>1, WFMin
<1>3. \A y \in T : ~(y < x)
  BY <1>2 DEF OpToRel
<1>4. QED
  BY <1>3

\* A set of positions up to a bound has a greatest one.
LEMMA GreatestPosition ==
  ASSUME NEW T \in SUBSET Nat, T # {}, NEW max \in Nat, \A x \in T : x <= max
  PROVE  \E x \in T : \A y \in T : y <= x
<1> DEFINE U == {k \in Nat : max - k \in T}
<1>1. PICK z \in T : TRUE
  OBVIOUS
<1>2. max - z \in Nat /\ max - (max - z) = z
  BY <1>1
<1>3. max - z \in U
  BY <1>1, <1>2
<1>4. PICK k \in U : \A j \in U : k <= j
  BY <1>3, LeastPosition
<1>5. k \in Nat /\ max - k \in T
  BY <1>4
<1>6. ASSUME NEW y \in T PROVE y <= max - k
  <2>1. max - y \in Nat /\ max - (max - y) = y
    OBVIOUS
  <2>2. max - y \in U
    BY <2>1
  <2>3. k <= max - y
    BY <1>4, <2>2
  <2>4. QED
    BY <1>5, <2>1, <2>3
<1>7. QED
  BY <1>5, <1>6

\* An event is a position in the sequence of events of its thread.
LEMMA EventPositions ==
  ASSUME Typed, NEW n
  PROVE  /\ n \in EventPIDs <=>
              /\ n = <<n[1], n[2]>> /\ n[1] \in DOMAIN threads
              /\ n[2] \in 1..Len(threads[n[1]].events)
         /\ n \in EventPIDs => n[1] \in Nat /\ n[2] \in Nat /\ Len(threads[n[1]].events) \in Nat
<1>1. TraceOK(threads)
  BY DEF Typed
<1>2. \A t \in DOMAIN threads :
        /\ DOMAIN threads[t].events = 1..Len(threads[t].events)
        /\ Len(threads[t].events) \in Nat
  BY <1>1 DEF TraceOK
<1>3. n \in EventPIDs <=> \E t \in DOMAIN threads : n \in {t} \X DOMAIN threads[t].events
  BY DEF EventPIDs, PIDsOf
<1>4. DOMAIN threads \subseteq Nat
  BY <1>1 DEF TraceOK
<1>5. QED
  BY <1>2, <1>3, <1>4

\* Of some events of one thread, one is the first and one the last.
LEMMA FirstLastExist ==
  ASSUME Typed, NEW S \in SUBSET EventPIDs, S # {}, NEW t, \A n \in S : n[1] = t
  PROVE  First(S) # {} /\ Last(S) # {}
<1> DEFINE T == {n[2] : n \in S}
<1>1. PICK z \in S : TRUE
  OBVIOUS
<1>2. /\ T \in SUBSET Nat /\ T # {} /\ Len(threads[t].events) \in Nat
      /\ \A x \in T : x <= Len(threads[t].events)
  BY <1>1, EventPositions
<1>3. \A m, n \in S : m[1] = n[1] /\ m[1] \in Nat /\ m[2] \in Nat /\ (m[2] = n[2] => m = n)
  BY EventPositions
<1>4. First(S) # {}
  <2>1. PICK m \in S : \A y \in T : m[2] <= y
    BY <1>2, LeastPosition
  <2>2. \A n \in S : m[2] <= n[2]
    BY <2>1
  <2>3. \A n \in S : n = m \/ Before(m, n)
    BY <1>3, <2>2 DEF Before
  <2>4. QED
    BY <2>3 DEF First
<1>5. Last(S) # {}
  <2>1. PICK m \in S : \A y \in T : y <= m[2]
    BY <1>2, GreatestPosition
  <2>2. \A n \in S : n[2] <= m[2]
    BY <2>1
  <2>3. \A n \in S : n = m \/ Before(n, m)
    BY <1>3, <2>2 DEF Before
  <2>4. QED
    BY <2>3 DEF Last
<1>6. QED
  BY <1>4, <1>5

\* A closed set of events holds, with an event, the later ones of its thread.
LEMMA LaterEvents ==
  ASSUME Typed, NEW S \in SUBSET EventPIDs, Closed(S, EventSteps),
         NEW a \in S, NEW b \in EventPIDs, b[1] = a[1], a[2] <= b[2]
  PROVE  b \in S
<1> DEFINE t == a[1]
           T == {p \in Nat : p \in a[2]..b[2] /\ <<t, p>> \notin S}
<1>1. SUFFICES ASSUME b \notin S PROVE FALSE
  OBVIOUS
<1>2. /\ a = <<t, a[2]>> /\ b = <<t, b[2]>> /\ t \in DOMAIN threads
      /\ a[2] \in Nat /\ b[2] \in Nat /\ 1 <= a[2] /\ b[2] <= Len(threads[t].events)
      /\ Len(threads[t].events) \in Nat
  BY EventPositions
<1>3. T \in SUBSET Nat /\ b[2] \in T
  BY <1>1, <1>2
<1>4. PICK p \in T : \A q \in T : p <= q
  BY <1>3, LeastPosition
<1>5. p \in Nat /\ p \in a[2]..b[2] /\ <<t, p>> \notin S /\ p # a[2]
  BY <1>2, <1>4
<1>6. p - 1 \in Nat /\ p - 1 \in a[2]..b[2] /\ p - 1 \notin T
  BY <1>2, <1>4, <1>5
<1>7. <<t, p - 1>> \in S
  BY <1>6
<1>8. <<t, p>> \in EventPIDs
  BY <1>2, <1>5, EventPositions
<1>9. <<t, p>> \in EventSuccessors(<<t, p - 1>>)
  BY <1>5, <1>8 DEF EventSuccessors
<1>10. <<<<t, p - 1>>, <<t, p>>>> \in EventSteps
  BY <1>7, <1>9 DEF EventSteps
<1>11. <<t, p>> \in S
  BY <1>7, <1>10 DEF Closed
<1>12. QED
  BY <1>5, <1>11

\* The last of the synchronisation events before one of them leads to it.
LEMMA PreviousSyncLeadsTo ==
  ASSUME Typed, NEW m \in threadSyncs, NEW n \in threadSyncs, m[1] = n[1], m[2] < n[2]
  PROVE  \E k \in threadSyncs : /\ k[1] = n[1] /\ m[2] <= k[2] /\ k[2] < n[2]
                                /\ n \in FindNextSyncAfter(k)
<1> DEFINE S == {k \in threadSyncs : k[1] = n[1] /\ k[2] < n[2]}
<1>1. threadSyncs \subseteq EventPIDs
  BY DEF Typed
<1>2. S \in SUBSET EventPIDs /\ m \in S /\ \A k \in S : k[1] = n[1]
  BY <1>1
<1>3. PICK k \in Last(S) : TRUE
  <2> DEFINE t == n[1]
  <2>1. \A i \in S : i[1] = t
    BY <1>2
  <2> HIDE DEF t, S
  <2>2. QED
    BY <1>2, <2>1, FirstLastExist
<1>4. k \in S /\ \A i \in S : i = k \/ Before(i, k)
  BY <1>3 DEF Last
<1>5. \A i \in threadSyncs : i = <<i[1], i[2]>> /\ i[1] \in Nat /\ i[2] \in Nat
  BY <1>1, EventPositions
<1>6. m[2] <= k[2]
  BY <1>2, <1>4, <1>5 DEF Before
<1>7. ASSUME NEW i \in threadSyncs, i[1] = k[1], k[2] < i[2]
      PROVE  i = n \/ Before(n, i)
  <2>1. i \notin S
    BY <1>4, <1>5, <1>7 DEF Before
  <2>2. ~(i[2] < n[2])
    BY <1>4, <1>7, <2>1
  <2>3. QED
    BY <1>4, <1>5, <1>7, <2>2 DEF Before
<1>8. n \in FindNextSyncAfter(k)
  BY <1>4, <1>7 DEF FindNextSyncAfter, First
<1>9. QED
  BY <1>4, <1>6, <1>8

\* What is reached from a source holds the later syncs of a thread it enters.
LEMMA LaterSyncs ==
  ASSUME Typed, NEW W \in SUBSET threadSyncs, \A m \in W : SyncSuccessors(m) \subseteq W,
         NEW m \in W, NEW n \in threadSyncs, n[1] = m[1], m[2] <= n[2]
  PROVE  n \in W
<1> DEFINE t == m[1]
           T == {p \in Nat : m[2] <= p /\ <<t, p>> \in threadSyncs /\ <<t, p>> \notin W}
<1>1. SUFFICES ASSUME n \notin W PROVE FALSE
  OBVIOUS
<1>2. \A i \in threadSyncs : i = <<i[1], i[2]>> /\ i[1] \in Nat /\ i[2] \in Nat
  BY EventPositions DEF Typed
<1>3. T \in SUBSET Nat /\ n[2] \in T
  BY <1>1, <1>2
<1>4. PICK p \in T : \A q \in T : p <= q
  BY <1>3, LeastPosition
<1> DEFINE first == <<t, p>>
<1>5. /\ first \in threadSyncs /\ first \notin W /\ m[1] = first[1]
      /\ m[2] < first[2] /\ first[2] = p /\ p \in Nat
  BY <1>2, <1>4
<1>6. PICK k \in threadSyncs : /\ k[1] = t /\ m[2] <= k[2] /\ k[2] < p
                               /\ first \in FindNextSyncAfter(k)
  <2> HIDE DEF first
  <2>1. \E k \in threadSyncs : /\ k[1] = first[1] /\ m[2] <= k[2] /\ k[2] < first[2]
                               /\ first \in FindNextSyncAfter(k)
    BY <1>5, PreviousSyncLeadsTo
  <2>2. QED
    BY <1>5, <2>1
<1>7. k \in W
  <2>1. k = <<t, k[2]>> /\ k[2] \in Nat
    BY <1>2, <1>6
  <2>2. k[2] \notin T
    BY <1>4, <1>5, <1>6, <2>1
  <2>3. QED
    BY <1>6, <2>1, <2>2
<1>8. first \in W
  BY <1>6, <1>7 DEF SyncSuccessors
<1>9. QED
  BY <1>5, <1>8

\* The two queries on the sorted lists find the nearest synchronisation events.
LEMMA NearestSyncs ==
  ASSUME Typed, NEW a \in EventPIDs
  PROVE  /\ \A s \in FindNextSync(a) :
              /\ s \in threadSyncs /\ s[1] = a[1] /\ a[2] <= s[2]
              /\ \A n \in threadSyncs : n[1] = a[1] /\ a[2] <= n[2] => s[2] <= n[2]
         /\ \A d \in FindPrevSync(a) :
              /\ d \in threadSyncs /\ d[1] = a[1] /\ d[2] <= a[2]
              /\ \A n \in threadSyncs : n[1] = a[1] /\ n[2] <= a[2] => n[2] <= d[2]
<1>1. \A i \in threadSyncs : i[1] \in Nat /\ i[2] \in Nat
  BY EventPositions DEF Typed
<1>2. ASSUME NEW s \in FindNextSync(a)
      PROVE  /\ s \in threadSyncs /\ s[1] = a[1] /\ a[2] <= s[2]
             /\ \A n \in threadSyncs : n[1] = a[1] /\ a[2] <= n[2] => s[2] <= n[2]
  BY <1>1, <1>2 DEF FindNextSync, First, Before
<1>3. ASSUME NEW d \in FindPrevSync(a)
      PROVE  /\ d \in threadSyncs /\ d[1] = a[1] /\ d[2] <= a[2]
             /\ \A n \in threadSyncs : n[1] = a[1] /\ n[2] <= a[2] => n[2] <= d[2]
  BY <1>1, <1>3 DEF FindPrevSync, Last, Before
<1>4. QED
  BY <1>2, <1>3

\* They find one where there is one; a synchronisation event finds itself.
LEMMA NearestSyncsExist ==
  ASSUME Typed, NEW a \in EventPIDs, NEW n \in threadSyncs, n[1] = a[1]
  PROVE  /\ a[2] <= n[2] => FindNextSync(a) # {}
         /\ n = a => n \in FindPrevSync(a)
<1>1. threadSyncs \subseteq EventPIDs
  BY DEF Typed
<1>2. \A i \in threadSyncs : i = <<i[1], i[2]>> /\ i[1] \in Nat /\ i[2] \in Nat
  BY <1>1, EventPositions
<1>3. ASSUME a[2] <= n[2] PROVE FindNextSync(a) # {}
  <2> DEFINE S == {s \in threadSyncs : s[1] = a[1] /\ a[2] <= s[2]}
             t == a[1]
  <2>1. S \in SUBSET EventPIDs /\ S # {} /\ \A i \in S : i[1] = t
    BY <1>1, <1>3
  <2>2. FindNextSync(a) = First(S)
    BY DEF FindNextSync
  <2> HIDE DEF S, t
  <2>3. QED
    BY <2>1, <2>2, FirstLastExist
<1>4. ASSUME n = a PROVE n \in FindPrevSync(a)
  BY <1>2, <1>4 DEF FindPrevSync, Last, Before
<1>5. QED
  BY <1>3, <1>4

\* Of two synchronisation events, canReach asks whether the cache of the one
\* holds the other: the edges it looks at besides are in the cache.
LEMMA CacheAnswers ==
  ASSUME Typed, SearchInv, pc = "done", NEW s \in threadSyncs
  PROVE  /\ syncReachable[s] \in SUBSET threadSyncs /\ s \in syncReachable[s]
         /\ \A m \in syncReachable[s] : SyncSuccessors(m) \subseteq syncReachable[s]
         /\ \A S \in SUBSET threadSyncs :
              s \in S /\ Closed(S, SyncSteps) => syncReachable[s] \subseteq S
         /\ \A d \in threadSyncs :
              HasEdge(s, d) \/ IsReachable(s, d) <=> d \in syncReachable[s]
<1>1. s \in DOMAIN syncReachable /\ FinishedSearch(s)
  BY DEF SearchInv
<1>2. /\ syncReachable[s] \in SUBSET threadSyncs /\ s \in syncReachable[s]
      /\ \A m \in syncReachable[s] : SyncSuccessors(m) \subseteq syncReachable[s]
      /\ \A S \in SUBSET threadSyncs :
           s \in S /\ Closed(S, SyncSteps) => syncReachable[s] \subseteq S
  BY <1>1 DEF FinishedSearch, Typed
<1>3. ASSUME NEW d \in threadSyncs, HasEdge(s, d) PROVE d \in syncReachable[s]
  BY <1>2, <1>3 DEF HasEdge, SyncSuccessors, EdgesFrom
<1>4. QED
  BY <1>1, <1>2, <1>3 DEF IsReachable

\* What canReach holds after a is closed under the steps between events.
LEMMA HappensAfterClosed ==
  ASSUME Typed, SearchInv, pc = "done", NEW a \in EventPIDs,
         NEW b \in HappensAfter(a), NEW c \in EventSuccessors(b)
  PROVE  c \in HappensAfter(a)
<1>1. /\ b \in EventPIDs /\ c \in EventPIDs
      /\ a[2] \in Nat /\ b[2] \in Nat /\ c[2] \in Nat
  BY EventPositions DEF HappensAfter, EventSuccessors
<1>2. \A i \in threadSyncs : i \in EventPIDs /\ i = <<i[1], i[2]>> /\ i[1] \in Nat /\ i[2] \in Nat
  BY EventPositions DEF Typed
<1>3. ASSUME NEW s \in FindNextSync(a), NEW d \in FindPrevSync(c), d \in syncReachable[s]
      PROVE  c \in HappensAfter(a)
  <2>1. s \in threadSyncs /\ d \in threadSyncs
    BY <1>1, NearestSyncs
  <2>2. CanReach(a, c)
    BY <1>3, <2>1, CacheAnswers DEF CanReach
  <2>3. QED
    BY <1>1, <2>2 DEF HappensAfter
<1>4. CASE b[1] = a[1] /\ a[2] <= b[2]
  <2>1. CASE c[1] = b[1] /\ c[2] = b[2] + 1
    BY <1>1, <1>4, <2>1 DEF HappensAfter
  <2>2. CASE <<b, c>> \in syncEdges
    <3>1. b \in threadSyncs /\ c \in threadSyncs
      BY <2>2 DEF Typed
    <3>2. PICK s \in FindNextSync(a) : TRUE
      BY <1>4, <3>1, NearestSyncsExist
    <3>3. s \in threadSyncs /\ s[1] = b[1] /\ s[2] <= b[2]
      BY <1>4, <3>1, <3>2, NearestSyncs
    <3>4. b \in syncReachable[s]
      <4> DEFINE W == syncReachable[s]
      <4>1. W \in SUBSET threadSyncs /\ s \in W /\ \A m \in W : SyncSuccessors(m) \subseteq W
        BY <3>3, CacheAnswers
      <4> HIDE DEF W
      <4>2. b \in W
        BY <3>1, <3>3, <4>1, LaterSyncs
      <4>3. QED
        BY <4>2 DEF W
    <3>5. c \in SyncSuccessors(b)
      BY <2>2, <3>1 DEF SyncSuccessors, EdgesFrom
    <3>6. c \in syncReachable[s]
      BY <3>3, <3>4, <3>5, CacheAnswers
    <3>7. c \in FindPrevSync(c)
      BY <1>1, <3>1, NearestSyncsExist
    <3>8. QED
      BY <1>3, <3>6, <3>7
  <2>3. QED
    BY <2>1, <2>2 DEF EventSuccessors
<1>5. CASE CanReach(a, b)
  <2>1. PICK s \in FindNextSync(a), d \in FindPrevSync(b) : HasEdge(s, d) \/ IsReachable(s, d)
    BY <1>5 DEF CanReach
  <2>2. /\ s \in threadSyncs /\ d \in threadSyncs /\ d[1] = b[1] /\ d[2] <= b[2]
        /\ \A n \in threadSyncs : n[1] = b[1] /\ n[2] <= b[2] => n[2] <= d[2]
    BY <1>1, <2>1, NearestSyncs
  <2>3. d \in syncReachable[s]
    BY <2>1, <2>2, CacheAnswers
  <2>4. CASE c[1] = b[1] /\ c[2] = b[2] + 1
    <3>1. CASE c \in threadSyncs
      <4>1. c \in FindNextSyncAfter(d)
        <5>1. d[1] = c[1] /\ d[2] < c[2]
          BY <1>1, <1>2, <2>2, <2>4
        <5>2. ASSUME NEW i \in threadSyncs, i[1] = d[1], d[2] < i[2]
              PROVE  i = c \/ Before(c, i)
          <6>1. c[2] <= i[2]
            BY <1>1, <1>2, <2>2, <2>4, <5>2
          <6>2. c = <<c[1], c[2]>> /\ i = <<i[1], i[2]>> /\ i[1] = c[1]
            BY <1>2, <2>2, <2>4, <3>1, <5>2
          <6>3. QED
            BY <1>1, <1>2, <6>1, <6>2 DEF Before
        <5>3. QED
          BY <3>1, <5>1, <5>2 DEF FindNextSyncAfter, First
      <4>2. c \in syncReachable[s]
        BY <2>2, <2>3, <4>1, CacheAnswers DEF SyncSuccessors
      <4>3. c \in FindPrevSync(c)
        BY <1>1, <3>1, NearestSyncsExist
      <4>4. QED
        BY <1>3, <4>2, <4>3
    <3>2. CASE c \notin threadSyncs
      <4>1. \A n \in threadSyncs : n[1] = c[1] /\ n[2] <= c[2] <=> n[1] = b[1] /\ n[2] <= b[2]
        <5>1. TAKE n \in threadSyncs
        <5>2. c = <<c[1], c[2]>> /\ n = <<n[1], n[2]>> /\ n[2] \in Nat
          BY <1>1, <1>2, EventPositions
        <5>3. n[1] = c[1] => n[2] # c[2]
          BY <3>2, <5>2
        <5>4. QED
          BY <1>1, <2>4, <5>2, <5>3
      <4>2. FindPrevSync(c) = FindPrevSync(b)
        <5>1. {n \in threadSyncs : n[1] = c[1] /\ n[2] <= c[2]}
                = {n \in threadSyncs : n[1] = b[1] /\ n[2] <= b[2]}
          BY <4>1
        <5>2. QED
          BY <5>1 DEF FindPrevSync
      <4>3. QED
        BY <1>3, <2>3, <4>2
    <3>3. QED
      BY <3>1, <3>2
  <2>5. CASE <<b, c>> \in syncEdges
    <3>1. b \in threadSyncs /\ c \in threadSyncs
      BY <2>5 DEF Typed
    <3>2. d = b
      BY <1>2, <2>2, <3>1
    <3>3. c \in syncReachable[s]
      BY <2>2, <2>3, <2>5, <3>1, <3>2, CacheAnswers DEF SyncSuccessors, EdgesFrom
    <3>4. c \in FindPrevSync(c)
      BY <1>1, <3>1, NearestSyncsExist
    <3>5. QED
      BY <1>3, <3>3, <3>4
  <2>6. QED
    BY <2>4, <2>5 DEF EventSuccessors
<1>6. QED
  BY <1>4, <1>5 DEF HappensAfter

\* And nothing is held after a that a closed set with a could leave out.
LEMMA HappensAfterLeast ==
  ASSUME Typed, SearchInv, pc = "done", NEW S \in SUBSET EventPIDs, Closed(S, EventSteps),
         NEW a \in S, NEW b \in HappensAfter(a)
  PROVE  b \in S
<1>1. a \in EventPIDs /\ b \in EventPIDs /\ threadSyncs \subseteq EventPIDs
  BY DEF HappensAfter, Typed
<1>2. CASE b[1] = a[1] /\ a[2] <= b[2]
  BY <1>1, <1>2, LaterEvents
<1>3. CASE CanReach(a, b)
  <2> DEFINE U == S \cap threadSyncs
  <2>1. PICK s \in FindNextSync(a), d \in FindPrevSync(b) : HasEdge(s, d) \/ IsReachable(s, d)
    BY <1>3 DEF CanReach
  <2>2. /\ s \in threadSyncs /\ s[1] = a[1] /\ a[2] <= s[2]
        /\ d \in threadSyncs /\ b[1] = d[1] /\ d[2] <= b[2]
    BY <1>1, <2>1, NearestSyncs
  <2>3. s \in U
    BY <1>1, <2>2, LaterEvents
  <2>4. ASSUME NEW m \in U, NEW n \in SyncSuccessors(m) PROVE n \in U
    <3>1. m \in S /\ m \in EventPIDs /\ n \in threadSyncs /\ n \in EventPIDs
      BY <1>1, <2>4, SuccessorsAreSyncs
    <3>2. CASE n \in EdgesFrom(m)
      <4>1. n \in EventSuccessors(m)
        BY <3>1, <3>2 DEF EdgesFrom, EventSuccessors
      <4>2. <<m, n>> \in EventSteps
        BY <3>1, <4>1 DEF EventSteps
      <4>3. QED
        BY <3>1, <4>2 DEF Closed
    <3>3. CASE n \in FindNextSyncAfter(m)
      <4>1. n[1] = m[1] /\ m[2] < n[2] /\ m[2] \in Nat /\ n[2] \in Nat
        BY <3>1, <3>3, EventPositions DEF FindNextSyncAfter, First
      <4>2. m[2] <= n[2]
        BY <4>1
      <4>3. QED
        BY <3>1, <4>1, <4>2, LaterEvents
    <3>4. QED
      BY <2>4, <3>2, <3>3 DEF SyncSuccessors
  <2>5. Closed(U, SyncSteps)
    BY <2>4, ClosedIffSuccessors
  <2>6. d \in S
    BY <2>1, <2>2, <2>3, <2>5, CacheAnswers
  <2>7. QED
    BY <1>1, <2>2, <2>6, LaterEvents
<1>4. QED
  BY <1>2, <1>3 DEF HappensAfter

\* The invariants of a finished construction say all that is claimed of canReach.
LEMMA QueriesExact == Typed /\ SearchInv => CanReachExact
<1>1. SUFFICES ASSUME Typed, SearchInv, pc = "done"
               PROVE  /\ \A a \in EventPIDs : Closed(HappensAfter(a), EventSteps)
                      /\ \A S \in SUBSET EventPIDs :
                           Closed(S, EventSteps) => \A a \in S : HappensAfter(a) \subseteq S
  BY DEF CanReachExact
<1>2. ASSUME NEW a \in EventPIDs, NEW e \in EventSteps, e[1] \in HappensAfter(a)
      PROVE  e[2] \in HappensAfter(a)
  <2>1. PICK b \in EventPIDs : e \in {<<b, c>> : c \in EventSuccessors(b)}
    BY DEF EventSteps
  <2>2. PICK c \in EventSuccessors(b) : e = <<b, c>>
    BY <2>1
  <2>3. b \in HappensAfter(a)
    BY <1>2, <2>2
  <2>4. c \in HappensAfter(a)
    BY <1>1, <2>3, HappensAfterClosed
  <2>5. QED
    BY <2>2, <2>4
<1>3. \A a \in EventPIDs : Closed(HappensAfter(a), EventSteps)
  BY <1>2 DEF Closed
<1>4. QED
  BY <1>1, <1>3, HappensAfterLeast

\* The answers of canReach, with program order inside a thread, are exactly
\* the paths of the full event graph, although only synchronisation events are
\* kept: for every trace, no order is lost between two events and none invented.
THEOREM CanReachCorrect == Spec => []CanReachExact
<1>1. Init => SearchInv
  BY DEF Init, SearchInv
<1>2. Typed /\ SearchInv /\ [Next]_vars => SearchInv'
  BY SearchStep
<1>3. Typed /\ SearchInv => CanReachExact
  BY QueriesExact
<1>4. QED
  BY <1>1, <1>2, <1>3, AlwaysTyped, PTL DEF Spec
=============================================================================
