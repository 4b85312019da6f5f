------------------------ MODULE TraceBuilder_runtime ------------------------
(***************************************************************************)
(* Proofs about the runtime model of OpenMP, for every set of programs.    *)
(* It is one object for all threads, and right only because the builder    *)
(* leaves a region, and the thread that entered it, before it goes on with *)
(* what follows: the tasks of a parallel region are joined by its end,     *)
(* once each (TasksJoinedOnce), and nothing of a region is left when the   *)
(* trace is done (RuntimeStateReset).                                      *)
(***************************************************************************)
EXTENDS TraceBuilder_proofs

(***************************************************************************)
(* The tasks.  A task is unjoined as long as no join names it, and the     *)
(* runtime model lists the unjoined tasks once each.                       *)
(***************************************************************************)
Joined(n) == \E j \in EventPIDs : EventAt(j).fork = n

TaskInv ==
  /\ \A i, j \in 1..Len(unjoinedTasks) : i # j => unjoinedTasks[i] # unjoinedTasks[j]
  /\ \A n \in TaskForks : n \in ToSet(unjoinedTasks) <=> ~Joined(n)
  /\ \A j, k \in EventPIDs :
       EventAt(j).fork = EventAt(k).fork /\ EventAt(j).fork # NoFork => j = k

\* A step joins no task and spawns none, ...
QuietStep(t, evs) ==
  /\ t \in Tids /\ evs \in Seq(EventRecords) /\ Grows(t, evs)
  /\ \A k \in 1..Len(evs) : evs[k].type # "Fork" /\ evs[k].fork = NoFork
  /\ unjoinedTasks' = unjoinedTasks

\* ... joins all of them, ...
JoiningStep(evs) ==
  /\ Tid \in Tids /\ evs \in Seq(EventRecords) /\ Grows(Tid, evs)
  /\ Len(evs) = Len(unjoinedTasks) + 1
  /\ \A k \in 1..Len(evs) : evs[k].type # "Fork"
  /\ \A k \in 1..Len(unjoinedTasks) : evs[k].fork = unjoinedTasks[k]
  /\ evs[Len(unjoinedTasks) + 1].fork = NoFork
  /\ unjoinedTasks' = <<>>

\* ... or forks a thread, which may be a task.
ForkingStep(evs) ==
  /\ Tid \in Tids /\ evs \in Seq(EventRecords) /\ Grows(Tid, evs)
  /\ Len(evs) = 1 /\ evs[1].type = "Fork" /\ evs[1].fork = NoFork
  /\ unjoinedTasks' = IF evs[1].ir.type = "OpenMPTaskFork"
                      THEN Append(unjoinedTasks, <<Tid, Len(threads[Tid].events) + 1>>)
                      ELSE unjoinedTasks

\* No event is NoFork.
LEMMA EventsAreForks ==
  ASSUME Inv
  PROVE  /\ NoFork \notin EventPIDs /\ NoFork \notin TaskForks /\ TaskForks \subseteq EventPIDs
         /\ unjoinedTasks \in Seq(PIDs) /\ ToSet(unjoinedTasks) \subseteq TaskForks
         /\ Len(unjoinedTasks) \in Nat
         /\ \A n \in EventPIDs : EventAt(n).fork # NoFork => EventAt(n).fork \in TaskForks
<1>1. ASSUME NEW n \in EventPIDs PROVE n # NoFork
  <2>1. n = <<n[1], n[2]>> /\ n[1] \in DOMAIN threads /\ n[2] \in DOMAIN threads[n[1]].events
    BY EventPIDsAre
  <2>2. n[1] \in 1..Len(threads) /\ threads \in Seq(ThreadRecords)
    BY <2>1 DEF Inv, Typed
  <2>3. n[2] \in 1..Len(threads[n[1]].events) /\ threads[n[1]].events \in Seq(EventRecords)
    BY <2>1, <2>2, ThreadTyped
  <2>4. n[1] \in Nat \ {0} /\ n[2] \in Nat \ {0}
    BY <2>2, <2>3
  <2>5. QED
    BY <2>1, <2>4, NoneAssumption
<1>2. unjoinedTasks \in Seq(PIDs)
  BY DEF Inv, Typed
<1>3. QED
  BY <1>1, <1>2 DEF TaskForks, ForkEvents, Inv, JoinInv

LEMMA QuietKeepsTasks ==
  ASSUME Inv, TaskInv, NEW t, NEW evs, QuietStep(t, evs)
  PROVE  TaskInv'
<1>1. /\ \A n \in EventPIDs : n \in EventPIDs' /\ EventAt(n)' = EventAt(n)
      /\ \A n \in EventPIDs' : n \in EventPIDs \/
           \E k \in 1..Len(evs) : EventAt(n)' = evs[k]
  BY EventsGrow DEF QuietStep, Inv
<1>2. \A n \in EventPIDs' :
        \/ n \in EventPIDs
        \/ EventAt(n)'.type # "Fork" /\ EventAt(n)'.fork = NoFork
  BY <1>1 DEF QuietStep
<1>3. \A n : n \in TaskForks' <=> n \in TaskForks
  BY <1>1, <1>2 DEF TaskForks, ForkEvents
<1>4. ASSUME NEW n \in TaskForks PROVE Joined(n)' <=> Joined(n)
  <2>1. n # NoFork
    BY EventsAreForks
  <2>2. QED
    BY <1>1, <1>2, <2>1 DEF Joined
<1>5. ASSUME NEW j \in EventPIDs', NEW k \in EventPIDs',
             EventAt(j)'.fork = EventAt(k)'.fork, EventAt(j)'.fork # NoFork
      PROVE  j = k
  <2>1. j \in EventPIDs /\ k \in EventPIDs
    BY <1>2, <1>5
  <2>2. QED
    BY <1>1, <1>5, <2>1 DEF TaskInv
<1>6. unjoinedTasks' = unjoinedTasks
  BY DEF QuietStep
<1>7. \A n \in TaskForks' : n \in ToSet(unjoinedTasks)' <=> ~Joined(n)'
  BY <1>3, <1>4, <1>6 DEF TaskInv
<1>8. QED
  BY <1>5, <1>6, <1>7 DEF TaskInv

LEMMA ForkKeepsTasks ==
  ASSUME Inv, TaskInv, NEW evs, ForkingStep(evs)
  PROVE  TaskInv'
<1>1. PICK site : site = <<Tid, Len(threads[Tid].events) + 1>>
  OBVIOUS
<1>2. /\ Tid \in Tids /\ evs \in Seq(EventRecords) /\ Grows(Tid, evs) /\ Len(evs) = 1
      /\ 1 \in 1..Len(evs) /\ \A k \in 1..Len(evs) : k = 1
  BY DEF ForkingStep
<1>3. /\ \A n \in EventPIDs : n \in EventPIDs' /\ EventAt(n)' = EventAt(n)
      /\ \A n \in EventPIDs' : n \in EventPIDs \/ n = site
      /\ site \in EventPIDs' /\ site \notin EventPIDs /\ EventAt(site)' = evs[1]
  <2>1. PICK t \in Tids : t = Tid
    BY <1>2
  <2>2. /\ \A n \in EventPIDs : n \in EventPIDs' /\ EventAt(n)' = EventAt(n)
        /\ \A n \in EventPIDs' : n \in EventPIDs \/
             \E k \in 1..Len(evs) :
               n = <<t, Len(threads[t].events) + k>> /\ EventAt(n)' = evs[k]
        /\ \A k \in 1..Len(evs) : \A n : n = <<t, Len(threads[t].events) + k>> =>
             n \in EventPIDs' /\ n \notin EventPIDs /\ EventAt(n)' = evs[k]
    BY <1>2, <2>1, EventsGrow DEF Inv
  <2>3. QED
    BY <1>1, <1>2, <2>1, <2>2
<1>4. EventAt(site)'.fork = NoFork /\ EventAt(site)'.type = "Fork"
  BY <1>3 DEF ForkingStep
<1>5. \A n \in EventPIDs : Joined(n)' <=> Joined(n)
  <2>1. NoFork \notin EventPIDs
    BY EventsAreForks
  <2>2. QED
    BY <1>3, <1>4, <2>1 DEF Joined
<1>6. ~Joined(site)'
  <2>1. SUFFICES ASSUME NEW j \in EventPIDs', EventAt(j)'.fork = site PROVE FALSE
    BY DEF Joined
  <2>2. NoFork # site
    <3>1. Len(threads[Tid].events) \in Nat /\ Tid \in Nat \ {0}
      <4>1. threads[Tid].events \in Seq(EventRecords)
        BY <1>2, ThreadTyped DEF Inv, Typed, Tids
      <4>2. QED
        BY <1>2, <4>1, Numbers DEF Positions
    <3>2. QED
      BY <1>1, <3>1, NoneAssumption
  <2>3. j \in EventPIDs
    BY <1>3, <1>4, <2>1, <2>2
  <2>4. EventAt(j).fork = site
    BY <1>3, <2>1, <2>3
  <2>5. site \in EventPIDs
    BY <2>2, <2>3, <2>4, EventsAreForks
  <2>6. QED
    BY <1>3, <2>5
<1>7. ASSUME NEW j \in EventPIDs', NEW k \in EventPIDs',
             EventAt(j)'.fork = EventAt(k)'.fork, EventAt(j)'.fork # NoFork
      PROVE  j = k
  <2>1. j \in EventPIDs /\ k \in EventPIDs
    BY <1>3, <1>4, <1>7
  <2>2. QED
    BY <1>3, <1>7, <2>1 DEF TaskInv
<1>8. \A n \in EventPIDs : n \in TaskForks' <=> n \in TaskForks
  BY <1>3 DEF TaskForks, ForkEvents
<1>9. CASE evs[1].ir.type = "OpenMPTaskFork"
  <2>1. PICK tasks, more : tasks = unjoinedTasks /\ more = unjoinedTasks'
    OBVIOUS
  <2>2. PICK S : tasks \in Seq(S) /\ site \in S
    <3>1. tasks \in Seq(PIDs \cup {site})
      BY <2>1, EventsAreForks
    <3>2. QED
      BY <3>1
  <2>3. /\ more = Append(tasks, site) /\ Len(more) = Len(tasks) + 1 /\ Len(tasks) \in Nat
        /\ more[Len(tasks) + 1] = site /\ \A i \in 1..Len(tasks) : more[i] = tasks[i]
        /\ more \in Seq(S)
    BY <1>1, <1>9, <2>1, <2>2 DEF ForkingStep
  <2>4. \A n : n \in ToSet(more) <=> n \in ToSet(tasks) \/ n = site
    <3>1. \A n : n \in ToSet(more) <=> \E i \in 1..(Len(tasks) + 1) : n = more[i]
      BY <2>3 DEF ToSet
    <3>2. \A n : n \in ToSet(tasks) <=> \E i \in 1..Len(tasks) : n = tasks[i]
      BY <2>2 DEF ToSet
    <3>3. \A i \in 1..(Len(tasks) + 1) : i \in 1..Len(tasks) \/ i = Len(tasks) + 1
      BY <2>3
    <3>4. /\ \A i \in 1..Len(tasks) : i \in 1..(Len(tasks) + 1)
          /\ Len(tasks) + 1 \in 1..(Len(tasks) + 1)
      BY <2>3
    <3>5. QED
      BY <2>3, <3>1, <3>2, <3>3, <3>4
  <2>5. ToSet(tasks) \subseteq EventPIDs
    BY <2>1, EventsAreForks
  <2>6. \A n \in TaskForks' : n \in ToSet(more) <=> ~Joined(n)'
    <3>1. SUFFICES ASSUME NEW n \in TaskForks'
                   PROVE  n \in ToSet(more) <=> ~Joined(n)'
      OBVIOUS
    <3>2. CASE n \in EventPIDs
      <4>1. n \in TaskForks /\ n # site
        BY <1>3, <1>8, <3>2
      <4>2. n \in ToSet(tasks) <=> ~Joined(n)
        BY <2>1, <4>1 DEF TaskInv
      <4>3. QED
        BY <1>5, <2>4, <3>2, <4>1, <4>2
    <3>3. CASE n \notin EventPIDs
      <4>1. n = site
        BY <1>3, <3>3 DEF TaskForks, ForkEvents
      <4>2. QED
        BY <1>6, <2>4, <4>1
    <3>4. QED
      BY <3>2, <3>3
  <2>7. ASSUME NEW i \in 1..Len(more), NEW j \in 1..Len(more), i # j
        PROVE  more[i] # more[j]
    <3>1. \A k \in 1..Len(tasks) : tasks[k] # site
      <4>1. \A k \in 1..Len(tasks) : tasks[k] \in ToSet(tasks)
        BY <2>2 DEF ToSet
      <4>2. QED
        BY <1>3, <2>5, <4>1
    <3>2. \A k \in 1..Len(more) : k \in 1..Len(tasks) \/ k = Len(tasks) + 1
      BY <2>3
    <3>3. CASE i \in 1..Len(tasks) /\ j \in 1..Len(tasks)
      BY <2>1, <2>3, <2>7, <3>3 DEF TaskInv
    <3>4. QED
      BY <2>3, <2>7, <3>1, <3>2, <3>3
  <2>8. QED
    BY <1>7, <2>1, <2>6, <2>7 DEF TaskInv
<1>10. CASE evs[1].ir.type # "OpenMPTaskFork"
  <2>1. unjoinedTasks' = unjoinedTasks
    BY <1>10 DEF ForkingStep
  <2>2. \A n : n \in TaskForks' <=> n \in TaskForks
    <3>1. site \notin TaskForks'
      BY <1>3, <1>10 DEF TaskForks
    <3>2. \A n \in TaskForks' : n \in EventPIDs' /\ n # site
      BY <3>1 DEF TaskForks, ForkEvents
    <3>3. QED
      BY <1>3, <1>8, <3>2, EventsAreForks
  <2>3. \A n \in TaskForks' : n \in ToSet(unjoinedTasks)' <=> ~Joined(n)'
    BY <1>5, <2>1, <2>2, EventsAreForks DEF TaskInv
  <2>4. QED
    BY <1>7, <2>1, <2>3 DEF TaskInv
<1>11. QED
  BY <1>9, <1>10

LEMMA JoinKeepsTasks ==
  ASSUME Inv, TaskInv, NEW evs, JoiningStep(evs)
  PROVE  TaskInv'
<1>1. PICK t \in Tids, n0 \in Nat : t = Tid /\ n0 = Len(unjoinedTasks)
  BY EventsAreForks DEF JoiningStep
<1>2. /\ evs \in Seq(EventRecords) /\ Grows(t, evs) /\ Len(evs) = n0 + 1
      /\ \A k \in 1..Len(evs) : evs[k].type # "Fork"
      /\ \A k \in 1..n0 : evs[k].fork = unjoinedTasks[k]
      /\ evs[n0 + 1].fork = NoFork
      /\ unjoinedTasks' = <<>>
  BY <1>1 DEF JoiningStep
<1>3. /\ \A n \in EventPIDs : n \in EventPIDs' /\ EventAt(n)' = EventAt(n)
      /\ \A n \in EventPIDs' : n \in EventPIDs \/
           \E k \in 1..Len(evs) :
             n = <<t, Len(threads[t].events) + k>> /\ EventAt(n)' = evs[k]
      /\ \A k \in 1..Len(evs) : \A n : n = <<t, Len(threads[t].events) + k>> =>
           n \in EventPIDs' /\ EventAt(n)' = evs[k]
  BY <1>2, EventsGrow DEF Inv
<1>4. \A n : n \in TaskForks' <=> n \in TaskForks
  BY <1>2, <1>3 DEF TaskForks, ForkEvents
<1>5. \A k \in 1..n0 : unjoinedTasks[k] \in ToSet(unjoinedTasks)
  BY <1>1, EventsAreForks DEF ToSet
<1>6. \A k \in 1..n0 : unjoinedTasks[k] \in TaskForks /\ ~Joined(unjoinedTasks[k])
  BY <1>5, EventsAreForks DEF TaskInv
\* A new event joins a task that was unjoined.
<1>7. ASSUME NEW j \in EventPIDs', j \notin EventPIDs, EventAt(j)'.fork # NoFork
      PROVE  \E k \in 1..n0 : /\ j = <<t, Len(threads[t].events) + k>>
                              /\ EventAt(j)'.fork = unjoinedTasks[k]
  <2>1. PICK k \in 1..Len(evs) :
          j = <<t, Len(threads[t].events) + k>> /\ EventAt(j)' = evs[k]
    BY <1>3, <1>7
  <2>2. k # n0 + 1
    BY <1>2, <1>7, <2>1
  <2>3. k \in 1..n0
    BY <1>2, <2>2
  <2>4. QED
    BY <1>2, <2>1, <2>3
<1>8. ASSUME NEW n \in TaskForks PROVE Joined(n)'
  <2>1. CASE Joined(n)
    BY <1>3, <2>1 DEF Joined
  <2>2. CASE ~Joined(n)
    <3>1. n \in ToSet(unjoinedTasks)
      BY <2>2 DEF TaskInv
    <3>2. PICK k \in 1..n0 : n = unjoinedTasks[k]
      BY <1>1, <3>1, EventsAreForks DEF ToSet
    <3>3. PICK j : j = <<t, Len(threads[t].events) + k>>
      OBVIOUS
    <3>4. k \in 1..Len(evs)
      BY <1>2
    <3>5. j \in EventPIDs' /\ EventAt(j)' = evs[k]
      BY <1>3, <3>3, <3>4
    <3>6. EventAt(j)'.fork = n
      BY <1>2, <3>2, <3>5
    <3>7. QED
      BY <3>5, <3>6 DEF Joined
  <2>3. QED
    BY <2>1, <2>2
<1>9. ASSUME NEW j \in EventPIDs', NEW k \in EventPIDs',
             EventAt(j)'.fork = EventAt(k)'.fork, EventAt(j)'.fork # NoFork
      PROVE  j = k
  <2>1. CASE j \in EventPIDs /\ k \in EventPIDs
    BY <1>3, <1>9, <2>1 DEF TaskInv
  <2>2. CASE j \in EventPIDs /\ k \notin EventPIDs
    <3>1. PICK i \in 1..n0 : EventAt(k)'.fork = unjoinedTasks[i]
      BY <1>7, <1>9, <2>2
    <3>2. EventAt(j).fork = unjoinedTasks[i]
      BY <1>3, <1>9, <2>2, <3>1
    <3>3. QED
      BY <1>6, <2>2, <3>2 DEF Joined
  <2>3. CASE j \notin EventPIDs /\ k \in EventPIDs
    <3>1. PICK i \in 1..n0 : EventAt(j)'.fork = unjoinedTasks[i]
      BY <1>7, <1>9, <2>3
    <3>2. EventAt(k).fork = unjoinedTasks[i]
      BY <1>3, <1>9, <2>3, <3>1
    <3>3. QED
      BY <1>6, <2>3, <3>2 DEF Joined
  <2>4. CASE j \notin EventPIDs /\ k \notin EventPIDs
    <3>1. PICK a \in 1..n0 : /\ j = <<t, Len(threads[t].events) + a>>
                             /\ EventAt(j)'.fork = unjoinedTasks[a]
      BY <1>7, <1>9, <2>4
    <3>2. PICK b \in 1..n0 : /\ k = <<t, Len(threads[t].events) + b>>
                             /\ EventAt(k)'.fork = unjoinedTasks[b]
      BY <1>7, <1>9, <2>4
    <3>3. a = b
      BY <1>1, <1>9, <3>1, <3>2 DEF TaskInv
    <3>4. QED
      BY <3>1, <3>2, <3>3
  <2>5. QED
    BY <2>1, <2>2, <2>3, <2>4
<1>10. Len(unjoinedTasks') = 0 /\ ToSet(unjoinedTasks') = {}
  BY <1>2 DEF ToSet
<1>11. \A n \in TaskForks' : n \in ToSet(unjoinedTasks)' <=> ~Joined(n)'
  BY <1>4, <1>8, <1>10
<1>12. QED
  BY <1>9, <1>10, <1>11 DEF TaskInv


(***************************************************************************)
(* Which of these a step is.                                               *)
(***************************************************************************)
\* An appended event that is no join names no fork.
LEMMA NotJoins ==
  ASSUME Inv, Inv', NEW t \in Tids, NEW evs \in Seq(EventRecords), Grows(t, evs),
         NEW k \in 1..Len(evs), evs[k].type # "Join"
  PROVE  evs[k].fork = NoFork
<1>1. PICK n : n = <<t, Len(threads[t].events) + k>>
  OBVIOUS
<1>2. n \in EventPIDs' /\ EventAt(n)' = evs[k]
  BY <1>1, EventsGrow DEF Inv
<1>3. \A m \in EventPIDs' : EventAt(m)'.fork # NoFork => EventAt(m)'.type = "Join"
  BY DEF Inv, JoinInv
<1>4. QED
  BY <1>2, <1>3

\* Events that are neither forks nor joins.
LEMMA PlainStep ==
  ASSUME Inv, Inv', NEW t \in Tids, NEW evs \in Seq(EventRecords), Grows(t, evs),
         \A k \in 1..Len(evs) : evs[k].type \notin {"Fork", "Join"},
         unjoinedTasks' = unjoinedTasks
  PROVE  QuietStep(t, evs)
BY NotJoins DEF QuietStep

\* An IR that is passed over, skipped or refused appends nothing.
LEMMA SilentStep ==
  ASSUME Inv, SkipToTarget \/ SkipSerial \/ SkipInTeams \/ SkipTask
              \/ SkipMasterRegion \/ VisitUnresolvedCall \/ VisitRecursiveFork
  PROVE  \E t, evs : QuietStep(t, evs)
<1> USE DEF Visited, Unskipped, Reached
<1>1. HasIR /\ status = "building" /\ Typed /\ StackInv
  BY DEF SkipToTarget, SkipSerial, SkipInTeams, SkipTask, SkipMasterRegion,
         VisitUnresolvedCall, VisitRecursiveFork, Inv, HasIR
<1>2. /\ Tid \in Tids /\ threads \in Seq(ThreadRecords) /\ threads[Tid] \in ThreadRecords
      /\ threads[Tid].events \in Seq(EventRecords) /\ unjoinedTasks \in Seq(PIDs)
  BY <1>1, TopTyped, ThreadTyped DEF Typed, Tids
<1>3. PICK evs : evs = <<>>
  OBVIOUS
<1>4. evs \in Seq(EventRecords) /\ \A k \in 1..Len(evs) : FALSE
  BY <1>3
<1>5. Grows(Tid, evs)
  <2>1. CASE SkipToTarget
    BY <1>1, <1>2, <1>3, <2>1, NothingGrows DEF SkipToTarget
  <2>2. CASE SkipMasterRegion
    <3>1. PICK region \in masterRegions :
            threads' = [threads EXCEPT ![Tid].skipUntil = region[2]]
      BY <2>2 DEF SkipMasterRegion
    <3>2. region[2] \in Insts
      BY <1>1 DEF Typed
    <3>3. PICK r : r = [threads[Tid] EXCEPT !.skipUntil = region[2]]
      OBVIOUS
    <3>4. threads' = [threads EXCEPT ![Tid] = r]
      BY <1>2, <3>1, <3>3 DEF Tids
    <3>5. /\ r \in ThreadRecords /\ r.spawnSite = threads[Tid].spawnSite
          /\ r.entry = threads[Tid].entry /\ r.events = threads[Tid].events
      BY <1>2, <3>2, <3>3 DEF ThreadRecords
    <3>6. r.events = threads[Tid].events \o evs
      BY <1>2, <1>3, <3>5
    <3>7. QED
      BY <1>1, <1>2, <1>4, <3>4, <3>5, <3>6, ThreadReplaced
  <2>3. CASE SkipSerial \/ SkipInTeams \/ SkipTask \/ VisitUnresolvedCall \/ VisitRecursiveFork
    <3>1. threads' = Emit(evs)
      BY <1>3, <2>3 DEF SkipSerial, SkipInTeams, SkipTask, VisitUnresolvedCall,
                        VisitRecursiveFork, Pass
    <3>2. QED
      BY <1>1, <1>4, <3>1, EmitGrows
  <2>4. QED
    BY <2>1, <2>2, <2>3
<1>6. unjoinedTasks' = unjoinedTasks
  <2>1. CASE VisitRecursiveFork
    <3>1. IRNow.type \in ForkTypes
      BY <2>1, KindTyped DEF VisitRecursiveFork
    <3>2. ~JoinsTasks
      BY <3>1 DEF JoinsTasks, ForkTypes
    <3>3. unjoinedTasks' = unjoinedTasks \o <<>>
      BY <2>1, <3>2 DEF VisitRecursiveFork, PreVisit, TasksLeft
    <3>4. QED
      BY <1>2, <3>3
  <2>2. CASE ~VisitRecursiveFork
    BY <2>2 DEF SkipToTarget, SkipSerial, SkipInTeams, SkipTask, SkipMasterRegion,
                VisitUnresolvedCall, Pass, runtimeVars
  <2>3. QED
    BY <2>1, <2>2
<1>7. QuietStep(Tid, evs)
  BY <1>2, <1>4, <1>5, <1>6 DEF QuietStep
<1>8. QED
  BY <1>7

\* An event of the trace joins all tasks or none.
LEMMA EventStep ==
  ASSUME Inv, VisitEvent \/ VisitExternCall
  PROVE  (\E t, evs : QuietStep(t, evs)) \/ (\E evs : JoiningStep(evs))
<1> USE DEF Visited, Unskipped, Reached
<1>1. HasIR /\ status = "building" /\ Typed /\ StackInv
  BY DEF VisitEvent, VisitExternCall, Inv, HasIR
<1>2. Tid \in Tids /\ IRNow \in IRs /\ unjoinedTasks \in Seq(PIDs)
  BY <1>1, TopTyped, IRTyped DEF Typed
<1>3. PICK type \in EventTypes \ {"Fork"} :
        threads' = Emit(Append(TaskJoins, NewEvent(type, IRNow)))
  <2>1. CASE VisitEvent
    BY <2>1, KindTyped DEF VisitEvent
  <2>2. CASE VisitExternCall
    <3>1. "ExternCall" \in EventTypes \ {"Fork"}
      BY DEF EventTypes
    <3>2. QED
      BY <2>2, <3>1 DEF VisitExternCall
  <2>3. QED
    BY <2>1, <2>2
<1>4. PICK e : e = NewEvent(type, IRNow)
  OBVIOUS
<1>5. e \in EventRecords /\ e.type # "Fork" /\ e.fork = NoFork
  BY <1>1, <1>2, <1>4, NewEventTyped
<1>6. TaskJoins \in Seq(EventRecords) /\ \A k \in 1..Len(TaskJoins) : TaskJoins[k].type = "Join"
  BY <1>1, TaskJoinsTyped
<1>7. PICK evs : evs = Append(TaskJoins, e)
  OBVIOUS
<1>8. /\ evs \in Seq(EventRecords) /\ Len(TaskJoins) \in Nat
      /\ Len(evs) = Len(TaskJoins) + 1 /\ evs[Len(TaskJoins) + 1] = e
      /\ \A k \in 1..Len(TaskJoins) : evs[k] = TaskJoins[k]
  BY <1>5, <1>6, <1>7
<1>9. Grows(Tid, evs)
  BY <1>1, <1>3, <1>4, <1>7, <1>8, EmitGrows
<1>10. \A k \in 1..Len(evs) : k \in 1..Len(TaskJoins) \/ k = Len(TaskJoins) + 1
  BY <1>8
<1>11. \A k \in 1..Len(evs) : evs[k].type # "Fork"
  BY <1>5, <1>6, <1>8, <1>10
<1>12. unjoinedTasks' = TasksLeft
  <2>1. unjoinedTasks' = TasksLeft \o <<>>
    BY DEF VisitEvent, VisitExternCall, PreVisit
  <2>2. TasksLeft \in Seq(PIDs)
    BY <1>2 DEF TasksLeft
  <2>3. QED
    BY <2>1, <2>2
<1>13. CASE JoinsTasks
  <2>1. DOMAIN unjoinedTasks = 1..Len(unjoinedTasks) /\ Len(unjoinedTasks) \in Nat
    BY <1>2
  <2>2. PICK irs : TaskJoins = [i \in DOMAIN unjoinedTasks |->
          [NewEvent("Join", irs[i]) EXCEPT !.fork = unjoinedTasks[i]]]
    <3>1. PICK irs : irs = [i \in DOMAIN unjoinedTasks |->
            [type |-> "OpenMPTaskJoin", inst |-> EventAt(unjoinedTasks[i]).ir.inst,
             handle |-> EventAt(unjoinedTasks[i]).ir.entry]]
      OBVIOUS
    <3>2. TaskJoins = [i \in DOMAIN unjoinedTasks |->
            [NewEvent("Join", irs[i]) EXCEPT !.fork = unjoinedTasks[i]]]
      BY <1>13, <3>1 DEF TaskJoins
    <3>3. QED
      BY <3>2
  <2>3. Len(TaskJoins) = Len(unjoinedTasks)
    BY <1>6, <2>1, <2>2
  <2>4. \A i \in 1..Len(unjoinedTasks) : TaskJoins[i].fork = unjoinedTasks[i]
    BY <2>1, <2>2 DEF NewEvent
  <2>5. unjoinedTasks' = <<>>
    BY <1>12, <1>13 DEF TasksLeft
  <2>6. JoiningStep(evs)
    BY <1>2, <1>5, <1>8, <1>9, <1>11, <2>3, <2>4, <2>5 DEF JoiningStep
  <2>7. QED
    BY <2>6
<1>14. CASE ~JoinsTasks
  <2>1. TaskJoins = <<>> /\ unjoinedTasks' = unjoinedTasks
    BY <1>12, <1>14 DEF TaskJoins, TasksLeft
  <2>2. \A k \in 1..Len(evs) : evs[k].fork = NoFork
    BY <1>5, <1>8, <1>10, <2>1
  <2>3. QuietStep(Tid, evs)
    BY <1>2, <1>8, <1>9, <1>11, <2>1, <2>2 DEF QuietStep
  <2>4. QED
    BY <2>3
<1>15. QED
  BY <1>13, <1>14

\* Calls and returns leave the tasks alone.
LEMMA CallStep ==
  ASSUME Inv, Inv', VisitRecursiveCall \/ VisitCall \/ ReturnFromCall \/ ReturnFromThread
  PROVE  \E t, evs : QuietStep(t, evs)
<1>1. unjoinedTasks' = unjoinedTasks
  BY DEF VisitRecursiveCall, VisitCall, ReturnFromCall, ReturnFromThread, runtimeVars
<1>2. status = "building" /\ Tid \in Tids
  <2>1. status = "building"
    BY DEF VisitRecursiveCall, VisitCall, ReturnFromCall, ReturnFromThread, Visited,
           Unskipped, Reached, HasIR, Ended
  <2>2. QED
    BY <2>1, TopTyped DEF Inv
<1>3. CASE VisitRecursiveCall
  <2>1. HasIR /\ IRNow \in IRs /\ threads' = Emit(RecursiveCallEvents)
    BY <1>3, IRTyped DEF VisitRecursiveCall, Visited, Unskipped, Reached, Inv
  <2>2. PICK enter, leave :
          enter = NewEvent("EnterCall", IRNow) /\ leave = NewEvent("LeaveCall", IRNow)
    OBVIOUS
  <2>3. /\ enter \in EventRecords /\ enter.type = "EnterCall"
        /\ leave \in EventRecords /\ leave.type = "LeaveCall"
    <3>1. {"EnterCall", "LeaveCall"} \subseteq EventTypes
      BY DEF EventTypes
    <3>2. QED
      BY <1>2, <2>1, <2>2, <3>1, NewEventTyped DEF Inv
  <2>4. PICK evs : evs = <<enter, leave>>
    OBVIOUS
  <2>5. /\ evs \in Seq(EventRecords)
        /\ \A k \in 1..Len(evs) : evs[k].type \notin {"Fork", "Join"}
    BY <2>3, <2>4
  <2>6. Grows(Tid, evs)
    BY <1>2, <2>1, <2>2, <2>4, <2>5, EmitGrows DEF Inv, RecursiveCallEvents
  <2>7. QED
    BY <1>1, <1>2, <2>5, <2>6, PlainStep
<1>4. CASE VisitCall
  <2>1. PICK evs, frame : Calls(evs, frame)
    BY <1>4, VisitCallCalls
  <2>2. /\ evs \in Seq(EventRecords) /\ Grows(Tid, evs)
        /\ \A k \in 1..Len(evs) : evs[k].type \notin {"Fork", "Join"}
    BY <2>1 DEF Calls
  <2>3. QED
    BY <1>1, <1>2, <2>2, PlainStep
<1>5. CASE ReturnFromCall
  <2>1. PICK evs : ReturnsToCall(evs)
    BY <1>5, ReturnFromCallReturns
  <2>2. /\ evs \in Seq(EventRecords) /\ Grows(Tid, evs)
        /\ \A k \in 1..Len(evs) : evs[k].type \notin {"Fork", "Join"}
    BY <2>1 DEF ReturnsToCall
  <2>3. QED
    BY <1>1, <1>2, <2>2, PlainStep
<1>6. CASE ReturnFromThread
  <2>1. PICK parent : ReturnsToFork(parent)
    BY <1>6, ReturnFromThreadReturns
  <2>2. PICK evs : evs = <<>>
    OBVIOUS
  <2>3. /\ parent \in Tids /\ evs \in Seq(EventRecords) /\ Grows(parent, evs)
        /\ \A k \in 1..Len(evs) : evs[k].type \notin {"Fork", "Join"}
    BY <2>1, <2>2 DEF ReturnsToFork
  <2>4. QED
    BY <1>1, <2>3, PlainStep
<1>7. QED
  BY <1>3, <1>4, <1>5, <1>6

LEMMA ForkStep ==
  ASSUME Inv, Inv', VisitFork
  PROVE  \E evs : ForkingStep(evs)
<1>1. PICK evs, frame, new : Forks(evs, frame, new)
  BY VisitForkForks
<1>2. /\ evs \in Seq(EventRecords) /\ Grows(Tid, evs) /\ Len(evs) = 1
      /\ evs[1].type = "Fork" /\ evs[1].ir = IRNow
  BY <1>1 DEF Forks
<1>3. Tid \in Tids /\ Thread = threads[Tid] /\ unjoinedTasks \in Seq(PIDs)
  BY <1>1, TopTyped DEF Forks, HasIR, Inv, Typed, Thread
<1>4. evs[1].fork = NoFork
  <2>1. 1 \in 1..Len(evs) /\ evs[1].type # "Join"
    BY <1>2
  <2>2. QED
    BY <1>2, <1>3, <2>1, NotJoins
<1>5. ~JoinsTasks
  <2>1. IRNow.type \in ForkTypes
    BY KindTyped DEF VisitFork
  <2>2. QED
    BY <2>1 DEF JoinsTasks, ForkTypes
<1>6. PICK site : site = ForkSite /\ site = <<Tid, Len(threads[Tid].events) + 1>>
  BY <1>3 DEF ForkSite
<1>7. unjoinedTasks' = unjoinedTasks \o
        (IF IRNow.type = "OpenMPTaskFork" THEN <<site>> ELSE <<>>)
  BY <1>5, <1>6 DEF VisitFork, PreVisit, TasksLeft
<1>8. unjoinedTasks' = IF IRNow.type = "OpenMPTaskFork" THEN Append(unjoinedTasks, site)
                                                        ELSE unjoinedTasks
  <2>1. CASE IRNow.type = "OpenMPTaskFork"
    <3>1. unjoinedTasks' = unjoinedTasks \o <<site>>
      BY <1>7, <2>1
    <3>2. PICK S, tasks : tasks = unjoinedTasks /\ tasks \in Seq(S) /\ site \in S
      <4>1. unjoinedTasks \in Seq(PIDs \cup {site}) /\ site \in PIDs \cup {site}
        BY <1>3
      <4>2. QED
        BY <4>1
    <3>3. tasks \o <<site>> = Append(tasks, site)
      BY <3>2
    <3>4. QED
      BY <2>1, <3>1, <3>2, <3>3
  <2>2. CASE IRNow.type # "OpenMPTaskFork"
    <3>1. unjoinedTasks' = unjoinedTasks \o <<>>
      BY <1>7, <2>2
    <3>2. QED
      BY <1>3, <2>2, <3>1
  <2>3. QED
    BY <2>1, <2>2
<1>9. ForkingStep(evs)
  BY <1>2, <1>3, <1>4, <1>6, <1>8 DEF ForkingStep
<1>10. QED
  BY <1>9

\* The steps that leave the threads alone leave the list of tasks alone.
LEMMA OtherTasks ==
  ASSUME [Next]_vars, ~Building
  PROVE  UNCHANGED <<threads, unjoinedTasks, inParallel, program>>
<1>1. ReturnFromMain \/ Flatten \/ Finish \/ Abort \/ UNCHANGED vars
  BY OtherSteps
<1>2. QED
  BY <1>1 DEF ReturnFromMain, Flatten, Finish, Abort, vars, runtimeVars

\* Every step keeps the tasks.
LEMMA TasksNext ==
  ASSUME Inv, TaskInv, [Next]_vars
  PROVE  TaskInv'
<1>1. Inv'
  BY NextKeeps
<1>2. CASE Staying
  <2>1. CASE VisitEvent \/ VisitExternCall
    BY <2>1, EventStep, QuietKeepsTasks, JoinKeepsTasks
  <2>2. CASE VisitRecursiveCall
    BY <1>1, <2>2, CallStep, QuietKeepsTasks
  <2>3. CASE SkipToTarget \/ SkipSerial \/ SkipInTeams \/ SkipTask
             \/ SkipMasterRegion \/ VisitUnresolvedCall \/ VisitRecursiveFork
    BY <2>3, SilentStep, QuietKeepsTasks
  <2>4. QED
    BY <1>2, <2>1, <2>2, <2>3 DEF Staying
<1>3. CASE VisitCall \/ ReturnFromCall \/ ReturnFromThread
  BY <1>1, <1>3, CallStep, QuietKeepsTasks
<1>4. CASE VisitFork
  BY <1>1, <1>4, ForkStep, ForkKeepsTasks
<1>5. CASE ~Building
  <2>1. UNCHANGED <<threads, unjoinedTasks>>
    BY <1>5, OtherTasks
  <2>2. /\ EventPIDs' = EventPIDs /\ TaskForks' = TaskForks
        /\ \A n : EventAt(n)' = EventAt(n)
    BY <2>1 DEF EventPIDs, TaskForks, ForkEvents, EventAt
  <2>3. \A n : Joined(n)' <=> Joined(n)
    BY <2>2 DEF Joined
  <2>4. QED
    BY <2>1, <2>2, <2>3 DEF TaskInv
<1>6. QED
  BY <1>2, <1>3, <1>4, <1>5 DEF Building

LEMMA InitTasks == Init => TaskInv
<1>1. SUFFICES ASSUME Init PROVE TaskInv
  OBVIOUS
<1>2. threads = <<NewThread(NoSpawn, program.main, InitialCtx)>> /\ unjoinedTasks = <<>>
  BY <1>1 DEF Init
<1>3. Len(threads) = 1 /\ threads[1].events = <<>> /\ DOMAIN threads = 1..1
  BY <1>2 DEF NewThread
<1>4. EventPIDs = {}
  <2>1. SUFFICES ASSUME NEW n \in EventPIDs PROVE FALSE
    OBVIOUS
  <2>2. n[1] \in DOMAIN threads /\ n[2] \in DOMAIN threads[n[1]].events
    BY EventPIDsAre
  <2>3. QED
    BY <1>3, <2>2
<1>5. TaskForks = {} /\ Len(unjoinedTasks) = 0
  BY <1>2, <1>4 DEF TaskForks, ForkEvents
<1>6. QED
  BY <1>4, <1>5 DEF TaskInv

-----------------------------------------------------------------------------
(***************************************************************************)
(* The tasks of parallel regions.  The builder of summaries puts the join  *)
(* of a region after its two forks (RegionsAssumption), so as long as      *)
(* threads of the region run, and until that join, some activation awaits  *)
(* it: no other IR can come in between, and nothing skips the join.        *)
(***************************************************************************)
\* Nothing but forks of regions is left before a join of regions.
BeforeJoin(fn, pos) ==
  \E j \in pos..Len(program.body[fn]) :
    /\ program.body[fn][j].type = "OpenMPJoin"
    /\ \A k \in pos..(j - 1) : program.body[fn][k].type = "OpenMPFork"

Skips(t) == threads[t].skipUntil # NoInst

Awaits(i) == ~Skips(stack[i].tid) /\ BeforeJoin(stack[i].fn, stack[i].pos)

\* The IR that spawned a thread, and the one a frame waits at below another.
SpawnIR(t) == EventAt(threads[t].spawnSite).ir

LowerIR(i) == IRAt(stack[i - 1])

\* A frame waits below another at a call of a function that has a body, or at
\* the fork of the other's thread.
Link(i) ==
  IF stack[i].tid = stack[i - 1].tid
  THEN Kind(LowerIR(i)) = "Call" /\ LowerIR(i).callee \in DOMAIN program.body
  ELSE /\ LowerIR(i) = SpawnIR(stack[i].tid)
       /\ Kind(LowerIR(i)) = "Fork" /\ ~Skips(stack[i - 1].tid)

FrameLinks ==
  /\ stack # <<>> => stack[1].tid = 1
  /\ \A i \in 2..Len(stack) : Link(i)

\* Threads that are in a parallel region because they or their parent are.
InRegions(R) ==
  \A t \in Tids : t \in R =>
    /\ threads[t].spawnSite # NoSpawn
    /\ SpawnIR(t).type = "OpenMPFork" \/ Parent(t) \in R

RegionInv ==
  /\ unjoinedTasks # <<>> => inParallel
  /\ \A n \in ToSet(unjoinedTasks) : \A R : InRegions(R) /\ n[1] \in R =>
       \E i \in 1..Len(stack) : Awaits(i)

(***************************************************************************)
(* What a step does to skipUntil.                                          *)
(***************************************************************************)
\* Emit ends the skipping of the running thread.
LEMMA EmitSkips ==
  ASSUME Inv, status = "building", NEW evs, NEW emitted, emitted = Emit(evs)
  PROVE  /\ DOMAIN emitted = Tids /\ Len(emitted) = Len(threads) /\ \E S : emitted \in Seq(S)
         /\ \A u \in Tids :
              emitted[u].skipUntil = IF u = Tid THEN NoInst ELSE threads[u].skipUntil
<1>1. /\ threads \in Seq(ThreadRecords) /\ Tid \in Tids /\ DOMAIN threads = Tids
      /\ Thread \in ThreadRecords /\ Thread = threads[Tid]
  BY TopTyped DEF Inv, Typed, Tids, Thread
<1>2. PICK r : r = [Thread EXCEPT !.events = @ \o evs, !.skipUntil = NoInst]
  OBVIOUS
<1>3. r.skipUntil = NoInst
  BY <1>1, <1>2 DEF ThreadRecords
<1>4. emitted = [threads EXCEPT ![Tid] = r]
  BY <1>1, <1>2 DEF Emit
<1>5. DOMAIN emitted = Tids /\ \A u \in Tids : emitted[u] = IF u = Tid THEN r ELSE threads[u]
  BY <1>1, <1>4
<1>6. Len(emitted) = Len(threads) /\ emitted \in Seq(ThreadRecords \cup {r})
  BY <1>1, <1>4
<1>7. QED
  BY <1>3, <1>5, <1>6

\* Only the start of a master region makes a thread skip, the running one.
LEMMA SkipsNext ==
  ASSUME Inv, Building, NEW u \in Tids, ~Skips(u), u # Tid \/ ~SkipMasterRegion
  PROVE  ~Skips(u)'
<1>1. /\ status = "building" /\ threads \in Seq(ThreadRecords) /\ DOMAIN threads = Tids
      /\ Tid \in Tids /\ \A t \in Tids : threads[t] \in ThreadRecords
  BY BuildingStays, TopTyped DEF Inv, Typed, Tids
<1>2. threads[u].skipUntil = NoInst
  BY DEF Skips
<1>3. threads'[u].skipUntil = NoInst
  <2>1. CASE SkipToTarget
    BY <1>2, <2>1 DEF SkipToTarget
  <2>2. ASSUME NEW evs, threads' = Emit(evs) PROVE threads'[u].skipUntil = NoInst
    BY <1>1, <1>2, <2>2, EmitSkips
  <2>3. CASE SkipSerial \/ SkipInTeams \/ SkipTask \/ VisitUnresolvedCall
             \/ VisitRecursiveFork
    BY <2>2, <2>3 DEF SkipSerial, SkipInTeams, SkipTask, VisitUnresolvedCall,
                      VisitRecursiveFork, Pass
  <2>4. CASE VisitEvent \/ VisitExternCall \/ VisitRecursiveCall
    BY <2>2, <2>4 DEF VisitEvent, VisitExternCall, VisitRecursiveCall
  <2>5. CASE SkipMasterRegion
    <3>1. u # Tid
      BY <2>5
    <3>2. PICK region : threads' = [threads EXCEPT ![Tid].skipUntil = region[2]]
      BY <2>5 DEF SkipMasterRegion
    <3>3. QED
      BY <1>1, <1>2, <3>1, <3>2
  <2>6. CASE VisitCall
    <3>1. PICK evs, ctx : threads' = [Emit(evs) EXCEPT ![Tid].einfo = ctx]
      BY <2>6 DEF VisitCall
    <3>2. PICK emitted : emitted = Emit(evs)
      OBVIOUS
    <3>3. DOMAIN emitted = Tids /\ emitted[u].skipUntil = NoInst
      BY <1>1, <1>2, <3>2, EmitSkips
    <3>4. threads' = [emitted EXCEPT ![Tid].einfo = ctx]
      BY <3>1, <3>2
    <3>5. CASE u # Tid
      BY <1>1, <3>3, <3>4, <3>5
    <3>6. CASE u = Tid
      <4>1. threads'[u] = [emitted[u] EXCEPT !.einfo = ctx]
        BY <1>1, <3>3, <3>4, <3>6
      <4>2. QED
        BY <3>3, <4>1
    <3>7. QED
      BY <3>5, <3>6
  <2>7. CASE VisitFork
    <3>1. PICK evs, new : threads' = Append(Emit(evs), new)
      BY <2>7 DEF VisitFork
    <3>2. PICK emitted : emitted = Emit(evs)
      OBVIOUS
    <3>3. PICK S : /\ Len(emitted) = Len(threads) /\ u \in 1..Len(threads)
                   /\ emitted[u].skipUntil = NoInst /\ emitted \in Seq(S)
      BY <1>1, <1>2, <3>2, EmitSkips DEF Tids
    <3>4. threads'[u] = emitted[u]
      <4>1. emitted \in Seq(S \cup {new}) /\ new \in S \cup {new}
        BY <3>3
      <4>2. QED
        BY <3>1, <3>2, <3>3, <4>1
    <3>5. QED
      BY <3>3, <3>4
  <2>8. CASE ReturnFromCall
    <3>1. PICK more : threads' = [threads EXCEPT ![Tid].events = more]
      BY <1>1, <2>8 DEF ReturnFromCall
    <3>2. QED
      BY <1>1, <1>2, <3>1 DEF ThreadRecords
  <2>9. CASE ReturnFromThread
    <3>1. PICK t, more : threads' = [threads EXCEPT ![t].childThreads = more]
      BY <1>1, <2>9 DEF ReturnFromThread
    <3>2. QED
      BY <1>1, <1>2, <3>1 DEF ThreadRecords
  <2>10. QED
    BY <2>1, <2>3, <2>4, <2>5, <2>6, <2>7, <2>8, <2>9 DEF Building, Staying
<1>4. QED
  BY <1>3 DEF Skips

\* A thread that forks does not skip.
LEMMA ForkEndsSkip ==
  ASSUME Inv, VisitFork, NEW t \in Tids, t = Tid
  PROVE  ~Skips(t)'
<1>1. status = "building"
  BY DEF VisitFork, Visited, Unskipped, Reached, HasIR
<1>2. PICK evs, new : threads' = Append(Emit(evs), new)
  BY DEF VisitFork
<1>3. PICK emitted : emitted = Emit(evs)
  OBVIOUS
<1>4. PICK S : /\ Len(emitted) = Len(threads) /\ t \in 1..Len(threads)
               /\ emitted[t].skipUntil = NoInst /\ emitted \in Seq(S)
  BY <1>1, <1>3, EmitSkips DEF Tids
<1>5. threads'[t] = emitted[t]
  <2>1. emitted \in Seq(S \cup {new}) /\ new \in S \cup {new}
    BY <1>4
  <2>2. QED
    BY <1>2, <1>3, <1>4, <2>1
<1>6. threads'[t].skipUntil = NoInst
  BY <1>4, <1>5
<1>7. QED
  BY <1>6 DEF Skips


(***************************************************************************)
(* The frames below the running one.                                       *)
(***************************************************************************)
\* The steps of buildTrace append events to some thread.
LEMMA BuildingGrows ==
  ASSUME Inv, Building
  PROVE  \E t \in Tids : \E evs \in Seq(EventRecords) : Grows(t, evs)
<1>1. Tid \in Tids
  BY BuildingStays, TopTyped DEF Inv
<1>2. CASE Staying
  BY <1>1, <1>2, StayingAdvances DEF Advances
<1>3. CASE VisitCall
  BY <1>1, <1>3, VisitCallCalls DEF Calls
<1>4. CASE VisitFork
  BY <1>1, <1>4, VisitForkForks DEF Forks
<1>5. CASE ReturnFromCall
  BY <1>1, <1>5, ReturnFromCallReturns DEF ReturnsToCall
<1>6. CASE ReturnFromThread
  <2>1. PICK parent : ReturnsToFork(parent)
    BY <1>6, ReturnFromThreadReturns
  <2>2. PICK evs : evs = <<>>
    OBVIOUS
  <2>3. parent \in Tids /\ evs \in Seq(EventRecords) /\ Grows(parent, evs)
    BY <2>1, <2>2 DEF ReturnsToFork
  <2>4. QED
    BY <2>3
<1>7. QED
  BY <1>2, <1>3, <1>4, <1>5, <1>6 DEF Building

\* A thread stays spawned by the IR that spawned it.
LEMMA SpawnIRStays ==
  ASSUME Inv, Building, NEW u \in Tids, threads[u].spawnSite # NoSpawn
  PROVE  threads'[u].spawnSite = threads[u].spawnSite /\ SpawnIR(u)' = SpawnIR(u)
<1>1. PICK t \in Tids, evs \in Seq(EventRecords) : Grows(t, evs)
  BY BuildingGrows
<1>2. PICK site : site = threads[u].spawnSite /\ site = threads'[u].spawnSite
  BY <1>1 DEF Grows
<1>3. site \in EventPIDs
  BY <1>2 DEF Inv, SpawnInv, ForkEvents
<1>4. EventAt(site)' = EventAt(site)
  BY <1>1, <1>3, EventsGrow DEF Inv
<1>5. SpawnIR(u) = EventAt(site).ir
  BY <1>2 DEF SpawnIR
<1>6. SpawnIR(u)' = EventAt(site)'.ir
  BY <1>2 DEF SpawnIR, EventAt
<1>7. QED
  BY <1>2, <1>4, <1>5, <1>6

\* Where the thread changes, the lower thread is older, and the upper is
\* spawned.
LEMMA OlderBelow ==
  ASSUME Inv, TreeInv, NEW i \in 2..Len(stack), stack[i].tid # stack[i - 1].tid
  PROVE  /\ stack[i - 1].tid < stack[i].tid /\ stack[i].tid <= Tid /\ Tid \in Tids
         /\ threads[stack[i].tid].spawnSite # NoSpawn
         /\ Parent(stack[i].tid) = stack[i - 1].tid
<1>1. /\ Len(stack) \in Nat /\ i - 1 \in 1..Len(stack) /\ i \in 1..Len(stack)
      /\ Len(stack) \in 1..Len(stack) /\ i - 1 < i /\ i \in Nat
  BY Numbers
<1>2. \A k \in 1..Len(stack) : stack[k].tid \in Tids /\ stack[k].tid \in Nat
  BY Numbers DEF Positions
<1>3. \A k, l \in 1..Len(stack) : k < l => stack[k].tid <= stack[l].tid
  BY DEF TreeInv, StackOrdered
<1>4. stack[i - 1].tid <= stack[i].tid
  BY <1>1, <1>3
<1>5. stack[i].tid <= stack[Len(stack)].tid
  <2>1. CASE i = Len(stack)
    BY <1>1, <1>2, <2>1
  <2>2. CASE i # Len(stack)
    BY <1>1, <1>3, <2>2
  <2>3. QED
    BY <2>1, <2>2
<1>6. Tid = stack[Len(stack)].tid
  BY DEF Tid, Top
<1>7. /\ threads[stack[i].tid].spawnSite \in PIDs
      /\ threads[stack[i].tid].spawnSite[1] = stack[i - 1].tid
  BY DEF Inv, StackInv
<1>8. threads[stack[i].tid].spawnSite # NoSpawn
  BY <1>7, NoneAssumption DEF PIDs, Positions
<1>9. QED
  BY <1>1, <1>2, <1>4, <1>5, <1>6, <1>7, <1>8 DEF Parent

\* The frames that stay go on waiting where they waited.
LEMMA LinksStay ==
  ASSUME Inv, TreeInv, FrameLinks, Building, NEW m \in 1..Len(stack), SameBelow(m)
  PROVE  /\ stack'[1].tid = 1
         /\ \A i \in 2..m : Link(i)'
<1>1. /\ Len(stack) \in Nat /\ program' = program /\ m \in Nat
  BY Numbers, BuildingStays
<1>2. stack'[1].tid = 1
  <2>1. stack # <<>> /\ 1 \in 1..m
    BY <1>1, BuildingStays DEF Inv, StackInv
  <2>2. QED
    BY <2>1 DEF SameBelow, FrameLinks
<1>3. ASSUME NEW i \in 2..m PROVE Link(i)'
  <2>1. /\ i - 1 \in 1..(m - 1) /\ i \in 1..m /\ i \in 2..Len(stack) /\ i - 1 \in 1..Len(stack)
        /\ i \in 1..Len(stack)
    BY <1>1
  <2>2. PICK lo \in Tids, hi \in Tids : lo = stack[i - 1].tid /\ hi = stack[i].tid
    BY <2>1, Numbers
  <2>3. stack'[i - 1] = stack[i - 1] /\ stack'[i].tid = stack[i].tid
    BY <2>1 DEF SameBelow
  <2>4. LowerIR(i)' = LowerIR(i)
    BY <1>1, <2>3 DEF LowerIR, IRAt
  <2>5. Link(i)
    BY <2>1 DEF FrameLinks
  <2>6. CASE lo = hi
    BY <1>1, <2>2, <2>3, <2>4, <2>5, <2>6 DEF Link
  <2>7. CASE lo # hi
    <3>1. lo < hi /\ hi <= Tid /\ Tid \in Tids /\ threads[hi].spawnSite # NoSpawn
      BY <2>1, <2>2, <2>7, OlderBelow
    <3>2. lo # Tid
      BY <3>1, Numbers DEF Positions
    <3>3. /\ LowerIR(i) = SpawnIR(hi) /\ Kind(LowerIR(i)) = "Fork" /\ ~Skips(lo)
      BY <2>2, <2>5, <2>7 DEF Link
    <3>4. ~Skips(lo)'
      BY <3>2, <3>3, SkipsNext
    <3>5. SpawnIR(hi)' = SpawnIR(hi)
      BY <3>1, SpawnIRStays
    <3>6. stack'[i - 1].tid = lo /\ stack'[i].tid = hi
      BY <2>2, <2>3
    <3>7. SpawnIR(stack[i].tid)' = SpawnIR(hi)' /\ Skips(stack[i - 1].tid)' = Skips(lo)'
      BY <3>6 DEF SpawnIR, EventAt, Skips
    <3>8. QED
      BY <2>4, <2>7, <3>3, <3>4, <3>5, <3>6, <3>7 DEF Link
  <2>8. QED
    BY <2>6, <2>7
<1>4. QED
  BY <1>2, <1>3

\* The stack under a new frame.
LEMMA PushedStack ==
  ASSUME Inv, NEW frame \in FrameRecords, stack' = Append(stack, frame)
  PROVE  /\ Len(stack') = Len(stack) + 1 /\ SameBelow(Len(stack))
         /\ \A i \in 1..Len(stack) : stack'[i] = stack[i]
         /\ stack'[Len(stack) + 1] = frame
<1>1. stack \in Seq(FrameRecords) /\ Len(stack) \in Nat
  BY DEF Inv, Typed
<1>2. /\ Len(stack') = Len(stack) + 1 /\ stack'[Len(stack) + 1] = frame
      /\ \A i \in 1..Len(stack) : stack'[i] = stack[i]
  BY <1>1
<1>3. \A i \in 1..(Len(stack) - 1) : i \in 1..Len(stack)
  BY <1>1
<1>4. QED
  BY <1>2, <1>3 DEF SameBelow

\* Every step keeps the frames linked.
LEMMA LinksNext ==
  ASSUME Inv, TreeInv, FrameLinks, [Next]_vars
  PROVE  FrameLinks'
<1>1. Len(stack) \in Nat
  BY Numbers
<1>2. ASSUME Building
      PROVE  /\ Len(stack) \in 1..Len(stack) /\ Tid \in Tids /\ program' = program
             /\ Tid = stack[Len(stack)].tid /\ Thread = threads[Tid]
             /\ IRNow = IRAt(stack[Len(stack)])
  BY <1>1, <1>2, BuildingStays, TopTyped DEF Inv, Positions, Tid, Top, Thread, IRNow
<1>3. CASE Staying
  <2>1. PICK evs : Advances(evs)
    BY <1>3, StayingAdvances
  <2>2. Len(stack') = Len(stack) /\ SameBelow(Len(stack))
    BY <2>1, AdvancedStack DEF Advances
  <2>3. Building /\ Len(stack) \in 1..Len(stack)
    BY <1>2, <1>3 DEF Building
  <2>4. PICK m \in 1..Len(stack) : m = Len(stack)
    BY <2>3
  <2>5. stack'[1].tid = 1 /\ \A i \in 2..m : Link(i)'
    BY <2>2, <2>3, <2>4, LinksStay
  <2>6. QED
    BY <2>2, <2>4, <2>5 DEF FrameLinks
<1>4. CASE VisitCall
  <2>1. PICK evs, frame : Calls(evs, frame)
    BY <1>4, VisitCallCalls
  <2>2. PICK m \in 1..Len(stack) : m = Len(stack)
    BY <1>2, <1>4 DEF Building
  <2>3. /\ Len(stack') = m + 1 /\ SameBelow(m) /\ stack'[m] = stack[m]
        /\ stack'[m + 1] = frame
    BY <2>1, <2>2, PushedStack DEF Calls
  <2>4. Building /\ stack'[1].tid = 1 /\ \A i \in 2..m : Link(i)'
    BY <1>4, <2>3, LinksStay DEF Building
  <2>5. /\ Kind(IRNow) = "Call" /\ frame.tid = Tid
        /\ IRNow.callee \in DOMAIN program.body /\ program' = program
    BY <1>2, <1>4, <2>1, <2>4 DEF VisitCall, Calls
  <2>6. PICK k : k = m + 1 /\ m = k - 1
    BY <1>1, <2>2
  <2>7. stack'[k].tid = stack'[k - 1].tid
    BY <1>2, <2>2, <2>3, <2>4, <2>5, <2>6
  <2>8. LowerIR(k)' = IRNow
    BY <1>2, <2>2, <2>3, <2>4, <2>6 DEF LowerIR, IRAt
  <2>9. Link(k)'
    BY <2>5, <2>7, <2>8 DEF Link
  <2>10. \A i \in 2..(m + 1) : i \in 2..m \/ i = k
    BY <1>1, <2>2, <2>6
  <2>11. \A i \in 2..Len(stack') : Link(i)'
    BY <2>3, <2>4, <2>9, <2>10
  <2>12. QED
    BY <2>4, <2>11 DEF FrameLinks
<1>5. CASE VisitFork
  <2>1. PICK evs, frame, new : Forks(evs, frame, new)
    BY <1>5, VisitForkForks
  <2>2. PICK m \in 1..Len(stack) : m = Len(stack)
    BY <1>2, <1>5 DEF Building
  <2>3. /\ Len(stack') = m + 1 /\ SameBelow(m) /\ stack'[m] = stack[m]
        /\ stack'[m + 1] = frame
    BY <2>1, <2>2, PushedStack DEF Forks
  <2>4. Building /\ stack'[1].tid = 1 /\ \A i \in 2..m : Link(i)'
    BY <1>5, <2>3, LinksStay DEF Building
  <2>5. PICK t \in Tids : t = Tid
    BY <1>2, <2>4
  <2>6. /\ Kind(IRNow) = "Fork" /\ frame.tid = new /\ new # t /\ ~Skips(t)'
    <3>1. new = Len(threads) + 1 /\ Len(threads) \in Nat /\ t \in 1..Len(threads)
      BY <2>1, <2>5, Numbers DEF Forks, Positions, Tids
    <3>2. QED
      BY <1>5, <2>1, <2>5, <3>1, ForkEndsSkip DEF VisitFork, Forks
  <2>7. PICK k : k = m + 1 /\ m = k - 1
    BY <1>1, <2>2
  <2>8. stack'[k].tid = new /\ stack'[k - 1].tid = t
    BY <1>2, <2>2, <2>3, <2>4, <2>5, <2>6, <2>7
  <2>9. LowerIR(k)' = IRNow
    BY <1>2, <2>2, <2>3, <2>4, <2>7 DEF LowerIR, IRAt
  <2>10. SpawnIR(new)' = IRNow
    <3>1. PICK site : site = <<t, Len(threads[t].events) + 1>> /\ site = threads'[new].spawnSite
      BY <2>1, <2>5 DEF Forks
    <3>2. evs \in Seq(EventRecords) /\ Grows(t, evs) /\ 1 \in 1..Len(evs) /\ evs[1].ir = IRNow
      BY <2>1, <2>5 DEF Forks
    <3>3. EventAt(site)' = evs[1]
      BY <3>1, <3>2, EventsGrow DEF Inv
    <3>4. SpawnIR(new)' = EventAt(site)'.ir
      BY <3>1 DEF SpawnIR, EventAt
    <3>5. QED
      BY <3>2, <3>3, <3>4
  <2>11. SpawnIR(stack[k].tid)' = SpawnIR(new)' /\ Skips(stack[k - 1].tid)' = Skips(t)'
    BY <2>8 DEF SpawnIR, EventAt, Skips
  <2>12. Link(k)'
    BY <2>6, <2>8, <2>9, <2>10, <2>11 DEF Link
  <2>13. \A i \in 2..(m + 1) : i \in 2..m \/ i = k
    BY <1>1, <2>2, <2>7
  <2>14. \A i \in 2..Len(stack') : Link(i)'
    BY <2>3, <2>4, <2>12, <2>13
  <2>15. QED
    BY <2>4, <2>14 DEF FrameLinks
<1>6. CASE ReturnFromCall \/ ReturnFromThread
  <2>1. Len(stack) > 1 /\ stack' = Step(Front(stack))
    BY <1>6 DEF ReturnFromCall, ReturnFromThread
  <2>2. Len(stack') = Len(stack) - 1 /\ SameBelow(Len(stack) - 1)
    BY <2>1, PoppedStack
  <2>3. PICK m \in 1..Len(stack) : m = Len(stack) - 1
    <3>1. Len(stack) - 1 \in 1..Len(stack)
      BY <1>1, <2>1
    <3>2. QED
      BY <3>1
  <2>4. Building /\ stack'[1].tid = 1 /\ \A i \in 2..m : Link(i)'
    BY <1>6, <2>2, <2>3, LinksStay DEF Building
  <2>5. QED
    BY <2>2, <2>3, <2>4 DEF FrameLinks
<1>7. CASE ~Building
  <2>1. UNCHANGED <<threads, program>> /\ (stack' = stack \/ stack' = <<>>)
    BY <1>7, OtherSteps, OtherTasks
  <2>2. CASE stack' = stack
    <3>1. \A i : Link(i)' <=> Link(i)
      BY <2>1, <2>2 DEF Link, LowerIR, IRAt, SpawnIR, EventAt, Skips
    <3>2. QED
      BY <2>2, <3>1 DEF FrameLinks
  <2>3. CASE stack' = <<>>
    <3>1. \A i \in 2..Len(stack') : FALSE
      BY <2>3
    <3>2. QED
      BY <2>3, <3>1 DEF FrameLinks
  <2>4. QED
    BY <2>1, <2>2, <2>3
<1>8. QED
  BY <1>3, <1>4, <1>5, <1>6, <1>7 DEF Building


LEMMA InitLinks == Init => FrameLinks /\ RegionInv
<1>1. SUFFICES ASSUME Init PROVE FrameLinks /\ RegionInv
  OBVIOUS
<1>2. stack = <<Frame(1, program.main, InitialCtx)>> /\ unjoinedTasks = <<>>
  BY <1>1 DEF Init
<1>3. Len(stack) = 1 /\ stack[1].tid = 1
  BY <1>2 DEF Frame
<1>4. ToSet(unjoinedTasks) = {}
  BY <1>2 DEF ToSet
<1>5. QED
  BY <1>2, <1>3, <1>4 DEF FrameLinks, RegionInv

(***************************************************************************)
(* Who awaits the join of a region.                                        *)
(***************************************************************************)
\* What awaits a join is at it, or at a fork of a region before it.
LEMMA AwaitsIR ==
  ASSUME Inv, NEW i \in 1..Len(stack), Awaits(i)
  PROVE  /\ stack[i].pos <= Len(program.body[stack[i].fn])
         /\ \/ IRAt(stack[i]).type = "OpenMPJoin"
            \/ /\ IRAt(stack[i]).type = "OpenMPFork"
               /\ BeforeJoin(stack[i].fn, stack[i].pos + 1)
<1>1. PICK body, pos : body = program.body[stack[i].fn] /\ pos = stack[i].pos
  OBVIOUS
<1>2. pos \in Nat /\ body \in Seq(IRs) /\ Len(body) \in Nat
  <2>1. stack[i] \in FrameRecords /\ stack[i].fn \in DOMAIN program.body /\ program \in Programs
    BY DEF Inv, Typed, StackInv
  <2>2. pos \in Nat
    BY <1>1, <2>1 DEF FrameRecords, Positions
  <2>3. body \in Seq(IRs)
    BY <1>1, <2>1, SummaryIR
  <2>4. QED
    BY <2>2, <2>3
<1>3. PICK j \in pos..Len(body) :
        /\ body[j].type = "OpenMPJoin"
        /\ \A k \in pos..(j - 1) : body[k].type = "OpenMPFork"
  BY <1>1 DEF Awaits, BeforeJoin
<1>4. IRAt(stack[i]) = body[pos] /\ pos <= Len(body)
  BY <1>1, <1>2, <1>3 DEF IRAt
<1>5. CASE j = pos
  BY <1>1, <1>3, <1>4, <1>5
<1>6. CASE j # pos
  <2>1. pos \in pos..(j - 1) /\ j \in (pos + 1)..Len(body)
    BY <1>2, <1>3, <1>6
  <2>2. \A k \in (pos + 1)..(j - 1) : k \in pos..(j - 1)
    BY <1>2
  <2>3. BeforeJoin(stack[i].fn, pos + 1)
    BY <1>1, <1>3, <2>1, <2>2 DEF BeforeJoin
  <2>4. QED
    BY <1>1, <1>3, <1>4, <2>1, <2>3
<1>7. QED
  BY <1>5, <1>6

\* Below another frame it waits at a fork, in an older thread.
LEMMA AwaitsAtFork ==
  ASSUME Inv, TreeInv, FrameLinks, NEW i \in 1..Len(stack), Awaits(i), i # Len(stack)
  PROVE  /\ stack[i + 1].tid # stack[i].tid /\ stack[i].tid # Tid
         /\ IRAt(stack[i]).type = "OpenMPFork"
<1>1. /\ i + 1 \in 2..Len(stack) /\ (i + 1) - 1 = i /\ i + 1 \in 1..Len(stack)
  BY Numbers
<1>2. PICK k \in 2..Len(stack) : k = i + 1 /\ k - 1 = i /\ k \in 1..Len(stack)
  BY <1>1
<1>3. LowerIR(k) = IRAt(stack[i]) /\ LowerIR(k).type \in {"OpenMPJoin", "OpenMPFork"}
  BY <1>2, AwaitsIR DEF LowerIR
<1>4. Kind(LowerIR(k)) # "Call"
  BY <1>3 DEF Kind, ForkTypes, JoinTypes
<1>5. stack[k].tid # stack[i].tid /\ Kind(LowerIR(k)) = "Fork"
  BY <1>2, <1>4 DEF FrameLinks, Link
<1>6. LowerIR(k).type = "OpenMPFork"
  BY <1>3, <1>5, KindTyped DEF ForkTypes
<1>7. stack[i].tid < stack[k].tid /\ stack[k].tid <= Tid /\ Tid \in Tids
  BY <1>2, <1>5, OlderBelow
<1>8. stack[i].tid # Tid
  <2>1. stack[i].tid \in Nat /\ stack[k].tid \in Nat /\ Tid \in Nat
    BY <1>2, <1>7, Numbers DEF Positions
  <2>2. QED
    BY <1>7, <2>1
<1>9. QED
  BY <1>2, <1>3, <1>5, <1>6, <1>8

\* A frame that stays as it is goes on awaiting.
LEMMA AwaitsStay ==
  ASSUME Inv, TreeInv, FrameLinks, Building, NEW i \in 1..Len(stack), Awaits(i),
         i # Len(stack) \/ VisitFork, stack'[i] = stack[i]
  PROVE  Awaits(i)'
<1>1. PICK u \in Tids : u = stack[i].tid /\ u = stack'[i].tid
  BY Numbers
<1>2. ~Skips(u) /\ BeforeJoin(stack[i].fn, stack[i].pos)
  BY <1>1 DEF Awaits
<1>3. u # Tid \/ ~SkipMasterRegion
  <2>1. CASE i # Len(stack)
    BY <1>1, <2>1, AwaitsAtFork
  <2>2. CASE VisitFork
    <3>1. Kind(IRNow) = "Fork" /\ IRNow.type \in ForkTypes
      BY <2>2, KindTyped DEF VisitFork
    <3>2. ~SkipMasterRegion
      BY <3>1 DEF SkipMasterRegion, SkippedMaster, ForkTypes
    <3>3. QED
      BY <3>2
  <2>3. QED
    BY <2>1, <2>2
<1>4. ~Skips(u)'
  BY <1>2, <1>3, SkipsNext
<1>5. program' = program
  BY BuildingStays
<1>6. BeforeJoin(stack[i].fn, stack[i].pos)' <=> BeforeJoin(stack[i].fn, stack[i].pos)
  BY <1>5 DEF BeforeJoin
<1>7. Skips(stack[i].tid)' <=> Skips(u)'
  BY <1>1 DEF Skips
<1>8. QED
  BY <1>2, <1>4, <1>6, <1>7 DEF Awaits

\* One that goes on behind a fork awaits the join still.
LEMMA AwaitsGoesOn ==
  ASSUME Inv, Building, NEW i \in 1..Len(stack), Awaits(i), ~SkipMasterRegion,
         IRAt(stack[i]).type = "OpenMPFork",
         stack'[i].tid = stack[i].tid, stack'[i].fn = stack[i].fn,
         stack'[i].pos = stack[i].pos + 1
  PROVE  Awaits(i)'
<1>1. PICK u \in Tids : u = stack[i].tid /\ u = stack'[i].tid
  BY Numbers
<1>2. ~Skips(u) /\ BeforeJoin(stack[i].fn, stack[i].pos + 1)
  BY <1>1, AwaitsIR DEF Awaits
<1>3. ~Skips(u)'
  BY <1>2, SkipsNext
<1>4. program' = program
  BY BuildingStays
<1>5. BeforeJoin(stack[i].fn, stack[i].pos)' <=> BeforeJoin(stack[i].fn, stack[i].pos + 1)
  BY <1>4 DEF BeforeJoin
<1>6. Skips(stack[i].tid)' <=> Skips(u)'
  BY <1>1 DEF Skips
<1>7. QED
  BY <1>2, <1>3, <1>5, <1>6 DEF Awaits

\* If the running activation awaits a join it meets it and all tasks are
\* joined, or it is at a fork that starts no thread.
LEMMA TopAwaits ==
  ASSUME Inv, Staying, inParallel, Awaits(Len(stack))
  PROVE  \/ unjoinedTasks' = <<>>
         \/ VisitRecursiveFork /\ IRNow.type = "OpenMPFork"
<1>1. /\ Len(stack) \in 1..Len(stack) /\ Tid = stack[Len(stack)].tid
      /\ Thread = threads[Tid] /\ IRNow = IRAt(stack[Len(stack)])
  BY BuildingStays, TopTyped DEF Inv, Building, Positions, Tid, Top, Thread, IRNow
<1>2. IRNow.type \in {"OpenMPJoin", "OpenMPFork"} /\ Thread.skipUntil = NoInst
  BY <1>1, AwaitsIR DEF Awaits, Skips
<1>3. Kind(IRNow) = IF IRNow.type = "OpenMPFork" THEN "Fork" ELSE "Join"
  BY <1>2 DEF Kind, ForkTypes, JoinTypes, LockTypes, UnlockTypes
<1>4. ~Skipping /\ ~Serial /\ ~SkippedInTeams /\ ~SkippedTask /\ ~SkippedMaster
  BY <1>2 DEF Skipping, Serial, SkippedInTeams, TeamSpecificTypes, SkippedTask, SkippedMaster
<1>5. VisitEvent \/ VisitRecursiveFork
  BY <1>3, <1>4 DEF Staying, SkipToTarget, SkipSerial, SkipInTeams, SkipTask,
     SkipMasterRegion, VisitUnresolvedCall, VisitExternCall, VisitRecursiveCall
<1>6. CASE VisitEvent
  <2>1. IRNow.type = "OpenMPJoin"
    BY <1>2, <1>3, <1>6 DEF VisitEvent
  <2>2. unjoinedTasks' = <<>> \o <<>>
    BY <1>6, <2>1 DEF VisitEvent, PreVisit, TasksLeft, JoinsTasks
  <2>3. QED
    BY <2>2
<1>7. CASE VisitRecursiveFork
  <2>1. IRNow.type = "OpenMPFork"
    BY <1>2, <1>3, <1>7 DEF VisitRecursiveFork
  <2>2. QED
    BY <1>7, <2>1
<1>8. QED
  BY <1>5, <1>6, <1>7

\* A join stays awaited until the tasks are joined.
LEMMA AwaitedNext ==
  ASSUME Inv, TreeInv, FrameLinks, Building, inParallel,
         NEW i \in 1..Len(stack), Awaits(i)
  PROVE  unjoinedTasks' = <<>> \/ \E k \in 1..Len(stack') : Awaits(k)'
<1>1. /\ Len(stack) \in Nat /\ stack \in Seq(FrameRecords) /\ stack # <<>>
      /\ Len(stack) \in 1..Len(stack) /\ status = "building"
  BY Numbers, BuildingStays, TopTyped DEF Inv, Typed, StackInv, Positions
<1>2. CASE Staying
  <2>1. PICK evs : Advances(evs)
    BY <1>2, StayingAdvances
  <2>2. /\ Len(stack') = Len(stack) /\ SameBelow(Len(stack)) /\ stack' = Step(stack)
    BY <2>1, AdvancedStack DEF Advances
  <2>3. CASE i # Len(stack)
    <3>1. stack'[i] = stack[i]
      BY <1>1, <2>2, <2>3 DEF SameBelow
    <3>2. Awaits(i)'
      BY <2>3, <3>1, AwaitsStay
    <3>3. QED
      BY <2>2, <3>2
  <2>4. CASE i = Len(stack) /\ unjoinedTasks' # <<>>
    <3>1. VisitRecursiveFork /\ IRNow.type = "OpenMPFork"
      BY <1>2, <2>4, TopAwaits
    <3>2. ~SkipMasterRegion
      BY <3>1 DEF SkipMasterRegion, SkippedMaster
    <3>3. IRAt(stack[i]).type = "OpenMPFork"
      BY <2>4, <3>1 DEF IRNow, Top
    <3>4. /\ stack'[i].tid = stack[i].tid /\ stack'[i].fn = stack[i].fn
          /\ stack'[i].pos = stack[i].pos + 1
      BY <1>1, <2>2, <2>4, StepMovesTop
    <3>5. Awaits(i)'
      BY <3>2, <3>3, <3>4, AwaitsGoesOn
    <3>6. QED
      BY <2>2, <3>5
  <2>5. QED
    BY <2>3, <2>4
<1>3. CASE VisitCall
  <2>1. PICK evs, frame : Calls(evs, frame)
    BY <1>3, VisitCallCalls
  <2>2. Len(stack') = Len(stack) + 1 /\ \A k \in 1..Len(stack) : stack'[k] = stack[k]
    BY <2>1, PushedStack DEF Calls
  <2>3. i # Len(stack)
    <3>1. SUFFICES ASSUME i = Len(stack) PROVE FALSE
      OBVIOUS
    <3>2. IRNow.type \in {"OpenMPJoin", "OpenMPFork"}
      BY <3>1, AwaitsIR DEF IRNow, Top
    <3>3. Kind(IRNow) # "Call"
      BY <3>2 DEF Kind, ForkTypes, JoinTypes
    <3>4. QED
      BY <1>3, <3>3 DEF VisitCall
  <2>4. Awaits(i)'
    BY <2>2, <2>3, AwaitsStay
  <2>5. i \in 1..Len(stack')
    BY <1>1, <2>2
  <2>6. QED
    BY <2>4, <2>5
<1>4. CASE VisitFork
  <2>1. PICK evs, frame, new : Forks(evs, frame, new)
    BY <1>4, VisitForkForks
  <2>2. Len(stack') = Len(stack) + 1 /\ \A k \in 1..Len(stack) : stack'[k] = stack[k]
    BY <2>1, PushedStack DEF Forks
  <2>3. Awaits(i)'
    BY <1>4, <2>2, AwaitsStay
  <2>4. i \in 1..Len(stack')
    BY <1>1, <2>2
  <2>5. QED
    BY <2>3, <2>4
<1>5. CASE ReturnFromCall \/ ReturnFromThread
  <2>1. /\ Len(stack) > 1 /\ stack' = Step(Front(stack)) /\ Ended
    BY <1>5 DEF ReturnFromCall, ReturnFromThread
  <2>2. Len(stack') = Len(stack) - 1 /\ SameBelow(Len(stack) - 1)
    BY <2>1, PoppedStack
  <2>3. i # Len(stack)
    <3>1. SUFFICES ASSUME i = Len(stack) PROVE FALSE
      OBVIOUS
    <3>2. Top.pos <= Len(program.body[Top.fn])
      BY <3>1, AwaitsIR DEF Top
    <3>3. Top.pos \in Nat /\ Len(program.body[Top.fn]) \in Nat
      BY <1>1, TopTyped DEF Inv, FrameRecords, Positions
    <3>4. QED
      BY <2>1, <3>2, <3>3 DEF Ended
  <2>4. i \in 1..(Len(stack) - 1) /\ i \in 1..Len(stack')
    BY <1>1, <2>2, <2>3
  <2>5. CASE i # Len(stack) - 1
    <3>1. stack'[i] = stack[i]
      BY <1>1, <2>2, <2>4, <2>5 DEF SameBelow
    <3>2. Awaits(i)'
      BY <2>3, <3>1, AwaitsStay
    <3>3. QED
      BY <2>4, <3>2
  <2>6. CASE i = Len(stack) - 1
    <3>1. IRAt(stack[i]).type = "OpenMPFork"
      BY <2>3, AwaitsAtFork
    <3>2. ~SkipMasterRegion
      <4>1. ~HasIR
        <5>1. Top.pos \in Nat /\ Len(program.body[Top.fn]) \in Nat
          BY <1>1, TopTyped DEF Inv, FrameRecords, Positions
        <5>2. QED
          BY <2>1, <5>1 DEF Ended, HasIR
      <4>2. QED
        BY <4>1 DEF SkipMasterRegion, Unskipped, Reached
    <3>3. PICK front : front = Front(stack)
      OBVIOUS
    <3>4. /\ front \in Seq(FrameRecords) /\ Len(front) = Len(stack) - 1
          /\ \A k \in 1..(Len(stack) - 1) : front[k] = stack[k]
      BY <1>1, <3>3, FrontOf
    <3>5. front # <<>> /\ stack' = Step(front) /\ i \in 1..Len(front) /\ i = Len(front)
      BY <2>1, <2>4, <2>6, <3>3, <3>4
    <3>6. /\ stack'[i].tid = front[i].tid /\ stack'[i].fn = front[i].fn
          /\ stack'[i].pos = front[i].pos + 1
      BY <3>4, <3>5, StepMovesTop
    <3>7. Awaits(i)'
      BY <2>4, <3>1, <3>2, <3>4, <3>6, AwaitsGoesOn
    <3>8. QED
      BY <2>4, <3>7
  <2>7. QED
    BY <2>5, <2>6
<1>6. QED
  BY <1>2, <1>3, <1>4, <1>5 DEF Building


\* While a thread of a region runs, the fork of the region awaits its join.
LEMMA RegionAwaited ==
  ASSUME Inv, TreeInv, FrameLinks, status = "building", NEW R, InRegions(R), Tid \in R
  PROVE  \E i \in 1..Len(stack) : Awaits(i)
<1>1. /\ Len(stack) \in 1..Len(stack) /\ Len(stack) \in Nat /\ Tid = stack[Len(stack)].tid
      /\ \A i \in 1..Len(stack) : stack[i].tid \in Tids /\ stack[i].tid \in Nat
      /\ 1 \in Tids /\ stack[1].tid = 1
  BY Numbers, TopTyped DEF Inv, StackInv, FrameLinks, Positions, Tid, Top
<1>2. PICK T : T = {stack[i].tid : i \in {k \in 1..Len(stack) : stack[k].tid \in R}}
  OBVIOUS
<1>3. PICK t \in T : \A u \in T : t <= u
  <2>1. T \in SUBSET Nat /\ Tid \in T
    BY <1>1, <1>2
  <2>2. QED
    BY <2>1, LeastOf
<1>4. t \in R /\ t \in Tids /\ t \in Nat /\ threads[t].spawnSite # NoSpawn
  BY <1>1, <1>2, <1>3 DEF InRegions
<1>5. PICK F : F = {k \in 1..Len(stack) : stack[k].tid = t}
  OBVIOUS
<1>6. PICK f \in F : \A k \in F : f <= k
  <2>1. F \in SUBSET Nat /\ F # {}
    BY <1>2, <1>5
  <2>2. QED
    BY <2>1, LeastOf
<1>7. f \in 2..Len(stack) /\ f - 1 \in 1..Len(stack) /\ stack[f].tid = t /\ f - 1 < f
  <2>1. f # 1
    BY <1>1, <1>4, <1>5, <1>6 DEF TreeInv, SpawnTree
  <2>2. QED
    BY <1>1, <1>5, <1>6, <2>1
<1>8. stack[f].tid # stack[f - 1].tid
  <2>1. f - 1 \notin F
    BY <1>6, <1>7
  <2>2. QED
    BY <1>5, <1>7, <2>1
<1>9. PICK b \in 1..Len(stack) : b = f - 1
  BY <1>7
<1>10. stack[b].tid < t /\ Parent(t) = stack[b].tid
  BY <1>7, <1>8, <1>9, OlderBelow
<1>11. stack[b].tid \notin R
  BY <1>1, <1>2, <1>3, <1>4, <1>9, <1>10
<1>12. SpawnIR(t).type = "OpenMPFork"
  BY <1>4, <1>10, <1>11 DEF InRegions
<1>13. IRAt(stack[b]).type = "OpenMPFork" /\ ~Skips(stack[b].tid)
  <2>1. Link(f)
    BY <1>7 DEF FrameLinks
  <2>2. LowerIR(f) = IRAt(stack[b]) /\ LowerIR(f) = SpawnIR(t) /\ ~Skips(stack[b].tid)
    BY <1>7, <1>8, <1>9, <2>1 DEF Link, LowerIR
  <2>3. QED
    BY <1>12, <2>2
<1>14. BeforeJoin(stack[b].fn, stack[b].pos)
  <2>1. PICK fn, pos, body : /\ fn = stack[b].fn /\ pos = stack[b].pos
                             /\ body = program.body[fn]
    OBVIOUS
  <2>2. /\ program \in Programs /\ fn \in DOMAIN program.body /\ pos \in Nat \ {0}
        /\ b < Len(stack) => pos <= Len(body)
    <3>1. stack[b] \in FrameRecords
      BY DEF Inv, Typed
    <3>2. QED
      BY <2>1, <3>1 DEF Inv, Typed, StackInv, FrameRecords, Positions
  <2>3. body \in Seq(IRs) /\ Len(body) \in Nat
    BY <2>1, <2>2, SummaryIR
  <2>4. pos \in 1..Len(body) /\ pos \in DOMAIN body
    BY <1>1, <1>7, <1>9, <2>2, <2>3
  <2>5. body[pos].type = "OpenMPFork"
    BY <1>13, <2>1 DEF IRAt
  <2>6. PICK j \in DOMAIN body : /\ pos < j /\ body[j].type = "OpenMPJoin"
                                 /\ \A i \in pos..(j - 1) : body[i].type = "OpenMPFork"
    BY <2>1, <2>2, <2>4, <2>5, RegionsAssumption DEF PairsForks
  <2>7. j \in pos..Len(body)
    BY <2>2, <2>3, <2>6
  <2>8. QED
    BY <2>1, <2>6, <2>7 DEF BeforeJoin
<1>15. QED
  BY <1>13, <1>14 DEF Awaits

\* Threads that are in regions after a step were so before it.
LEMMA InRegionsBefore ==
  ASSUME Inv, TreeInv, Building, NEW R, InRegions(R)'
  PROVE  InRegions(R)
<1>1. SUFFICES ASSUME NEW t \in Tids, t \in R
               PROVE  /\ threads[t].spawnSite # NoSpawn
                      /\ SpawnIR(t).type = "OpenMPFork" \/ Parent(t) \in R
  BY DEF InRegions
<1>2. PICK u \in Tids, evs \in Seq(EventRecords) : Grows(u, evs)
  BY BuildingGrows
<1>3. t \in Tids' /\ threads'[t].spawnSite = threads[t].spawnSite
  BY <1>2, Numbers DEF Grows, Tids, Positions
<1>4. /\ threads'[t].spawnSite # NoSpawn
      /\ SpawnIR(t)'.type = "OpenMPFork" \/ Parent(t)' \in R
  BY <1>1, <1>3 DEF InRegions
<1>5. SpawnIR(t)' = SpawnIR(t) /\ Parent(t)' = Parent(t)
  BY <1>3, <1>4, SpawnIRStays DEF Parent
<1>6. QED
  BY <1>3, <1>4, <1>5

\* Every step keeps the tasks of regions awaited.
LEMMA RegionsNext ==
  ASSUME Inv, TreeInv, FrameLinks, RegionInv, [Next]_vars
  PROVE  RegionInv'
<1>1. Inv' /\ unjoinedTasks \in Seq(PIDs)
  BY NextKeeps DEF Inv, Typed
<1>2. CASE Building
  <2>1. \/ unjoinedTasks' = <<>>
        \/ unjoinedTasks' = unjoinedTasks /\ inParallel' = inParallel
        \/ VisitFork
    <3>1. CASE VisitEvent \/ VisitExternCall
      <4>1. inParallel' = inParallel
        BY <3>1 DEF VisitEvent, VisitExternCall, Continue
      <4>2. QED
        BY <3>1, <4>1, EventStep DEF QuietStep, JoiningStep
    <3>2. CASE VisitRecursiveCall \/ VisitCall \/ ReturnFromCall \/ ReturnFromThread
      BY <1>1, <3>2, CallStep DEF QuietStep, VisitRecursiveCall, VisitCall,
         ReturnFromCall, ReturnFromThread, Continue
    <3>3. CASE SkipToTarget \/ SkipSerial \/ SkipInTeams \/ SkipTask
               \/ SkipMasterRegion \/ VisitUnresolvedCall \/ VisitRecursiveFork
      <4>1. inParallel' = inParallel
        BY <3>3 DEF SkipToTarget, SkipSerial, SkipInTeams, SkipTask, SkipMasterRegion,
                    VisitUnresolvedCall, VisitRecursiveFork, Pass, Continue
      <4>2. QED
        BY <3>3, <4>1, SilentStep DEF QuietStep
    <3>4. QED
      BY <1>2, <3>1, <3>2, <3>3 DEF Building, Staying
  <2>2. unjoinedTasks' # <<>> => inParallel'
    BY <2>1 DEF RegionInv, VisitFork
  <2>3. ASSUME NEW n \in ToSet(unjoinedTasks'), NEW R, InRegions(R)', n[1] \in R
        PROVE  \E k \in 1..Len(stack') : Awaits(k)'
    <3>1. unjoinedTasks' # <<>>
      BY <2>3 DEF ToSet
    <3>2. InRegions(R)
      BY <1>2, <2>3, InRegionsBefore
    <3>3. PICK i \in 1..Len(stack) : Awaits(i)
      <4>1. CASE n \in ToSet(unjoinedTasks)
        BY <2>3, <3>2, <4>1 DEF RegionInv
      <4>2. CASE n \notin ToSet(unjoinedTasks)
        <5>1. VisitFork
          BY <2>1, <2>3, <3>1, <4>2
        <5>2. PICK evs : ForkingStep(evs)
          BY <1>1, <5>1, ForkStep
        <5>3. PICK site : site = <<Tid, Len(threads[Tid].events) + 1>>
          OBVIOUS
        <5>4. unjoinedTasks' = Append(unjoinedTasks, site)
          BY <2>3, <4>2, <5>2, <5>3 DEF ForkingStep
        <5>5. n = site
          <6>1. unjoinedTasks \in Seq(PIDs \cup {site})
            BY <1>1
          <6>2. PICK tasks, S : tasks = unjoinedTasks /\ tasks \in Seq(S) /\ site \in S
            BY <6>1
          <6>3. PICK k \in 1..Len(Append(tasks, site)) : n = Append(tasks, site)[k]
            BY <2>3, <5>4, <6>2 DEF ToSet
          <6>4. k \in 1..Len(tasks) => n = tasks[k]
            BY <6>2, <6>3
          <6>5. k \notin 1..Len(tasks)
            BY <4>2, <6>2, <6>4 DEF ToSet
          <6>6. QED
            BY <6>2, <6>3, <6>5
        <5>6. Tid \in R
          BY <2>3, <5>3, <5>5
        <5>7. QED
          BY <1>2, <3>2, <5>6, BuildingStays, RegionAwaited
      <4>3. QED
        BY <4>1, <4>2
    <3>4. CASE unjoinedTasks # <<>>
      BY <1>2, <3>1, <3>3, <3>4, AwaitedNext DEF RegionInv
    <3>5. CASE unjoinedTasks = <<>>
      <4>1. VisitFork
        BY <2>1, <3>1, <3>5
      <4>2. PICK evs, frame, new : Forks(evs, frame, new)
        BY <4>1, VisitForkForks
      <4>3. Len(stack') = Len(stack) + 1 /\ stack'[i] = stack[i]
        BY <4>2, PushedStack DEF Forks
      <4>4. Awaits(i)'
        BY <1>2, <3>3, <4>1, <4>3, AwaitsStay
      <4>5. i \in 1..Len(stack')
        BY <4>3, Numbers
      <4>6. QED
        BY <4>4, <4>5
    <3>6. QED
      BY <3>4, <3>5
  <2>4. \A n \in ToSet(unjoinedTasks)' : \A R : InRegions(R)' /\ n[1] \in R =>
          \E k \in 1..Len(stack') : Awaits(k)'
    BY <2>3 DEF ToSet
  <2>5. QED
    BY <2>2, <2>4 DEF RegionInv
<1>3. CASE ~Building
  <2>1. /\ UNCHANGED <<threads, unjoinedTasks, inParallel, program>>
        /\ ReturnFromMain \/ Flatten \/ Finish \/ Abort \/ UNCHANGED vars
    BY <1>3, OtherTasks, OtherSteps
  <2>2. \A R : InRegions(R)' <=> InRegions(R)
    BY <2>1 DEF InRegions, Tids, SpawnIR, EventAt, Parent
  <2>3. CASE ReturnFromMain
    <3>1. Len(stack) = 1 /\ Ended /\ status = "building"
      BY <2>3 DEF ReturnFromMain, Ended
    <3>2. ASSUME NEW i \in 1..Len(stack), Awaits(i) PROVE FALSE
      <4>1. i = Len(stack)
        BY <3>1
      <4>2. Top.pos <= Len(program.body[Top.fn])
        BY <3>2, <4>1, AwaitsIR DEF Top
      <4>3. Top.pos \in Nat /\ Len(program.body[Top.fn]) \in Nat
        BY <3>1, TopTyped DEF Inv, FrameRecords, Positions
      <4>4. QED
        BY <3>1, <4>2, <4>3 DEF Ended
    <3>3. \A n \in ToSet(unjoinedTasks) : \A R : ~(InRegions(R) /\ n[1] \in R)
      BY <3>2 DEF RegionInv
    <3>4. ToSet(unjoinedTasks)' = ToSet(unjoinedTasks)
      BY <2>1
    <3>5. QED
      BY <2>1, <2>2, <3>3, <3>4 DEF RegionInv
  <2>4. CASE Flatten \/ Finish \/ Abort \/ UNCHANGED vars
    <3>1. stack' = stack
      BY <2>4 DEF Flatten, Finish, Abort, vars
    <3>2. \A i : Awaits(i)' <=> Awaits(i)
      BY <2>1, <3>1 DEF Awaits, Skips, BeforeJoin
    <3>3. QED
      BY <2>1, <2>2, <3>1, <3>2 DEF RegionInv
  <2>5. QED
    BY <2>1, <2>3, <2>4
<1>4. QED
  BY <1>2, <1>3


(***************************************************************************)
(* The line of threads above a thread, which is a recursive function like  *)
(* the path of spawns.                                                     *)
(***************************************************************************)
LineStep(line, t) ==
  IF threads[t].spawnSite = NoSpawn THEN {t}
  ELSE {t} \cup line[threads[t].spawnSite[1]]

LinesUpTo(n, line) == line = [t \in 1..n |-> LineStep(line, t)]

LEMMA LinesExist ==
  ASSUME Inv, TreeInv, NEW n \in 0..Len(threads)
  PROVE  \E line : LinesUpTo(n, line)
<1>1. Len(threads) \in Nat
  BY Numbers
<1>2. PICK Bad : Bad = {m \in 0..Len(threads) : ~ \E line : LinesUpTo(m, line)}
  OBVIOUS
<1>3. SUFFICES ASSUME Bad # {} PROVE FALSE
  BY <1>2
<1>4. PICK m \in Bad : \A k \in Bad : m <= k
  <2>1. Bad \in SUBSET Nat
    BY <1>1, <1>2
  <2>2. QED
    BY <1>3, <2>1, LeastOf
<1>5. m \in 0..Len(threads) /\ ~ \E line : LinesUpTo(m, line)
  BY <1>2, <1>4
<1>6. m # 0
  <2>1. PICK line : line = [t \in 1..0 |-> {}]
    OBVIOUS
  <2>2. LinesUpTo(0, line)
    BY <2>1 DEF LinesUpTo
  <2>3. QED
    BY <1>5, <2>2
<1>7. m - 1 \in 0..Len(threads) /\ m - 1 \notin Bad /\ m \in Nat
  BY <1>1, <1>4, <1>5, <1>6
<1>8. PICK line : LinesUpTo(m - 1, line)
  BY <1>2, <1>7
<1>9. PICK longer : longer = [t \in 1..m |-> IF t = m THEN LineStep(line, m) ELSE line[t]]
  OBVIOUS
<1>10. ASSUME NEW t \in 1..m PROVE longer[t] = LineStep(longer, t)
  <2>1. LineStep(longer, t) = LineStep(line, t)
    <3>1. CASE threads[t].spawnSite = NoSpawn
      BY <3>1 DEF LineStep
    <3>2. CASE threads[t].spawnSite # NoSpawn
      <4>1. t \in Tids /\ Tids = Spawned \cup {1}
        BY <1>1, <1>5, Numbers DEF Tids, Spawned
      <4>2. threads[t].spawnSite[1] \in 1..(t - 1)
        BY <3>2, <4>1 DEF TreeInv, SpawnTree, Parent
      <4>3. threads[t].spawnSite[1] \in 1..m /\ threads[t].spawnSite[1] # m
        BY <1>7, <4>2
      <4>4. longer[threads[t].spawnSite[1]] = line[threads[t].spawnSite[1]]
        BY <1>9, <4>3
      <4>5. QED
        BY <4>4 DEF LineStep
    <3>3. QED
      BY <3>1, <3>2
  <2>2. CASE t = m
    BY <1>9, <2>1, <2>2
  <2>3. CASE t # m
    <3>1. t \in 1..(m - 1)
      BY <1>7, <2>3
    <3>2. line[t] = LineStep(line, t)
      BY <1>8, <3>1 DEF LinesUpTo
    <3>3. QED
      BY <1>9, <2>1, <2>3, <3>2
  <2>4. QED
    BY <2>2, <2>3
<1>11. longer = [t \in 1..m |-> LineStep(longer, t)]
  BY <1>9, <1>10
<1>12. QED
  BY <1>5, <1>11 DEF LinesUpTo

LEMMA LineageIs ==
  ASSUME Inv, TreeInv
  PROVE  \A t \in Tids : Lineage[t] = LineStep(Lineage, t)
<1>1. DOMAIN threads = Tids /\ Len(threads) \in 0..Len(threads)
  BY Numbers DEF Inv, Typed, Tids
<1>2. PICK line : LinesUpTo(Len(threads), line)
  BY <1>1, LinesExist
<1>3. line = [t \in DOMAIN threads |-> LineStep(line, t)]
  BY <1>1, <1>2 DEF LinesUpTo, Tids
<1>4. Lineage = [t \in DOMAIN threads |-> LineStep(Lineage, t)]
  BY <1>3 DEF Lineage, LineStep
<1>5. QED
  BY <1>1, <1>4

\* A thread is in a region because it or its parent is.
LEMMA ParallelRegions ==
  ASSUME Inv, TreeInv
  PROVE  InRegions({t \in Tids : InParallelRegion(t)})
<1>1. SUFFICES ASSUME NEW t \in Tids, InParallelRegion(t)
               PROVE  /\ threads[t].spawnSite # NoSpawn
                      /\ \/ SpawnIR(t).type = "OpenMPFork"
                         \/ Parent(t) \in Tids /\ InParallelRegion(Parent(t))
  BY DEF InRegions
<1>2. PICK u \in Lineage[t] : /\ threads[u].spawnSite # NoSpawn
                              /\ SpawnIR(u).type = "OpenMPFork"
  BY <1>1 DEF InParallelRegion, SpawnIR
<1>3. Lineage[t] = LineStep(Lineage, t)
  BY LineageIs
<1>4. CASE u = t
  BY <1>2, <1>4
<1>5. CASE u # t
  <2>1. threads[t].spawnSite # NoSpawn /\ u \in Lineage[Parent(t)]
    BY <1>2, <1>3, <1>5 DEF LineStep, Parent
  <2>2. InParallelRegion(Parent(t))
    BY <1>2, <2>1 DEF InParallelRegion, SpawnIR
  <2>3. Parent(t) \in Tids
    <3>1. t \in Spawned
      BY <2>1, Numbers DEF TreeInv, SpawnTree, Tids, Spawned, Positions
    <3>2. Parent(t) \in 1..(t - 1)
      BY <3>1 DEF TreeInv, SpawnTree
    <3>3. QED
      BY <3>1, <3>2, Numbers DEF Spawned, Tids, Positions
  <2>4. QED
    BY <2>1, <2>2, <2>3
<1>6. QED
  BY <1>4, <1>5

\* When the trace is done nothing awaits a join any more.
LEMMA TasksJoined ==
  ASSUME Inv, TreeInv, TaskInv, RegionInv
  PROVE  TasksJoinedOnce
<1>1. SUFFICES ASSUME status = "done", NEW n \in TaskForks
               PROVE  /\ Cardinality(JoinsOf(n)) <= 1
                      /\ InParallelRegion(n[1]) => Cardinality(JoinsOf(n)) = 1
  BY DEF TasksJoinedOnce
<1>2. n \in EventPIDs /\ n # NoFork /\ n[1] \in Tids
  <2>1. n \in EventPIDs /\ n # NoFork
    BY EventsAreForks
  <2>2. n[1] \in DOMAIN threads
    BY <2>1, EventPIDsAre
  <2>3. QED
    BY <2>1, <2>2 DEF Inv, Typed, Tids
<1>3. \A j \in EventPIDs : EventAt(j).fork = n => j \in JoinsOf(n)
  BY <1>2 DEF JoinsOf, Inv, JoinInv
<1>4. \A j, k \in JoinsOf(n) : j = k
  BY <1>2 DEF JoinsOf, TaskInv
<1>5. JoinsOf(n) = {} \/ \E j : JoinsOf(n) = {j}
  BY <1>4
<1>6. Cardinality(JoinsOf(n)) <= 1 /\ (JoinsOf(n) # {} => Cardinality(JoinsOf(n)) = 1)
  <2>1. CASE JoinsOf(n) = {}
    BY <2>1, FS_EmptySet
  <2>2. CASE JoinsOf(n) # {}
    <3>1. PICK j : JoinsOf(n) = {j}
      BY <1>5, <2>2
    <3>2. Cardinality({j}) = 1
      BY FS_Singleton
    <3>3. QED
      BY <2>2, <3>1, <3>2
  <2>3. QED
    BY <2>1, <2>2
<1>7. ASSUME InParallelRegion(n[1]) PROVE JoinsOf(n) # {}
  <2>1. \A i \in 1..Len(stack) : FALSE
    BY <1>1 DEF Inv, StackInv
  <2>2. PICK R : R = {t \in Tids : InParallelRegion(t)}
    OBVIOUS
  <2>3. InRegions(R) /\ n[1] \in R
    BY <1>2, <1>7, <2>2, ParallelRegions
  <2>4. n \notin ToSet(unjoinedTasks)
    BY <2>1, <2>3 DEF RegionInv
  <2>5. Joined(n)
    BY <1>1, <2>4 DEF TaskInv
  <2>6. QED
    BY <1>3, <2>5 DEF Joined
<1>8. QED
  BY <1>6, <1>7

\* A task is joined at most once, although every thread of the program joins
\* whatever tasks the one list of the runtime model holds; and exactly once if
\* it was spawned inside a parallel region, by the end of that region at the
\* latest.
THEOREM TasksAreJoinedOnce == Spec => []TasksJoinedOnce
<1> DEFINE Joining == Inv /\ TreeInv /\ TaskInv /\ FrameLinks /\ RegionInv
<1>1. Init => Joining
  BY InitInv, InitOrdered, InitTasks, InitLinks
<1>2. Joining /\ [Next]_vars => Joining'
  BY NextKeeps, TreeNext, TasksNext, LinksNext, RegionsNext
<1>3. Joining => TasksJoinedOnce
  BY TasksJoined
<1> HIDE DEF Joining
<1>4. QED
  BY <1>1, <1>2, <1>3, PTL DEF Spec

-----------------------------------------------------------------------------
(***************************************************************************)
(* What is left of the regions.  A teams region is left when the thread of *)
(* its fork ends, and a master or single region at a mark of its end; that *)
(* the end is reached, by the thread and the activation that met the       *)
(* start, follows from the structure of the summaries                      *)
(* (StructureAssumption) and from what skipUntil may hold.                 *)
(***************************************************************************)
Body(i) == program.body[stack[i].fn]

\* What a frame is at.
LEMMA FrameBody ==
  ASSUME Inv, NEW i \in 1..Len(stack)
  PROVE  /\ program \in Programs /\ stack[i].fn \in DOMAIN program.body
         /\ stack[i].tid \in Tids
         /\ Body(i) \in Seq(IRs) /\ Len(Body(i)) \in Nat /\ DOMAIN Body(i) = 1..Len(Body(i))
         /\ stack[i].pos \in Positions /\ stack[i].pos <= Len(Body(i)) + 1
         /\ i < Len(stack) => stack[i].pos <= Len(Body(i))
<1>1. stack[i] \in FrameRecords /\ stack[i].fn \in DOMAIN program.body /\ program \in Programs
  BY DEF Inv, Typed, StackInv
<1>2. Body(i) \in Seq(IRs)
  BY <1>1, SummaryIR DEF Body
<1>3. QED
  BY <1>1, <1>2 DEF Inv, StackInv, FrameRecords, Body

\* The mark of a region is a call, and the only one of its instruction.
LEMMA MarksAreCalls ==
  ASSUME Inv, NEW i \in 1..Len(stack), NEW k \in 1..Len(Body(i)),
         Body(i)[k].type \in RegionMarks
  PROVE  /\ Kind(Body(i)[k]) = "Call"
         /\ Body(i)[k].callee \in program.extern \ DOMAIN program.body
         /\ Body(i)[k].inst # NoInst
         /\ \A fn \in DOMAIN program.body : \A l \in DOMAIN program.body[fn] :
              program.body[fn][l].inst = Body(i)[k].inst => fn = stack[i].fn /\ l = k
<1>1. /\ program \in Programs /\ stack[i].fn \in DOMAIN program.body /\ k \in DOMAIN Body(i)
  BY FrameBody
<1>2. CallsRuntime(program)
  BY <1>1, MarksAssumption
<1>3. Kind(Body(i)[k]) = "Call"
  BY DEF Kind, ForkTypes, JoinTypes, LockTypes, UnlockTypes, RegionMarks, MasterMarks
<1>4. QED
  BY <1>1, <1>2, <1>3 DEF CallsRuntime, Body

\* A frame does not wait at a mark below another.
LEMMA WaitsAtNoMark ==
  ASSUME Inv, FrameLinks, NEW i \in 1..Len(stack), i # Len(stack)
  PROVE  Body(i)[stack[i].pos].type \notin RegionMarks
<1>1. PICK j \in 2..Len(stack) : j = i + 1 /\ j - 1 = i
  <2>1. i + 1 \in 2..Len(stack) /\ (i + 1) - 1 = i
    BY Numbers
  <2>2. QED
    BY <2>1
<1>2. i < Len(stack)
  BY Numbers
<1>3. PICK k \in 1..Len(Body(i)) : k = stack[i].pos
  <2>1. stack[i].pos \in 1..Len(Body(i))
    BY <1>2, FrameBody DEF Positions
  <2>2. QED
    BY <2>1
<1>4. LowerIR(j) = Body(i)[k]
  BY <1>1, <1>3 DEF LowerIR, IRAt, Body
<1>5. \/ Kind(Body(i)[k]) = "Call" /\ Body(i)[k].callee \in DOMAIN program.body
      \/ Kind(Body(i)[k]) = "Fork"
  BY <1>1, <1>4 DEF FrameLinks, Link
<1>6. Body(i)[k].type \notin RegionMarks
  BY <1>5, MarksAreCalls
<1>7. QED
  BY <1>3, <1>6

\* A frame goes on behind the IR it is at, and it is the last.
GoesOn(n) ==
  /\ Len(stack') = n
  /\ \A i \in 1..n : stack'[i].tid = stack[i].tid /\ stack'[i].fn = stack[i].fn
  /\ \A i \in 1..n : i # n => stack'[i] = stack[i]
  /\ stack'[n].pos = stack[n].pos + 1

LEMMA StackGoesOn ==
  ASSUME NEW s \in Seq(FrameRecords), s # <<>>, stack' = Step(s),
         Len(s) <= Len(stack), \A i \in 1..Len(s) : s[i] = stack[i]
  PROVE  GoesOn(Len(s))
<1>1. Len(s) \in 1..Len(s)
  OBVIOUS
<1>2. /\ Len(stack') = Len(s)
      /\ \A i \in 1..Len(s) :
           stack'[i] = IF i = Len(s) THEN [s[i] EXCEPT !.pos = @ + 1] ELSE s[i]
      /\ \A i \in 1..Len(s) :
           /\ stack'[i].tid = s[i].tid /\ stack'[i].fn = s[i].fn
           /\ stack'[i].pos = IF i = Len(s) THEN s[i].pos + 1 ELSE s[i].pos
  BY StepMovesTop
<1>3. QED
  BY <1>1, <1>2 DEF GoesOn

\* What the steps of buildTrace do to the stack.
LEMMA StackMoves ==
  ASSUME Inv, Building
  PROVE  /\ Len(stack) \in 1..Len(stack) /\ program' = program
         /\ IRNow = Body(Len(stack))[stack[Len(stack)].pos]
         /\ Staying => HasIR /\ GoesOn(Len(stack))
         /\ VisitCall \/ VisitFork =>
              /\ HasIR /\ Len(stack') = Len(stack) + 1 /\ stack'[Len(stack) + 1].pos = 1
              /\ \A i \in 1..Len(stack) : stack'[i] = stack[i]
         /\ ReturnFromCall \/ ReturnFromThread =>
              /\ Ended /\ Len(stack) - 1 \in 1..Len(stack) /\ GoesOn(Len(stack) - 1)
<1>1. /\ Len(stack) \in Nat /\ Len(stack) \in 1..Len(stack) /\ program' = program
      /\ stack \in Seq(FrameRecords) /\ stack # <<>>
  BY BuildingStays, TopTyped DEF Inv, Typed, StackInv, Positions
<1>2. IRNow = Body(Len(stack))[stack[Len(stack)].pos]
  BY DEF IRNow, IRAt, Top, Body
<1>3. ASSUME Staying PROVE HasIR /\ GoesOn(Len(stack))
  <2>1. PICK evs : Advances(evs)
    BY <1>3, StayingAdvances
  <2>2. HasIR /\ stack' = Step(stack)
    BY <2>1 DEF Advances
  <2>3. GoesOn(Len(stack))
    BY <1>1, <2>2, StackGoesOn
  <2>4. QED
    BY <2>2, <2>3
<1>4. ASSUME VisitCall \/ VisitFork
      PROVE  /\ HasIR /\ Len(stack') = Len(stack) + 1 /\ stack'[Len(stack) + 1].pos = 1
             /\ \A i \in 1..Len(stack) : stack'[i] = stack[i]
  <2>1. PICK frame \in FrameRecords : HasIR /\ stack' = Append(stack, frame)
    BY <1>4, VisitCallCalls, VisitForkForks DEF Calls, Forks
  <2>2. PICK t, fn, ctx : stack' = Append(stack, Frame(t, fn, ctx))
    BY <1>4 DEF VisitCall, VisitFork
  <2>3. /\ Len(stack') = Len(stack) + 1 /\ stack'[Len(stack) + 1] = frame
        /\ \A i \in 1..Len(stack) : stack'[i] = stack[i]
    BY <2>1, PushedStack
  <2>4. PICK other : other = Frame(t, fn, ctx)
    OBVIOUS
  <2>5. stack'[Len(stack) + 1] = other
    <3>1. PICK S : stack \in Seq(S) /\ other \in S
      <4>1. stack \in Seq(FrameRecords \cup {other})
        BY <1>1
      <4>2. QED
        BY <4>1
    <3>2. QED
      BY <2>2, <2>4, <3>1
  <2>6. QED
    BY <2>1, <2>3, <2>4, <2>5 DEF Frame
<1>5. ASSUME ReturnFromCall \/ ReturnFromThread
      PROVE  Ended /\ Len(stack) - 1 \in 1..Len(stack) /\ GoesOn(Len(stack) - 1)
  <2>1. Ended /\ Len(stack) > 1 /\ stack' = Step(Front(stack))
    BY <1>5 DEF ReturnFromCall, ReturnFromThread
  <2>2. PICK front : front = Front(stack)
    OBVIOUS
  <2>3. /\ front \in Seq(FrameRecords) /\ Len(front) = Len(stack) - 1
        /\ \A i \in 1..(Len(stack) - 1) : front[i] = stack[i]
    BY <1>1, <2>2, FrontOf
  <2>4. front # <<>> /\ stack' = Step(front) /\ Len(front) <= Len(stack)
    BY <1>1, <2>1, <2>2, <2>3
  <2>5. GoesOn(Len(front))
    BY <2>3, <2>4, StackGoesOn
  <2>6. QED
    BY <1>1, <2>1, <2>3, <2>5
<1>6. QED
  BY <1>1, <1>2, <1>3, <1>4, <1>5

(***************************************************************************)
(* The open master region.  Only the thread that stands for the master     *)
(* enters it.  It is between a start and the end that closes it, in one    *)
(* frame of the stack, and currentMasterStart is its start.                *)
(***************************************************************************)
MasterThread(t) ==
  /\ threads[t].spawnSite # NoSpawn
  /\ SpawnIR(t).type = "OpenMPFork" /\ SpawnIR(t).master

\* The region that the k-th IR of a body starts is open before the pos-th.
OpenBefore(body, k, pos) ==
  /\ k \in 1..(pos - 1) /\ body[k].type = "OpenMPMasterStart"
  /\ \A l \in (k + 1)..(pos - 1) : body[l].type \notin MasterMarks

OpenAt(i, k) == MasterThread(stack[i].tid) /\ OpenBefore(Body(i), k, stack[i].pos)

Inside(i) == \E k \in Nat : OpenAt(i, k)

RegionsClose ==
  \A region \in masterRegions :
    \E fn \in DOMAIN program.body : \E k, e \in DOMAIN program.body[fn] :
      /\ Closes(program.body[fn], k, e)
      /\ region = <<program.body[fn][k].inst, program.body[fn][e].inst>>

MasterInv ==
  /\ \A i \in 1..Len(stack) : \A k : OpenAt(i, k) => currentMasterStart = Body(i)[k].inst
  /\ \A i, j \in 1..Len(stack) : Inside(i) /\ Inside(j) => i = j
  /\ currentMasterStart # NoInst => \E i \in 1..Len(stack) : Inside(i)
  /\ RegionsClose

\* What one IR does to the region that is open.
LEMMA OpenStep ==
  ASSUME NEW body, NEW pos \in Positions, NEW k
  PROVE  /\ body[pos].type \notin MasterMarks =>
              (OpenBefore(body, k, pos + 1) <=> OpenBefore(body, k, pos))
         /\ body[pos].type = "OpenMPMasterStart" =>
              (OpenBefore(body, k, pos + 1) <=> k = pos)
         /\ body[pos].type = "OpenMPMasterEnd" => ~OpenBefore(body, k, pos + 1)
         /\ ~OpenBefore(body, k, 1)
<1>1. pos \in Nat /\ pos >= 1 /\ (pos + 1) - 1 = pos
  BY DEF Positions
<1>2. body[pos].type = "OpenMPMasterStart" => body[pos].type \in MasterMarks
  BY DEF MasterMarks
<1>3. body[pos].type = "OpenMPMasterEnd" => /\ body[pos].type \in MasterMarks
                                           /\ body[pos].type # "OpenMPMasterStart"
  BY DEF MasterMarks
<1>4. ASSUME body[pos].type \notin MasterMarks, OpenBefore(body, k, pos + 1)
      PROVE  OpenBefore(body, k, pos)
  <2>1. k \in 1..pos /\ k # pos
    BY <1>1, <1>2, <1>4 DEF OpenBefore
  <2>2. k \in 1..(pos - 1) /\ \A l \in (k + 1)..(pos - 1) : l \in (k + 1)..pos
    BY <1>1, <2>1
  <2>3. QED
    BY <1>1, <1>4, <2>2 DEF OpenBefore
<1>5. ASSUME body[pos].type \notin MasterMarks, OpenBefore(body, k, pos)
      PROVE  OpenBefore(body, k, pos + 1)
  <2>1. k \in 1..pos /\ \A l \in (k + 1)..pos : l \in (k + 1)..(pos - 1) \/ l = pos
    BY <1>1, <1>5 DEF OpenBefore
  <2>2. QED
    BY <1>1, <1>5, <2>1 DEF OpenBefore
<1>6. ASSUME body[pos].type \in MasterMarks, OpenBefore(body, k, pos + 1)
      PROVE  k = pos /\ body[pos].type = "OpenMPMasterStart"
  <2>1. k \in 1..pos /\ pos \notin (k + 1)..pos /\ body[k].type = "OpenMPMasterStart"
    BY <1>1, <1>6 DEF OpenBefore
  <2>2. QED
    BY <1>1, <2>1
<1>7. ASSUME body[pos].type = "OpenMPMasterStart", k = pos
      PROVE  OpenBefore(body, k, pos + 1)
  <2>1. k \in 1..pos /\ \A l \in (k + 1)..pos : FALSE
    BY <1>1, <1>7
  <2>2. QED
    BY <1>1, <1>7, <2>1 DEF OpenBefore
<1>8. ~OpenBefore(body, k, 1)
  BY DEF OpenBefore
<1>9. QED
  BY <1>2, <1>3, <1>4, <1>5, <1>6, <1>7, <1>8

\* A region that is closed at the pos-th IR is open before it, and no region
\* is open behind a body.
LEMMA ClosedOpen ==
  ASSUME NEW body, NEW k, NEW e, DOMAIN body \subseteq Positions, Closes(body, k, e)
  PROVE  OpenBefore(body, k, e)
<1>1. k \in Nat /\ k >= 1 /\ e \in Nat /\ k < e /\ k \in 1..(e - 1)
  BY DEF Closes, Positions
<1>2. QED
  BY <1>1 DEF Closes, OpenBefore

LEMMA NoneOpenBehind ==
  ASSUME Inv, NEW i \in 1..Len(stack), stack[i].pos > Len(Body(i)), NEW k
  PROVE  ~OpenAt(i, k)
<1>1. SUFFICES ASSUME OpenBefore(Body(i), k, stack[i].pos) PROVE FALSE
  BY DEF OpenAt
<1>2. /\ Len(Body(i)) \in Nat /\ DOMAIN Body(i) = 1..Len(Body(i))
      /\ stack[i].pos = Len(Body(i)) + 1 /\ NestsRegions(program)
      /\ stack[i].fn \in DOMAIN program.body
  BY FrameBody, StructureAssumption DEF Positions
<1>3. k \in DOMAIN Body(i) /\ Body(i)[k].type = "OpenMPMasterStart"
  BY <1>1, <1>2 DEF OpenBefore
<1>4. PICK e \in DOMAIN Body(i) : Closes(Body(i), k, e)
  BY <1>2, <1>3 DEF NestsRegions, Body
<1>5. e \in (k + 1)..(stack[i].pos - 1)
  BY <1>2, <1>3, <1>4 DEF Closes
<1>6. Body(i)[e].type \in MasterMarks
  BY <1>4 DEF Closes, MasterMarks
<1>7. QED
  BY <1>1, <1>5, <1>6 DEF OpenBefore

\* A thread goes on standing for the master, or not.
LEMMA MasterStays ==
  ASSUME Inv, Building, NEW t \in Tids
  PROVE  MasterThread(t)' <=> MasterThread(t)
<1>1. PICK u \in Tids, evs \in Seq(EventRecords) : Grows(u, evs)
  BY BuildingGrows
<1>2. threads'[t].spawnSite = threads[t].spawnSite
  BY <1>1 DEF Grows
<1>3. CASE threads[t].spawnSite = NoSpawn
  BY <1>2, <1>3 DEF MasterThread
<1>4. CASE threads[t].spawnSite # NoSpawn
  BY <1>2, <1>4, SpawnIRStays DEF MasterThread
<1>5. QED
  BY <1>3, <1>4

LEMMA RunningMaster ==
  ASSUME Inv, status = "building"
  PROVE  IsOpenMPMasterThread <=> MasterThread(Tid)
BY DEF IsOpenMPMasterThread, MasterThread, SpawnIR, Thread

\* A mark is skipped, or visited as a call; a step over anything else leaves
\* the master regions alone.
LEMMA MarkStep ==
  ASSUME Inv, Staying \/ VisitCall \/ VisitFork, IRNow.type \in RegionMarks
  PROVE  SkipToTarget \/ SkipMasterRegion \/ VisitExternCall
<1>1. /\ HasIR /\ Len(stack) \in 1..Len(stack)
      /\ IRNow = Body(Len(stack))[stack[Len(stack)].pos]
  BY StackMoves DEF Building
<1>2. PICK k \in 1..Len(Body(Len(stack))) : k = stack[Len(stack)].pos
  BY <1>1, FrameBody DEF HasIR, Top, Body, Positions
<1>3. Kind(IRNow) = "Call" /\ IRNow.callee \in program.extern \ DOMAIN program.body
  BY <1>1, <1>2, MarksAreCalls
<1>4. ~Serial /\ ~SkippedInTeams /\ ~SkippedTask
  BY <1>3 DEF Serial, SkippedInTeams, SkippedTask, TeamSpecificTypes, RegionMarks, MasterMarks
<1>5. QED
  BY <1>3, <1>4 DEF Staying, SkipSerial, SkipInTeams, SkipTask, VisitEvent,
     VisitUnresolvedCall, VisitRecursiveCall, VisitRecursiveFork, VisitCall, VisitFork

LEMMA NoMarkStep ==
  ASSUME Inv, Building, ~VisitExternCall \/ IRNow.type \notin MasterMarks
  PROVE  UNCHANGED <<masterRegions, currentMasterStart>>
<1>1. CASE SkipToTarget \/ SkipSerial \/ SkipInTeams \/ SkipTask \/ SkipMasterRegion
           \/ VisitUnresolvedCall \/ VisitRecursiveCall \/ VisitCall \/ ReturnFromCall
  BY <1>1 DEF SkipToTarget, SkipSerial, SkipInTeams, SkipTask, SkipMasterRegion,
     VisitUnresolvedCall, VisitRecursiveCall, VisitCall, ReturnFromCall, Pass, runtimeVars
<1>2. CASE ReturnFromThread
  BY <1>2 DEF ReturnFromThread
<1>3. IRNow.type \in MasterMarks => Kind(IRNow) = "Call"
  BY DEF Kind, ForkTypes, JoinTypes, LockTypes, UnlockTypes, MasterMarks
<1>4. CASE VisitEvent \/ VisitRecursiveFork \/ VisitFork \/ VisitExternCall
  <2>1. IRNow.type \notin MasterMarks
    BY <1>3, <1>4 DEF VisitEvent, VisitRecursiveFork, VisitFork
  <2>2. PICK tasks : PreVisit(tasks)
    BY <1>4 DEF VisitEvent, VisitRecursiveFork, VisitFork, VisitExternCall
  <2>3. QED
    BY <2>1, <2>2 DEF PreVisit, MasterMarks
<1>5. QED
  BY <1>1, <1>2, <1>4 DEF Building, Staying

\* Where a region is open stays open, or not, in a frame that stays or goes on
\* behind an IR that is no mark of its thread.
LEMMA OpenStays ==
  ASSUME Inv, Building, NEW i \in 1..Len(stack), stack'[i] = stack[i], NEW k
  PROVE  OpenAt(i, k)' <=> OpenAt(i, k)
<1>1. PICK t \in Tids : t = stack[i].tid
  BY FrameBody
<1>2. program' = program /\ (MasterThread(t)' <=> MasterThread(t))
  BY BuildingStays, MasterStays
<1>3. MasterThread(stack[i].tid)' <=> MasterThread(t)'
  BY <1>1 DEF MasterThread, SpawnIR, EventAt
<1>4. Body(i)' = Body(i)
  BY <1>2 DEF Body
<1>5. QED
  BY <1>1, <1>2, <1>3, <1>4 DEF OpenAt, OpenBefore

LEMMA OpenGoesOn ==
  ASSUME Inv, Building, NEW i \in 1..Len(stack),
         stack'[i].tid = stack[i].tid, stack'[i].fn = stack[i].fn,
         stack'[i].pos = stack[i].pos + 1, NEW k
  PROVE  /\ OpenAt(i, k)' <=> /\ MasterThread(stack[i].tid)
                              /\ OpenBefore(Body(i), k, stack[i].pos + 1)
         /\ ~MasterThread(stack[i].tid) \/ Body(i)[stack[i].pos].type \notin MasterMarks =>
              (OpenAt(i, k)' <=> OpenAt(i, k))
<1>1. PICK t \in Tids : t = stack[i].tid
  BY FrameBody
<1>2. program' = program /\ (MasterThread(t)' <=> MasterThread(t))
  BY BuildingStays, MasterStays
<1>3. MasterThread(stack[i].tid)' <=> MasterThread(t)'
  BY <1>1 DEF MasterThread, SpawnIR, EventAt
<1>4. Body(i)' = Body(i)
  BY <1>2 DEF Body
<1>5. OpenAt(i, k)' <=> MasterThread(t) /\ OpenBefore(Body(i), k, stack[i].pos + 1)
  BY <1>2, <1>3, <1>4 DEF OpenAt, OpenBefore
<1>6. Body(i)[stack[i].pos].type \notin MasterMarks =>
        (OpenBefore(Body(i), k, stack[i].pos + 1) <=> OpenBefore(Body(i), k, stack[i].pos))
  BY FrameBody, OpenStep
<1>7. QED
  BY <1>1, <1>5, <1>6 DEF OpenAt

\* A region is open in the same frames after a step that is no mark of a master.
LEMMA OpenKept ==
  ASSUME Inv, FrameLinks, Building, MasterThread(Tid) => ~Skips(Tid),
         ~(VisitExternCall /\ IRNow.type \in MasterMarks /\ MasterThread(Tid)), NEW k
  PROVE  /\ \A i \in 1..Len(stack') : OpenAt(i, k)' => i \in 1..Len(stack) /\ OpenAt(i, k)
         /\ \A i \in 1..Len(stack) : OpenAt(i, k) => i \in 1..Len(stack') /\ OpenAt(i, k)'
<1>1. /\ Len(stack) \in 1..Len(stack) /\ Len(stack) \in Nat /\ status = "building"
      /\ IRNow = Body(Len(stack))[stack[Len(stack)].pos] /\ Tid = stack[Len(stack)].tid
  BY StackMoves, Numbers, BuildingStays DEF Tid, Top
<1>2. ASSUME NEW n \in 1..Len(stack), GoesOn(n),
             ~MasterThread(stack[n].tid) \/ Body(n)[stack[n].pos].type \notin MasterMarks,
             NEW i \in 1..n
      PROVE  OpenAt(i, k)' <=> OpenAt(i, k)
  <2>1. i \in 1..Len(stack) /\ n \in 1..n
    OBVIOUS
  <2>2. CASE i = n
    BY <1>2, <2>1, <2>2, OpenGoesOn DEF GoesOn
  <2>3. CASE i # n
    BY <1>2, <2>1, <2>3, OpenStays DEF GoesOn
  <2>4. QED
    BY <2>2, <2>3
<1>3. CASE Staying
  <2>1. ~MasterThread(Tid) \/ IRNow.type \notin MasterMarks
    <3>1. SUFFICES ASSUME MasterThread(Tid), IRNow.type \in MasterMarks PROVE FALSE
      OBVIOUS
    <3>2. SkipToTarget \/ SkipMasterRegion
      BY <1>3, <3>1, MarkStep DEF RegionMarks
    <3>3. ~SkipToTarget
      BY <3>1 DEF SkipToTarget, Skipping, Skips, Thread
    <3>4. ~SkipMasterRegion
      BY <1>1, <3>1, RunningMaster DEF SkipMasterRegion, SkippedMaster
    <3>5. QED
      BY <3>2, <3>3, <3>4
  <2>2. GoesOn(Len(stack)) /\ Len(stack') = Len(stack)
    BY <1>3, StackMoves DEF Building, GoesOn
  <2>3. \A i \in 1..Len(stack) : OpenAt(i, k)' <=> OpenAt(i, k)
    BY <1>1, <1>2, <2>1, <2>2
  <2>4. QED
    BY <2>2, <2>3
<1>4. CASE VisitCall \/ VisitFork
  <2>1. /\ Len(stack') = Len(stack) + 1 /\ stack'[Len(stack) + 1].pos = 1
        /\ \A i \in 1..Len(stack) : stack'[i] = stack[i]
    BY <1>4, StackMoves DEF Building
  <2>2. \A i \in 1..Len(stack) : OpenAt(i, k)' <=> OpenAt(i, k)
    BY <2>1, OpenStays
  <2>3. PICK m \in Nat : m = Len(stack) + 1 /\ m = Len(stack') /\ stack'[m].pos = 1
    BY <1>1, <2>1
  <2>4. ~OpenAt(m, k)'
    BY <2>3 DEF OpenAt, OpenBefore
  <2>5. /\ \A i \in 1..Len(stack') : i \in 1..Len(stack) \/ i = m
        /\ \A i \in 1..Len(stack) : i \in 1..Len(stack')
    BY <1>1, <2>3
  <2>6. \A i \in 1..Len(stack') : OpenAt(i, k)' => i \in 1..Len(stack) /\ OpenAt(i, k)
    BY <2>2, <2>4, <2>5
  <2>7. QED
    BY <2>2, <2>5, <2>6
<1>5. CASE ReturnFromCall \/ ReturnFromThread
  <2>1. PICK n \in 1..Len(stack) : n = Len(stack) - 1
    BY <1>5, StackMoves DEF Building
  <2>2. Ended /\ GoesOn(n) /\ Len(stack') = n /\ n # Len(stack)
    BY <1>1, <1>5, <2>1, StackMoves DEF Building, GoesOn
  <2>3. Body(n)[stack[n].pos].type \notin MasterMarks
    BY <2>2, WaitsAtNoMark DEF RegionMarks
  <2>4. \A i \in 1..n : OpenAt(i, k)' <=> OpenAt(i, k)
    BY <1>2, <2>2, <2>3
  <2>5. ~OpenAt(Len(stack), k)
    BY <1>1, <2>2, NoneOpenBehind DEF Ended, Top, Body
  <2>6. \A i \in 1..Len(stack) : i \in 1..n \/ i = Len(stack)
    BY <1>1, <2>1
  <2>7. QED
    BY <2>2, <2>4, <2>5, <2>6
<1>6. QED
  BY <1>3, <1>4, <1>5 DEF Building

\* An open region has a mark as its start, which is no null instruction.
LEMMA OpenStart ==
  ASSUME Inv, NEW i \in 1..Len(stack), NEW k, OpenAt(i, k)
  PROVE  k \in 1..Len(Body(i)) /\ Body(i)[k].inst # NoInst /\ Inside(i)
<1>1. k \in 1..(stack[i].pos - 1) /\ Body(i)[k].type = "OpenMPMasterStart"
  BY DEF OpenAt, OpenBefore
<1>2. k \in 1..Len(Body(i)) /\ k \in Nat
  BY <1>1, FrameBody DEF Positions
<1>3. Body(i)[k].inst # NoInst
  BY <1>1, <1>2, MarksAreCalls DEF RegionMarks, MasterMarks
<1>4. QED
  BY <1>2, <1>3 DEF Inside

\* The master regions after a step that opens and closes none.
LEMMA MasterKept ==
  ASSUME Inv, MasterInv, UNCHANGED <<program, masterRegions, currentMasterStart>>,
         \A i \in 1..Len(stack') : \A k : OpenAt(i, k)' =>
           i \in 1..Len(stack) /\ OpenAt(i, k) /\ stack'[i].fn = stack[i].fn,
         \A i \in 1..Len(stack) : \A k : OpenAt(i, k) => i \in 1..Len(stack') /\ OpenAt(i, k)'
  PROVE  MasterInv'
<1>1. ASSUME NEW i \in 1..Len(stack'), NEW k, OpenAt(i, k)'
      PROVE  currentMasterStart' = Body(i)'[k].inst
  <2>1. i \in 1..Len(stack) /\ OpenAt(i, k) /\ Body(i)' = Body(i)
    BY <1>1 DEF Body
  <2>2. QED
    BY <2>1 DEF MasterInv
<1>2. \A i \in 1..Len(stack') : Inside(i)' => i \in 1..Len(stack) /\ Inside(i)
  BY DEF Inside
<1>3. \A i \in 1..Len(stack) : Inside(i) => i \in 1..Len(stack') /\ Inside(i)'
  BY DEF Inside
<1>4. RegionsClose'
  BY DEF MasterInv, RegionsClose, Closes
<1>5. \A i, j \in 1..Len(stack') : Inside(i)' /\ Inside(j)' => i = j
  BY <1>2 DEF MasterInv
<1>6. currentMasterStart' # NoInst => \E i \in 1..Len(stack') : Inside(i)'
  BY <1>3 DEF MasterInv
<1>7. QED
  BY <1>1, <1>4, <1>5, <1>6 DEF MasterInv

\* The master enters a region: none is open.
LEMMA MasterEnters ==
  ASSUME Inv, MasterInv, VisitExternCall, MasterThread(Tid), IRNow.type = "OpenMPMasterStart"
  PROVE  MasterInv'
<1>1. /\ Building /\ Len(stack) \in 1..Len(stack) /\ status = "building"
      /\ IRNow = Body(Len(stack))[stack[Len(stack)].pos] /\ Tid = stack[Len(stack)].tid
      /\ GoesOn(Len(stack)) /\ Len(stack') = Len(stack) /\ program' = program
  BY StackMoves, BuildingStays DEF Building, Staying, Tid, Top, GoesOn
<1>2. currentMasterStart = NoInst
  BY <1>1, RunningMaster DEF VisitExternCall, Visited, MasterMismatch
<1>3. currentMasterStart' = IRNow.inst /\ masterRegions' = masterRegions
  BY DEF VisitExternCall, PreVisit
<1>4. PICK n \in 1..Len(stack) : n = Len(stack)
  BY <1>1
<1>5. PICK pos \in Positions : pos = stack[n].pos
  BY FrameBody
<1>6. \A i \in 1..Len(stack) : \A k : ~OpenAt(i, k)
  BY <1>2, OpenStart DEF MasterInv
<1>7. \A k : OpenAt(n, k)' <=> k = pos
  <2>1. \A k : OpenBefore(Body(n), k, pos + 1) <=> k = pos
    BY <1>1, <1>4, <1>5, OpenStep
  <2>2. /\ stack'[n].tid = stack[n].tid /\ stack'[n].fn = stack[n].fn
        /\ stack'[n].pos = stack[n].pos + 1
    BY <1>1, <1>4 DEF GoesOn
  <2>3. \A k : OpenAt(n, k)' <=> MasterThread(stack[n].tid) /\ OpenBefore(Body(n), k, pos + 1)
    BY <1>1, <1>5, <2>2, OpenGoesOn
  <2>4. QED
    BY <1>1, <1>4, <2>1, <2>3
<1>8. \A i \in 1..Len(stack') : \A k : i # n => ~OpenAt(i, k)'
  BY <1>1, <1>4, <1>6, OpenStays DEF GoesOn
<1>9. Body(n)'[pos].inst = IRNow.inst
  BY <1>1, <1>4, <1>5 DEF Body, GoesOn
<1>10. Inside(n)' /\ \A i \in 1..Len(stack') : Inside(i)' => i = n
  BY <1>7, <1>8 DEF Inside, Positions
<1>11. RegionsClose'
  BY <1>1, <1>3 DEF MasterInv, RegionsClose, Closes
<1>12. \A i \in 1..Len(stack') : \A k : OpenAt(i, k)' => currentMasterStart' = Body(i)'[k].inst
  BY <1>3, <1>7, <1>8, <1>9
<1>13. \A i, j \in 1..Len(stack') : Inside(i)' /\ Inside(j)' => i = j
  BY <1>10
<1>14. \E i \in 1..Len(stack') : Inside(i)'
  BY <1>1, <1>4, <1>10
<1>15. QED
  BY <1>11, <1>12, <1>13, <1>14 DEF MasterInv

\* The master leaves the region that is open.
LEMMA MasterLeaves ==
  ASSUME Inv, MasterInv, VisitExternCall, MasterThread(Tid), IRNow.type = "OpenMPMasterEnd"
  PROVE  MasterInv'
<1>1. /\ Building /\ Len(stack) \in 1..Len(stack) /\ status = "building"
      /\ IRNow = Body(Len(stack))[stack[Len(stack)].pos] /\ Tid = stack[Len(stack)].tid
      /\ GoesOn(Len(stack)) /\ Len(stack') = Len(stack) /\ program' = program /\ HasIR
  BY StackMoves, BuildingStays DEF Building, Staying, Tid, Top, GoesOn
<1>2. /\ masterRegions' \subseteq masterRegions \cup {<<currentMasterStart, IRNow.inst>>}
      /\ currentMasterStart' = NoInst
  BY <1>1, RunningMaster DEF VisitExternCall, PreVisit
<1>3. PICK n \in 1..Len(stack) : n = Len(stack)
  BY <1>1
<1>4. PICK pos \in Positions : pos = stack[n].pos
  BY FrameBody
<1>5. PICK fn \in DOMAIN program.body : fn = stack[n].fn /\ Body(n) = program.body[fn]
  BY FrameBody DEF Body
<1>6. /\ pos \in DOMAIN Body(n) /\ DOMAIN Body(n) \subseteq Positions /\ NestsRegions(program)
  <2>1. pos <= Len(Body(n))
    BY <1>1, <1>3, <1>4 DEF HasIR, Top, Body
  <2>2. QED
    BY <1>4, <2>1, FrameBody, StructureAssumption DEF Positions
<1>7. PICK s \in DOMAIN Body(n) : Closes(Body(n), s, pos)
  BY <1>1, <1>3, <1>4, <1>5, <1>6 DEF NestsRegions
<1>8. OpenAt(n, s) /\ Inside(n)
  <2>1. OpenBefore(Body(n), s, pos)
    BY <1>6, <1>7, ClosedOpen
  <2>2. QED
    BY <1>1, <1>3, <1>4, <1>6, <2>1 DEF OpenAt, Inside, Positions
<1>9. currentMasterStart = Body(n)[s].inst
  BY <1>8 DEF MasterInv
<1>10. ASSUME NEW i \in 1..Len(stack), NEW k PROVE ~OpenAt(i, k)'
  <2>1. CASE i = n
    <3>1. ~OpenBefore(Body(n), k, pos + 1)
      BY <1>1, <1>3, <1>4, OpenStep
    <3>2. QED
      BY <1>1, <1>3, <1>4, <2>1, <3>1, OpenGoesOn DEF GoesOn
  <2>2. CASE i # n
    <3>1. ~OpenAt(i, k)
      BY <1>8, <2>2, OpenStart DEF MasterInv
    <3>2. QED
      BY <1>1, <1>3, <2>2, <3>1, OpenStays DEF GoesOn
  <2>3. QED
    BY <2>1, <2>2
<1>11. \A i \in 1..Len(stack') : ~Inside(i)'
  BY <1>1, <1>10 DEF Inside
<1>12. RegionsClose'
  <2>1. SUFFICES ASSUME NEW r \in masterRegions'
                 PROVE  \E f \in DOMAIN program.body : \E k, e \in DOMAIN program.body[f] :
                          /\ Closes(program.body[f], k, e)
                          /\ r = <<program.body[f][k].inst, program.body[f][e].inst>>
    BY <1>1 DEF RegionsClose, Closes
  <2>2. CASE r \in masterRegions
    BY <2>2 DEF MasterInv, RegionsClose
  <2>3. CASE r = <<currentMasterStart, IRNow.inst>>
    BY <1>1, <1>3, <1>4, <1>5, <1>6, <1>7, <1>9, <2>3
  <2>4. QED
    BY <1>2, <2>2, <2>3
<1>13. QED
  BY <1>1, <1>2, <1>10, <1>11, <1>12 DEF MasterInv

\* What ends the trace, or lists the threads, leaves the runtime model alone.
LEMMA OtherRuntime ==
  ASSUME Inv, [Next]_vars, ~Building
  PROVE  /\ UNCHANGED runtimeVars /\ UNCHANGED <<threads, program>>
         /\ \/ stack' = stack
            \/ Ended /\ Len(stack) = 1 /\ stack' = <<>> /\ Len(stack') = 0
<1>1. UNCHANGED <<threads, program>>
  BY OtherTasks
<1>2. ReturnFromMain \/ Flatten \/ Finish \/ Abort \/ UNCHANGED vars
  BY OtherSteps
<1>3. QED
  BY <1>1, <1>2 DEF ReturnFromMain, Flatten, Finish, Abort, vars, runtimeVars

\* Every step keeps the master regions.
LEMMA MasterNext ==
  ASSUME Inv, FrameLinks, MasterInv, status = "building" /\ MasterThread(Tid) => ~Skips(Tid),
         [Next]_vars
  PROVE  MasterInv'
<1>1. CASE Building
  <2>1. status = "building" /\ program' = program
    BY <1>1, BuildingStays
  <2>2. CASE VisitExternCall /\ IRNow.type \in MasterMarks /\ MasterThread(Tid)
    BY <2>2, MasterEnters, MasterLeaves DEF MasterMarks
  <2>3. CASE ~(VisitExternCall /\ IRNow.type \in MasterMarks /\ MasterThread(Tid))
    <3>1. UNCHANGED <<masterRegions, currentMasterStart>>
      <4>1. CASE ~VisitExternCall \/ IRNow.type \notin MasterMarks
        BY <1>1, <4>1, NoMarkStep
      <4>2. CASE VisitExternCall /\ IRNow.type \in MasterMarks
        <5>1. ~IsOpenMPMasterThread
          BY <2>1, <2>3, <4>2, RunningMaster
        <5>2. IRNow.type # "OpenMPMasterStart"
          BY <4>2, <5>1 DEF VisitExternCall, Visited, SkippedMaster
        <5>3. QED
          BY <4>2, <5>1, <5>2 DEF VisitExternCall, PreVisit
      <4>3. QED
        BY <4>1, <4>2
    <3>2. ASSUME NEW k
          PROVE  /\ \A i \in 1..Len(stack') : OpenAt(i, k)' => i \in 1..Len(stack) /\ OpenAt(i, k)
                 /\ \A i \in 1..Len(stack) : OpenAt(i, k) => i \in 1..Len(stack') /\ OpenAt(i, k)'
      BY <1>1, <2>1, <2>3, OpenKept
    <3>3. \A i \in 1..Len(stack') : i \in 1..Len(stack) => stack'[i].fn = stack[i].fn
      <4>1. CASE VisitCall \/ VisitFork
        BY <1>1, <4>1, StackMoves
      <4>2. CASE ~(VisitCall \/ VisitFork)
        <5>1. PICK n \in 1..Len(stack) : GoesOn(n)
          BY <1>1, <4>2, StackMoves DEF Building
        <5>2. QED
          BY <5>1 DEF GoesOn
      <4>3. QED
        BY <4>1, <4>2
    <3>4. QED
      BY <2>1, <3>1, <3>2, <3>3, MasterKept
  <2>4. QED
    BY <2>2, <2>3
<1>2. CASE ~Building
  <2>1. /\ UNCHANGED <<threads, program, masterRegions, currentMasterStart>>
        /\ \/ stack' = stack
           \/ Ended /\ Len(stack) = 1 /\ stack' = <<>> /\ Len(stack') = 0
    BY <1>2, OtherRuntime DEF runtimeVars
  <2>2. CASE stack' = stack
    <3>1. \A i, k : OpenAt(i, k)' <=> OpenAt(i, k)
      BY <2>1, <2>2 DEF OpenAt, OpenBefore, MasterThread, SpawnIR, EventAt, Body
    <3>2. QED
      BY <2>1, <2>2, <3>1, MasterKept
  <2>3. CASE Ended /\ Len(stack) = 1 /\ stack' = <<>> /\ Len(stack') = 0
    <3>1. \A i \in 1..Len(stack) : \A k : ~OpenAt(i, k)
      BY <2>3, NoneOpenBehind DEF Ended, Top, Body
    <3>2. \A i \in 1..Len(stack') : FALSE
      BY <2>3
    <3>3. QED
      BY <2>1, <3>1, <3>2, MasterKept
  <2>4. QED
    BY <2>1, <2>2, <2>3
<1>3. QED
  BY <1>1, <1>2

(***************************************************************************)
(* Skipping.  Only a thread that is not the master skips, the one that     *)
(* runs, and what it skips to is an end of a master region that is still   *)
(* ahead of it in the function it runs.                                    *)
(***************************************************************************)
SkipsTo(i, e) ==
  /\ e \in stack[i].pos..Len(Body(i)) /\ Body(i)[e].type = "OpenMPMasterEnd"
  /\ Body(i)[e].inst = threads[stack[i].tid].skipUntil

SkipInv ==
  \A t \in Tids : Skips(t) =>
    /\ stack # <<>> /\ t = Tid /\ ~MasterThread(t)
    /\ \E e \in Nat : SkipsTo(Len(stack), e)

\* The thread that skips goes on to the end of the region, and stops there.
LEMMA SkipStep ==
  ASSUME Inv, SkipInv, status = "building", Skips(Tid)
  PROVE  /\ HasIR /\ ~MasterThread(Tid)
         /\ \A e : SkipsTo(Len(stack), e) =>
              (e = stack[Len(stack)].pos <=> IRNow.inst = Thread.skipUntil)
         /\ Building =>
              \/ SkipToTarget /\ IRNow.inst # Thread.skipUntil
              \/ /\ VisitExternCall /\ IRNow.inst = Thread.skipUntil
                 /\ IRNow.type = "OpenMPMasterEnd"
<1>1. PICK n \in 1..Len(stack) : n = Len(stack)
  BY TopTyped DEF Inv, Positions
<1>2. /\ Tid = stack[n].tid /\ Thread = threads[Tid] /\ Tid \in Tids
      /\ IRNow = Body(n)[stack[n].pos] /\ Top = stack[n]
  BY <1>1, TopTyped DEF Inv, Tid, Top, Thread, IRNow, IRAt, Body
<1>3. PICK e : SkipsTo(n, e)
  BY <1>1, <1>2 DEF SkipInv
<1>4. HasIR /\ stack[n].pos \in 1..Len(Body(n))
  <2>1. stack[n].pos <= Len(Body(n)) /\ stack[n].pos >= 1
    BY <1>3, FrameBody DEF SkipsTo, Positions
  <2>2. QED
    BY <1>2, <2>1, FrameBody DEF HasIR, Body, Positions
<1>5. ASSUME NEW x, SkipsTo(n, x)
      PROVE  x = stack[n].pos <=> IRNow.inst = Thread.skipUntil
  <2>1. x \in 1..Len(Body(n)) /\ Body(n)[x].type \in RegionMarks
        /\ Body(n)[x].inst = Thread.skipUntil
    BY <1>2, <1>4, <1>5, FrameBody DEF SkipsTo, RegionMarks, MasterMarks
  <2>2. ASSUME IRNow.inst = Body(n)[x].inst PROVE stack[n].pos = x
    <3>1. PICK l \in DOMAIN Body(n) : l = stack[n].pos /\ Body(n)[l] = IRNow
      BY <1>2, <1>4, FrameBody
    <3>2. stack[n].fn \in DOMAIN program.body /\ Body(n) = program.body[stack[n].fn]
      BY FrameBody DEF Body
    <3>3. QED
      BY <2>1, <2>2, <3>1, <3>2, MarksAreCalls
  <2>3. QED
    BY <1>2, <2>1, <2>2
<1>6. ASSUME Building, ~SkipToTarget
      PROVE  /\ VisitExternCall /\ IRNow.inst = Thread.skipUntil
             /\ IRNow.type = "OpenMPMasterEnd"
  <2>1. ~Ended
    BY <1>2, <1>4, FrameBody DEF Ended, HasIR, Body, Positions
  <2>2. ~Skipping /\ (Staying \/ VisitCall \/ VisitFork)
    BY <1>6, <2>1 DEF Building, Staying, SkipToTarget, SkipSerial, SkipInTeams, SkipTask,
       SkipMasterRegion, VisitEvent, VisitUnresolvedCall, VisitExternCall,
       VisitRecursiveCall, VisitCall, VisitFork, VisitRecursiveFork, Visited, Unskipped,
       Reached, ReturnFromCall, ReturnFromThread
  <2>3. IRNow.inst = Thread.skipUntil
    BY <1>2, <2>2 DEF Skipping, Skips
  <2>4. IRNow.type = "OpenMPMasterEnd"
    BY <1>2, <1>3, <1>5, <2>3 DEF SkipsTo
  <2>5. VisitExternCall
    BY <1>6, <2>2, <2>4, MarkStep DEF RegionMarks, MasterMarks, SkipMasterRegion, SkippedMaster
  <2>6. QED
    BY <2>3, <2>4, <2>5
<1>7. ~MasterThread(Tid)
  BY <1>2 DEF SkipInv
<1>8. SkipToTarget => IRNow.inst # Thread.skipUntil
  BY DEF SkipToTarget, Skipping
<1>9. QED
  BY <1>1, <1>4, <1>5, <1>6, <1>7, <1>8

\* A thread that is started does not skip.
LEMMA NewThreadSkipsNot ==
  ASSUME Inv, Building, NEW u \in Tids', u \notin Tids
  PROVE  ~Skips(u)'
<1>1. status = "building" /\ Len(threads) \in Nat /\ threads \in Seq(ThreadRecords)
  BY BuildingStays, Numbers DEF Inv, Typed, Positions
<1>2. Len(threads') # Len(threads)
  BY DEF Tids
<1>3. VisitFork
  <2>1. ~Staying
    BY <1>2, StayingAdvances DEF Advances
  <2>2. ~VisitCall
    BY <1>2, VisitCallCalls DEF Calls
  <2>3. ~ReturnFromCall /\ ~ReturnFromThread
    BY <1>2, ReturnFromCallReturns, ReturnFromThreadReturns
       DEF ReturnsToCall, ReturnsToFork, Returns
  <2>4. QED
    BY <2>1, <2>2, <2>3 DEF Building
<1>4. PICK evs, site, entry, ctx : threads' = Append(Emit(evs), NewThread(site, entry, ctx))
  BY <1>3 DEF VisitFork
<1>5. PICK emitted, new : emitted = Emit(evs) /\ new = NewThread(site, entry, ctx)
  OBVIOUS
<1>6. PICK S : Len(emitted) = Len(threads) /\ emitted \in Seq(S) /\ new \in S
  <2>1. PICK R : Len(emitted) = Len(threads) /\ emitted \in Seq(R)
    BY <1>1, <1>5, EmitSkips
  <2>2. emitted \in Seq(R \cup {new}) /\ new \in R \cup {new}
    BY <2>1
  <2>3. QED
    BY <2>1, <2>2
<1>7. threads' = Append(emitted, new)
  BY <1>4, <1>5
<1>8. Len(threads') = Len(threads) + 1 /\ threads'[Len(threads) + 1] = new
  BY <1>6, <1>7
<1>9. u = Len(threads) + 1
  BY <1>1, <1>8 DEF Tids
<1>10. QED
  BY <1>5, <1>8, <1>9 DEF Skips, NewThread

\* What is skipped of a master region is all of it.
LEMMA SkipsRegion ==
  ASSUME Inv, MasterInv, SkipMasterRegion
  PROVE  \E e : /\ Closes(Body(Len(stack)), stack[Len(stack)].pos, e)
                /\ Tid \in Tids /\ ~MasterThread(Tid)
                /\ \A u \in Tids : threads'[u].skipUntil =
                     IF u = Tid THEN Body(Len(stack))[e].inst ELSE threads[u].skipUntil
<1>1. /\ Building /\ status = "building" /\ Len(stack) \in 1..Len(stack) /\ HasIR
      /\ IRNow = Body(Len(stack))[stack[Len(stack)].pos]
  BY StackMoves, BuildingStays DEF Building, Staying
<1>2. /\ Tid \in Tids /\ threads \in Seq(ThreadRecords) /\ DOMAIN threads = Tids
      /\ \A u \in Tids : threads[u] \in ThreadRecords
  BY <1>1, TopTyped DEF Inv, Typed, Tids
<1>3. PICK n \in 1..Len(stack) : n = Len(stack)
  BY <1>1
<1>4. PICK pos \in 1..Len(Body(n)) : pos = stack[n].pos
  <2>1. stack[n].pos \in 1..Len(Body(n))
    BY <1>1, <1>3, FrameBody DEF HasIR, Top, Body, Positions
  <2>2. QED
    BY <2>1
<1>5. IRNow.type = "OpenMPMasterStart" /\ ~MasterThread(Tid)
  BY <1>1, RunningMaster DEF SkipMasterRegion, SkippedMaster
<1>6. PICK region \in masterRegions :
        /\ region[1] = IRNow.inst
        /\ threads' = [threads EXCEPT ![Tid].skipUntil = region[2]]
  BY DEF SkipMasterRegion
<1>7. PICK fn \in DOMAIN program.body : \E k, e \in DOMAIN program.body[fn] :
        /\ Closes(program.body[fn], k, e)
        /\ region = <<program.body[fn][k].inst, program.body[fn][e].inst>>
  BY <1>6 DEF MasterInv, RegionsClose
<1>8. PICK k \in DOMAIN program.body[fn], e \in DOMAIN program.body[fn] :
        /\ Closes(program.body[fn], k, e)
        /\ region = <<program.body[fn][k].inst, program.body[fn][e].inst>>
  BY <1>7
<1>9. fn = stack[n].fn /\ k = pos
  <2>1. Body(n)[pos].type \in RegionMarks
    BY <1>1, <1>3, <1>4, <1>5 DEF RegionMarks, MasterMarks
  <2>2. program.body[fn][k].inst = Body(n)[pos].inst
    BY <1>1, <1>3, <1>4, <1>6, <1>8
  <2>3. QED
    BY <1>8, <2>1, <2>2, MarksAreCalls
<1>10. Closes(Body(n), pos, e) /\ region[2] = Body(n)[e].inst
  BY <1>8, <1>9 DEF Body
<1>11. \A u \in Tids : threads'[u].skipUntil = IF u = Tid THEN region[2] ELSE threads[u].skipUntil
  BY <1>2, <1>6 DEF ThreadRecords
<1>12. QED
  BY <1>2, <1>3, <1>4, <1>5, <1>10, <1>11

\* The event of the end of a region ends the skipping.
LEMMA VisitEndsSkip ==
  ASSUME Inv, SkipInv, VisitExternCall
  PROVE  \A u \in Tids' : ~Skips(u)'
<1>1. status = "building" /\ Building
  BY BuildingStays DEF Building, Staying
<1>2. PICK evs : threads' = Emit(evs)
  BY DEF VisitExternCall
<1>3. SUFFICES ASSUME NEW u \in Tids' PROVE ~Skips(u)'
  OBVIOUS
<1>4. CASE u \notin Tids
  BY <1>1, <1>4, NewThreadSkipsNot
<1>5. CASE u \in Tids
  <2>1. u # Tid => threads[u].skipUntil = NoInst
    BY <1>5 DEF SkipInv, Skips
  <2>2. threads'[u].skipUntil = NoInst
    BY <1>1, <1>2, <1>5, <2>1, EmitSkips
  <2>3. QED
    BY <2>2 DEF Skips
<1>6. QED
  BY <1>4, <1>5

\* Every step keeps what is skipped to.
LEMMA SkippingNext ==
  ASSUME Inv, MasterInv, SkipInv, [Next]_vars
  PROVE  SkipInv'
<1>1. CASE Building
  <2>1. PICK n \in 1..Len(stack) : n = Len(stack)
    BY <1>1, StackMoves
  <2>2. /\ status = "building" /\ Tid = stack[n].tid /\ Tid \in Tids
        /\ IRNow = Body(n)[stack[n].pos]
    BY <1>1, <2>1, BuildingStays, StackMoves, TopTyped DEF Inv, Tid, Top
  <2>3. ASSUME Staying
        PROVE  /\ Len(stack') = n /\ stack' # <<>> /\ Tid' = Tid /\ GoesOn(n)
               /\ Tids' = Tids /\ Body(n)' = Body(n)
               /\ MasterThread(Tid)' <=> MasterThread(Tid)
    <3>1. GoesOn(n) /\ program' = program
      BY <1>1, <2>1, <2>3, StackMoves
    <3>2. Len(stack') = n /\ stack' # <<>> /\ stack'[n].tid = stack[n].tid
      BY <3>1 DEF GoesOn
    <3>3. Tid' = Tid
      BY <2>1, <2>2, <3>2 DEF Tid, Top
    <3>4. Tids' = Tids
      BY <2>3, StayingAdvances DEF Advances, Tids
    <3>5. PICK t \in Tids : t = Tid
      BY <2>2
    <3>6. MasterThread(t)' <=> MasterThread(t)
      BY <1>1, MasterStays
    <3>7. MasterThread(Tid)' <=> MasterThread(t)'
      BY <3>3, <3>5 DEF MasterThread, SpawnIR, EventAt
    <3>8. QED
      BY <3>1, <3>2, <3>3, <3>4, <3>5, <3>6, <3>7 DEF Body, GoesOn
  <2>4. CASE SkipToTarget
    <3>1. Staying /\ threads' = threads /\ IRNow.inst # Thread.skipUntil
      BY <2>4 DEF Staying, SkipToTarget, Skipping
    <3>2. ASSUME NEW t \in Tids', Skips(t)'
          PROVE  /\ stack' # <<>> /\ t = Tid' /\ ~MasterThread(t)'
                 /\ \E e \in Nat : SkipsTo(Len(stack), e)'
      <4>1. t \in Tids /\ Skips(t)
        BY <2>3, <3>1, <3>2 DEF Skips
      <4>2. t = Tid /\ ~MasterThread(t)
        BY <4>1 DEF SkipInv
      <4>3. PICK e \in Nat : SkipsTo(n, e)
        BY <2>1, <4>1 DEF SkipInv
      <4>4. e # stack[n].pos
        BY <2>1, <2>2, <3>1, <4>1, <4>2, <4>3, SkipStep
      <4>5. e \in (stack[n].pos + 1)..Len(Body(n))
        BY <4>3, <4>4, FrameBody DEF SkipsTo, Positions
      <4>6. SkipsTo(n, e)'
        BY <2>3, <3>1, <4>3, <4>5 DEF SkipsTo, GoesOn
      <4>7. SkipsTo(Len(stack), e)'
        BY <2>3, <3>1, <4>6
      <4>8. QED
        BY <2>3, <3>1, <4>2, <4>7
    <3>3. QED
      BY <3>2 DEF SkipInv
  <2>5. CASE SkipMasterRegion
    <3>1. PICK e : /\ Closes(Body(n), stack[n].pos, e) /\ ~MasterThread(Tid)
                   /\ \A u \in Tids : threads'[u].skipUntil =
                        IF u = Tid THEN Body(n)[e].inst ELSE threads[u].skipUntil
      BY <2>1, <2>5, SkipsRegion
    <3>2. Staying
      BY <2>5 DEF Staying
    <3>3. ASSUME NEW t \in Tids', Skips(t)'
          PROVE  /\ stack' # <<>> /\ t = Tid' /\ ~MasterThread(t)'
                 /\ \E x \in Nat : SkipsTo(Len(stack), x)'
      <4>1. t \in Tids
        BY <2>3, <3>2, <3>3
      <4>2. t = Tid
        <5>1. t # Tid => ~Skips(t)
          BY <4>1 DEF SkipInv
        <5>2. t # Tid => threads'[t].skipUntil = NoInst
          BY <3>1, <4>1, <5>1 DEF Skips
        <5>3. QED
          BY <3>3, <5>2 DEF Skips
      <4>3. e \in (stack[n].pos + 1)..Len(Body(n)) /\ e \in Nat
        BY <3>1, FrameBody DEF Closes, Positions
      <4>4. threads'[stack'[n].tid].skipUntil = Body(n)[e].inst
        BY <2>2, <2>3, <3>1, <3>2, <4>1, <4>2 DEF GoesOn
      <4>5. SkipsTo(n, e)'
        BY <2>3, <3>1, <3>2, <4>3, <4>4 DEF SkipsTo, GoesOn, Closes
      <4>6. SkipsTo(Len(stack), e)'
        BY <2>3, <3>2, <4>5
      <4>7. QED
        BY <2>3, <3>1, <3>2, <4>2, <4>3, <4>6
    <3>4. QED
      BY <3>3 DEF SkipInv
  <2>6. CASE ~SkipToTarget /\ ~SkipMasterRegion
    <3>1. CASE Skips(Tid)
      <4>1. VisitExternCall
        BY <1>1, <2>2, <2>6, <3>1, SkipStep
      <4>2. QED
        BY <4>1, VisitEndsSkip DEF SkipInv
    <3>2. CASE ~Skips(Tid)
      <4>1. \A u \in Tids : ~Skips(u)
        BY <3>2 DEF SkipInv
      <4>2. \A u \in Tids' : ~Skips(u)'
        BY <1>1, <2>6, <4>1, SkipsNext, NewThreadSkipsNot
      <4>3. QED
        BY <4>2 DEF SkipInv
    <3>3. QED
      BY <3>1, <3>2
  <2>7. QED
    BY <2>4, <2>5, <2>6
<1>2. CASE ~Building
  <2>1. /\ UNCHANGED <<threads, program>>
        /\ \/ stack' = stack
           \/ Ended /\ Len(stack) = 1 /\ stack' = <<>> /\ Len(stack') = 0
    BY <1>2, OtherRuntime
  <2>2. CASE stack' = stack
    BY <2>1, <2>2 DEF SkipInv, Tids, Skips, Tid, Top, MasterThread, SpawnIR, EventAt, SkipsTo, Body
  <2>3. CASE Ended
    <3>1. ASSUME NEW t \in Tids, Skips(t) PROVE FALSE
      <4>1. t = Tid /\ status = "building"
        BY <2>3, <3>1 DEF SkipInv, Ended
      <4>2. HasIR
        BY <3>1, <4>1, SkipStep
      <4>3. Top.pos \in Nat /\ Len(program.body[Top.fn]) \in Nat
        BY <4>1, TopTyped DEF Inv, FrameRecords, Positions
      <4>4. QED
        BY <2>3, <4>2, <4>3 DEF HasIR, Ended
    <3>2. \A t \in Tids' : ~Skips(t)'
      BY <2>1, <3>1 DEF Tids, Skips
    <3>3. QED
      BY <3>2 DEF SkipInv
  <2>4. QED
    BY <2>1, <2>2, <2>3
<1>3. QED
  BY <1>1, <1>2

(***************************************************************************)
(* The single region.  Some frame has its end ahead, and reaches it: what  *)
(* starts in between and is skipped, a master region, ends in between too. *)
(***************************************************************************)
\* The IR a frame goes on with: the one it is at, or the target of the skip.
Reaches(i, e) ==
  IF i = Len(stack) /\ Skips(Tid) THEN SkipsTo(i, e) ELSE e = stack[i].pos

EndsSingle(i, e, j) ==
  /\ j \in 1..Len(Body(i)) /\ Body(i)[j].type = "OpenMPSingleEnd"
  /\ e \in stack[i].pos..j /\ Reaches(i, e)
  /\ ClosesWithin(Body(i), e, j)

SingleInv ==
  inSingleRegion => \E i \in 1..Len(stack) : \E e, j \in Nat : EndsSingle(i, e, j)

\* What closes in a range closes in the rest of it.
LEMMA ClosesInRest ==
  ASSUME NEW body, NEW e \in Nat, NEW f \in Nat, NEW j \in Nat, e <= f,
         ClosesWithin(body, e, j)
  PROVE  ClosesWithin(body, f, j)
<1>1. \A m \in f..j : m \in e..j
  OBVIOUS
<1>2. QED
  BY <1>1 DEF ClosesWithin

\* A frame that goes on, in a thread that does not skip then, has the end
\* ahead still if it was not at it.
LEMMA EndAhead ==
  ASSUME Inv, Building, NEW i \in 1..Len(stack), NEW e, NEW j, EndsSingle(i, e, j),
         e = stack[i].pos, j # stack[i].pos, ~Skips(Tid)',
         stack'[i].pos = stack[i].pos + 1, stack'[i].fn = stack[i].fn
  PROVE  EndsSingle(i, e + 1, j)'
<1>1. program' = program /\ Body(i)' = Body(i)
  BY BuildingStays DEF Body
<1>2. /\ j \in 1..Len(Body(i)) /\ Body(i)[j].type = "OpenMPSingleEnd" /\ j \in Nat
      /\ e \in Nat /\ e + 1 \in (e + 1)..j
  BY FrameBody DEF EndsSingle, Positions
<1>3. ClosesWithin(Body(i), e + 1, j)
  <2>1. e + 1 \in Nat /\ e <= e + 1 /\ ClosesWithin(Body(i), e, j)
    BY <1>2 DEF EndsSingle
  <2>2. QED
    BY <1>2, <2>1, ClosesInRest
<1>4. Reaches(i, e + 1)'
  BY DEF Reaches
<1>5. ClosesWithin(Body(i), e + 1, j)' <=> ClosesWithin(Body(i), e + 1, j)
  BY <1>1 DEF ClosesWithin, Closes
<1>6. e + 1 \in stack'[i].pos..j
  BY <1>2
<1>7. j \in 1..Len(Body(i)') /\ Body(i)'[j].type = "OpenMPSingleEnd"
  BY <1>1, <1>2
<1>8. QED
  BY <1>3, <1>4, <1>5, <1>6, <1>7 DEF EndsSingle

\* Only its marks enter and leave the single region.
LEMMA SingleStep ==
  ASSUME Inv, Building,
         ~VisitExternCall \/ IRNow.type \notin {"OpenMPSingleStart", "OpenMPSingleEnd"}
  PROVE  inSingleRegion' <=> inSingleRegion
<1>1. CASE SkipToTarget \/ SkipSerial \/ SkipInTeams \/ SkipTask \/ SkipMasterRegion
           \/ VisitUnresolvedCall \/ VisitRecursiveCall \/ VisitCall \/ ReturnFromCall
  BY <1>1 DEF SkipToTarget, SkipSerial, SkipInTeams, SkipTask, SkipMasterRegion,
     VisitUnresolvedCall, VisitRecursiveCall, VisitCall, ReturnFromCall, Pass, runtimeVars
<1>2. CASE ReturnFromThread
  BY <1>2 DEF ReturnFromThread
<1>3. IRNow.type \in {"OpenMPSingleStart", "OpenMPSingleEnd"} => Kind(IRNow) = "Call"
  BY DEF Kind, ForkTypes, JoinTypes, LockTypes, UnlockTypes
<1>4. CASE VisitEvent \/ VisitRecursiveFork \/ VisitFork \/ VisitExternCall
  <2>1. IRNow.type \notin {"OpenMPSingleStart", "OpenMPSingleEnd"}
    BY <1>3, <1>4 DEF VisitEvent, VisitRecursiveFork, VisitFork
  <2>2. PICK tasks : PreVisit(tasks)
    BY <1>4 DEF VisitEvent, VisitRecursiveFork, VisitFork, VisitExternCall
  <2>3. inSingleRegion' = (inSingleRegion /\ IRNow.type # "OpenMPSingleEnd")
    BY <2>1, <2>2 DEF PreVisit
  <2>4. QED
    BY <2>1, <2>3
<1>5. QED
  BY <1>1, <1>2, <1>4 DEF Building, Staying

\* Where no thread skips after a step, the running one does not.
LEMMA NoneSkips ==
  ASSUME Inv', stack' # <<>>, \A u \in Tids' : ~Skips(u)'
  PROVE  ~Skips(Tid)'
<1>1. stack' \in Seq(FrameRecords) /\ Len(stack') \in 1..Len(stack')
  BY DEF Inv, Typed
<1>2. stack'[Len(stack')].tid \in Tids'
  BY <1>1 DEF Inv, StackInv
<1>3. Tid' \in Tids'
  BY <1>2 DEF Tid, Top
<1>4. QED
  BY <1>3

\* The start of a single region has its end ahead.
LEMMA SingleStarts ==
  ASSUME Inv, Inv', SkipInv, VisitExternCall, IRNow.type = "OpenMPSingleStart"
  PROVE  SingleInv'
<1>1. /\ Building /\ status = "building" /\ Len(stack) \in 1..Len(stack) /\ HasIR
      /\ IRNow = Body(Len(stack))[stack[Len(stack)].pos] /\ GoesOn(Len(stack))
  BY StackMoves, BuildingStays DEF Building, Staying
<1>2. PICK n \in 1..Len(stack) : n = Len(stack)
  BY <1>1
<1>3. PICK pos \in 1..Len(Body(n)) : pos = stack[n].pos /\ pos \in Nat
  <2>1. stack[n].pos \in 1..Len(Body(n))
    BY <1>1, <1>2, FrameBody DEF HasIR, Top, Body, Positions
  <2>2. QED
    BY <2>1
<1>4. /\ program \in Programs /\ stack[n].fn \in DOMAIN program.body
      /\ DOMAIN Body(n) = 1..Len(Body(n)) /\ NestsRegions(program)
  BY FrameBody, StructureAssumption
<1>5. PICK j \in 1..Len(Body(n)) : /\ pos < j /\ Body(n)[j].type = "OpenMPSingleEnd"
                                   /\ ClosesWithin(Body(n), pos, j)
  BY <1>1, <1>2, <1>3, <1>4 DEF NestsRegions, Body
<1>6. ~Skips(Tid)
  BY <1>1, SkipStep DEF SkipToTarget, VisitExternCall, Visited, Unskipped, Reached
<1>7. EndsSingle(n, pos, j)
  <2>1. pos \in stack[n].pos..j
    BY <1>3, <1>5
  <2>2. QED
    BY <1>3, <1>5, <1>6, <2>1 DEF EndsSingle, Reaches
<1>8. /\ stack' # <<>> /\ n \in 1..Len(stack') /\ stack'[n].pos = stack[n].pos + 1
      /\ stack'[n].fn = stack[n].fn
  BY <1>1, <1>2 DEF GoesOn
<1>9. ~Skips(Tid)'
  BY <1>8, NoneSkips, VisitEndsSkip
<1>10. EndsSingle(n, pos + 1, j)'
  <2>1. pos = stack[n].pos /\ j # stack[n].pos
    BY <1>3, <1>5
  <2>2. QED
    BY <1>1, <1>7, <1>8, <1>9, <2>1, EndAhead
<1>11. pos + 1 \in Nat /\ j \in Nat
  BY <1>3
<1>12. QED
  BY <1>8, <1>10, <1>11 DEF SingleInv

\* A region that is skipped is closed where it is skipped to.
LEMMA SkipInSingle ==
  ASSUME Inv, Inv', MasterInv, SkipInv, SkipMasterRegion,
         NEW n \in 1..Len(stack), n = Len(stack), NEW e, NEW j,
         EndsSingle(n, e, j), e = stack[n].pos
  PROVE  \E x \in Nat : EndsSingle(n, x, j)'
<1>1. /\ Building /\ status = "building" /\ Len(stack) \in 1..Len(stack)
      /\ IRNow = Body(Len(stack))[stack[Len(stack)].pos] /\ GoesOn(Len(stack))
      /\ program' = program
  BY StackMoves, BuildingStays DEF Building, Staying
<1>2. n = Len(stack)
  OBVIOUS
<1>3. PICK x : /\ Closes(Body(n), e, x) /\ Tid \in Tids
               /\ threads'[Tid].skipUntil = Body(n)[x].inst
  BY <1>2, SkipsRegion
<1>4. /\ j \in 1..Len(Body(n)) /\ Body(n)[j].type = "OpenMPSingleEnd" /\ e \in e..j
      /\ ClosesWithin(Body(n), e, j) /\ DOMAIN Body(n) = 1..Len(Body(n))
  BY <1>2, FrameBody DEF EndsSingle
<1>5. PICK y \in e..j : Closes(Body(n), e, y)
  BY <1>3, <1>4 DEF ClosesWithin, Closes
<1>6. x = y
  <2>1. /\ x \in Nat /\ y \in Nat /\ e \in Nat /\ e < x /\ e < y
        /\ Body(n)[x].type \in MasterMarks /\ Body(n)[y].type \in MasterMarks
    BY <1>3, <1>4, <1>5 DEF Closes, MasterMarks
  <2>2. ~(x < y)
    BY <1>5, <2>1 DEF Closes
  <2>3. ~(y < x)
    BY <1>3, <2>1 DEF Closes
  <2>4. QED
    BY <2>1, <2>2, <2>3
<1>7. x \in (e + 1)..j /\ x \in Nat /\ e \in Nat /\ j \in Nat
  BY <1>3, <1>4, <1>5, <1>6 DEF Closes
<1>8. Body(n)' = Body(n) /\ stack'[n].pos = e + 1 /\ Len(stack') = n
      /\ stack'[n].tid = Tid
  BY <1>1, <1>2 DEF Body, GoesOn, Tid, Top
<1>9. SkipsTo(n, x)'
  <2>1. x \in (e + 1)..Len(Body(n)) /\ Body(n)[x].type = "OpenMPMasterEnd"
    BY <1>3, <1>4, <1>7 DEF Closes
  <2>2. QED
    BY <1>3, <1>8, <2>1 DEF SkipsTo
<1>10. Skips(Tid)'
  <2>1. Tid' = Tid
    BY <1>8 DEF Tid, Top
  <2>2. Body(n)[x].inst # NoInst
    BY <1>3, <1>4, MarksAreCalls DEF Closes, RegionMarks, MasterMarks
  <2>3. QED
    BY <1>3, <2>1, <2>2 DEF Skips
<1>11. Reaches(n, x)'
  BY <1>8, <1>9, <1>10 DEF Reaches
<1>12. ClosesWithin(Body(n), x, j)
  <2>1. e <= x
    BY <1>7
  <2>2. QED
    BY <1>4, <1>7, <2>1, ClosesInRest
<1>13. EndsSingle(n, x, j)'
  BY <1>4, <1>7, <1>8, <1>11, <1>12 DEF EndsSingle, ClosesWithin, Closes
<1>14. QED
  BY <1>7, <1>13

\* The end that is ahead stays ahead, until it is met.
LEMMA SingleGoesOn ==
  ASSUME Inv, Inv', FrameLinks, MasterInv, SkipInv, Staying,
         NEW i \in 1..Len(stack), NEW e, NEW j, EndsSingle(i, e, j)
  PROVE  \/ VisitExternCall /\ IRNow.type = "OpenMPSingleEnd"
         \/ \E x \in Nat : EndsSingle(i, x, j)'
<1>1. /\ Building /\ status = "building" /\ Len(stack) \in 1..Len(stack) /\ HasIR
      /\ IRNow = Body(Len(stack))[stack[Len(stack)].pos] /\ GoesOn(Len(stack))
      /\ program' = program
  BY StackMoves, BuildingStays DEF Building
<1>2. /\ stack' # <<>> /\ Len(stack') = Len(stack) /\ stack[i].pos \in Nat
      /\ stack'[i].fn = stack[i].fn /\ Body(i)' = Body(i)
  BY <1>1, FrameBody DEF GoesOn, Body, Positions
<1>3. CASE i # Len(stack)
  <2>1. e = stack[i].pos /\ stack'[i] = stack[i]
    BY <1>1, <1>3 DEF EndsSingle, Reaches, GoesOn
  <2>2. Reaches(i, e)'
    BY <1>2, <1>3, <2>1 DEF Reaches
  <2>3. EndsSingle(i, e, j)'
    BY <1>2, <2>1, <2>2 DEF EndsSingle, ClosesWithin, Closes
  <2>4. QED
    BY <1>2, <2>1, <2>3
<1>4. CASE i = Len(stack) /\ Skips(Tid)
  <2>1. SkipsTo(i, e) /\ (e = stack[i].pos <=> IRNow.inst = Thread.skipUntil)
    BY <1>1, <1>4, SkipStep DEF EndsSingle, Reaches
  <2>2. CASE SkipToTarget /\ IRNow.inst # Thread.skipUntil
    <3>1. threads' = threads /\ stack'[i].tid = stack[i].tid
          /\ stack'[i].pos = stack[i].pos + 1
      BY <1>1, <1>4, <2>2 DEF SkipToTarget, GoesOn
    <3>2. e # stack[i].pos /\ e \in (stack[i].pos + 1)..j /\ e \in Nat
      BY <1>2, <2>1, <2>2, FrameBody DEF EndsSingle
    <3>3. SkipsTo(i, e)'
      BY <1>2, <2>1, <3>1, <3>2, FrameBody DEF SkipsTo, EndsSingle
    <3>4. Skips(Tid)'
      <4>1. Tid' = Tid
        BY <1>2, <1>4, <3>1 DEF Tid, Top
      <4>2. QED
        BY <1>4, <3>1, <4>1 DEF Skips
    <3>5. Reaches(i, e)'
      BY <1>2, <1>4, <3>3, <3>4 DEF Reaches
    <3>6. EndsSingle(i, e, j)'
      BY <1>2, <3>1, <3>2, <3>5 DEF EndsSingle, ClosesWithin, Closes
    <3>7. QED
      BY <3>2, <3>6
  <2>3. CASE /\ VisitExternCall /\ IRNow.inst = Thread.skipUntil
             /\ IRNow.type = "OpenMPMasterEnd"
    <3>1. e = stack[i].pos /\ j # stack[i].pos
      BY <1>1, <1>4, <2>1, <2>3 DEF EndsSingle
    <3>2. ~Skips(Tid)'
      BY <1>2, <2>3, VisitEndsSkip, NoneSkips
    <3>3. stack'[i].pos = stack[i].pos + 1
      BY <1>1, <1>4 DEF GoesOn
    <3>4. EndsSingle(i, e + 1, j)'
      BY <1>1, <1>2, <3>1, <3>2, <3>3, EndAhead
    <3>5. e + 1 \in Nat
      BY <1>2, <3>1
    <3>6. QED
      BY <3>4, <3>5
  <2>4. QED
    BY <1>1, <1>4, <2>2, <2>3, SkipStep
<1>5. CASE i = Len(stack) /\ ~Skips(Tid)
  <2>1. e = stack[i].pos /\ e + 1 \in Nat
    BY <1>2, <1>5 DEF EndsSingle, Reaches
  <2>2. CASE SkipMasterRegion
    BY <1>5, <2>1, <2>2, SkipInSingle
  <2>3. CASE ~SkipMasterRegion /\ j = stack[i].pos
    <3>1. IRNow.type = "OpenMPSingleEnd"
      BY <1>1, <1>5, <2>3 DEF EndsSingle
    <3>2. ~SkipToTarget
      BY <1>5 DEF SkipToTarget, Skipping, Skips, Thread
    <3>3. VisitExternCall
      BY <2>3, <3>1, <3>2, MarkStep DEF RegionMarks
    <3>4. QED
      BY <3>1, <3>3
  <2>4. CASE ~SkipMasterRegion /\ j # stack[i].pos
    <3>1. \A u \in Tids : ~Skips(u)
      BY <1>5 DEF SkipInv
    <3>2. \A u \in Tids' : ~Skips(u)'
      BY <1>1, <2>4, <3>1, SkipsNext, NewThreadSkipsNot
    <3>3. ~Skips(Tid)'
      BY <1>2, <3>2, NoneSkips
    <3>4. stack'[i].pos = stack[i].pos + 1
      BY <1>1, <1>5 DEF GoesOn
    <3>5. EndsSingle(i, e + 1, j)'
      BY <1>1, <1>2, <2>1, <2>4, <3>3, <3>4, EndAhead
    <3>6. QED
      BY <2>1, <3>5
  <2>5. QED
    BY <2>2, <2>3, <2>4
<1>6. QED
  BY <1>3, <1>4, <1>5

\* Calls and forks do not leave the region, and a return brings its end nearer.
LEMMA SingleStays ==
  ASSUME Inv, Inv', FrameLinks, SkipInv, Building, ~Staying,
         NEW i \in 1..Len(stack), NEW e, NEW j, EndsSingle(i, e, j)
  PROVE  i \in 1..Len(stack') /\ \E x \in Nat : EndsSingle(i, x, j)'
<1>1. /\ status = "building" /\ Len(stack) \in 1..Len(stack) /\ Len(stack) \in Nat
      /\ program' = program /\ stack[i].pos \in Nat
  BY StackMoves, BuildingStays, Numbers, FrameBody DEF Positions
<1>2. ~Skips(Tid)
  BY <1>1, SkipStep DEF Staying
<1>3. e = stack[i].pos
  BY <1>2 DEF EndsSingle, Reaches
<1>4. /\ ~SkipMasterRegion /\ \A u \in Tids : ~Skips(u)
  BY <1>2 DEF SkipInv, Staying
<1>5. \A u \in Tids' : ~Skips(u)'
  BY <1>4, SkipsNext, NewThreadSkipsNot
<1>6. CASE VisitCall \/ VisitFork
  <2>1. /\ Len(stack') = Len(stack) + 1 /\ stack'[i] = stack[i]
        /\ i \in 1..Len(stack') /\ stack' # <<>>
    BY <1>1, <1>6, StackMoves
  <2>2. ~Skips(Tid)' /\ Body(i)' = Body(i)
    BY <1>1, <1>5, <2>1, NoneSkips DEF Body
  <2>3. Reaches(i, e)'
    BY <1>3, <2>1, <2>2 DEF Reaches
  <2>4. EndsSingle(i, e, j)'
    BY <2>1, <2>2, <2>3 DEF EndsSingle, ClosesWithin, Closes
  <2>5. QED
    BY <1>1, <1>3, <2>1, <2>4
<1>7. CASE ReturnFromCall \/ ReturnFromThread
  <2>1. Ended /\ GoesOn(Len(stack) - 1) /\ Len(stack) - 1 \in 1..Len(stack)
    BY <1>7, StackMoves
  <2>2. stack[i].pos <= Len(Body(i))
    BY <1>1, FrameBody DEF EndsSingle
  <2>3. i # Len(stack)
    BY <1>1, <2>1, <2>2, FrameBody DEF Ended, Top, Body
  <2>4. /\ i \in 1..(Len(stack) - 1) /\ i \in 1..Len(stack') /\ stack' # <<>>
        /\ stack'[i].fn = stack[i].fn /\ Body(i)' = Body(i)
    BY <1>1, <2>1, <2>3 DEF GoesOn, Body
  <2>5. ~Skips(Tid)'
    BY <1>5, <2>4, NoneSkips
  <2>6. CASE i = Len(stack) - 1
    <3>1. stack'[i].pos = stack[i].pos + 1
      BY <2>1, <2>6 DEF GoesOn
    <3>2. j # stack[i].pos
      BY <2>3, WaitsAtNoMark DEF EndsSingle, RegionMarks
    <3>3. EndsSingle(i, e + 1, j)'
      BY <1>3, <2>4, <2>5, <3>1, <3>2, EndAhead
    <3>4. e + 1 \in Nat
      BY <1>1, <1>3
    <3>5. QED
      BY <2>4, <3>3, <3>4
  <2>7. CASE i # Len(stack) - 1
    <3>1. stack'[i] = stack[i]
      BY <2>1, <2>4, <2>7 DEF GoesOn
    <3>2. Reaches(i, e)'
      BY <1>3, <2>5, <3>1 DEF Reaches
    <3>3. EndsSingle(i, e, j)'
      BY <2>4, <3>1, <3>2 DEF EndsSingle, ClosesWithin, Closes
    <3>4. QED
      BY <1>1, <1>3, <2>4, <3>3
  <2>8. QED
    BY <2>6, <2>7
<1>8. QED
  BY <1>6, <1>7 DEF Building

\* Every step keeps the single region.
LEMMA SingleNext ==
  ASSUME Inv, FrameLinks, MasterInv, SkipInv, SingleInv, [Next]_vars
  PROVE  SingleInv'
<1>1. Inv'
  BY NextKeeps
<1>2. SUFFICES ASSUME inSingleRegion'
               PROVE  \E i \in 1..Len(stack') : \E e, j \in Nat : EndsSingle(i, e, j)'
  BY DEF SingleInv
<1>3. CASE VisitExternCall /\ IRNow.type = "OpenMPSingleStart"
  BY <1>1, <1>2, <1>3, SingleStarts DEF SingleInv
<1>4. CASE Building /\ ~(VisitExternCall /\ IRNow.type = "OpenMPSingleStart")
  <2>1. ~(VisitExternCall /\ IRNow.type = "OpenMPSingleEnd")
    <3>1. SUFFICES ASSUME VisitExternCall, IRNow.type = "OpenMPSingleEnd" PROVE ~inSingleRegion'
      BY <1>2
    <3>2. PreVisit(<<>>)
      BY <3>1 DEF VisitExternCall
    <3>3. inSingleRegion' = (FALSE \/ (inSingleRegion /\ FALSE))
      BY <3>1, <3>2 DEF PreVisit
    <3>4. QED
      BY <3>3
  <2>2. inSingleRegion
    BY <1>2, <1>4, <2>1, SingleStep
  <2>3. PICK i \in 1..Len(stack), e \in Nat, j \in Nat : EndsSingle(i, e, j)
    BY <2>2 DEF SingleInv
  <2>4. CASE Staying
    <3>1. PICK x \in Nat : EndsSingle(i, x, j)'
      BY <1>1, <2>1, <2>3, <2>4, SingleGoesOn
    <3>2. i \in 1..Len(stack')
      BY <1>4, <2>4, StackMoves DEF GoesOn
    <3>3. QED
      BY <2>3, <3>1, <3>2
  <2>5. CASE ~Staying
    BY <1>1, <1>4, <2>3, <2>5, SingleStays
  <2>6. QED
    BY <2>4, <2>5
<1>5. CASE ~Building
  <2>1. /\ UNCHANGED <<threads, program, inSingleRegion>>
        /\ \/ stack' = stack
           \/ Ended /\ Len(stack) = 1 /\ stack' = <<>> /\ Len(stack') = 0
    BY <1>5, OtherRuntime DEF runtimeVars
  <2>2. PICK i \in 1..Len(stack), e \in Nat, j \in Nat : EndsSingle(i, e, j)
    BY <1>2, <2>1 DEF SingleInv
  <2>3. stack' = stack
    <3>1. SUFFICES ASSUME Ended, Len(stack) = 1 PROVE FALSE
      BY <2>1
    <3>2. stack[i].pos <= Len(Body(i)) /\ stack[i] = Top
      BY <2>2, <3>1, FrameBody DEF EndsSingle, Positions, Top
    <3>3. QED
      BY <3>1, <3>2, FrameBody DEF Ended, Body, Positions
  <2>4. EndsSingle(i, e, j)'
    BY <2>1, <2>2, <2>3 DEF EndsSingle, Reaches, SkipsTo, ClosesWithin, Closes, Body, Skips, Tid, Top
  <2>5. QED
    BY <2>2, <2>3, <2>4
<1>6. QED
  BY <1>3, <1>4, <1>5 DEF Building, Staying

(***************************************************************************)
(* The teams region.  It is left when the thread of its fork ends, and the *)
(* frame that waits at the fork is on the stack until then.                *)
(***************************************************************************)
TeamsBelow(i) ==
  stack[i].tid # stack[i - 1].tid /\ LowerIR(i).type = "OpenMPForkTeams"

TeamsInv == inTeamsRegion => \E i \in 2..Len(stack) : TeamsBelow(i)

\* The fork of a region that is refused because its function already runs as a
\* thread is refused inside that region.
LEMMA RefusedInTeams ==
  ASSUME Inv, TreeInv, FrameLinks, VisitRecursiveFork, IRNow.type = "OpenMPForkTeams"
  PROVE  \E i \in 2..Len(stack) : TeamsBelow(i)
<1>1. /\ status = "building" /\ Len(stack) \in 1..Len(stack) /\ Len(stack) \in Nat /\ HasIR
      /\ IRNow = Body(Len(stack))[stack[Len(stack)].pos]
  BY StackMoves, BuildingStays, Numbers DEF Building, Staying
<1>2. PICK l \in 1..Len(stack) : LET above == threads[stack[l].tid] IN
        above.spawnSite # NoSpawn /\ above.entry = IRNow.entry
  BY DEF VisitRecursiveFork, IsRecursiveThreadSpawn, Inv, Typed
<1>3. PICK t \in Tids : t = stack[l].tid
  BY FrameBody
<1>4. threads[t].spawnSite # NoSpawn /\ threads[t].entry = IRNow.entry
  BY <1>2, <1>3
<1>5. SpawnIR(t).entry = IRNow.entry
  <2>1. PICK u \in Tids : /\ threads[u].spawnSite = threads[t].spawnSite
                          /\ threads[u].entry = EventAt(threads[t].spawnSite).ir.entry
    BY <1>4 DEF Inv, SpawnInv
  <2>2. u = t
    BY <2>1 DEF Inv, SpawnInv
  <2>3. QED
    BY <1>4, <2>1, <2>2 DEF SpawnIR
<1>6. PICK F : F = {k \in 1..Len(stack) : stack[k].tid = t}
  OBVIOUS
<1>7. PICK f \in F : \A k \in F : f <= k
  <2>1. F \in SUBSET Nat /\ F # {}
    BY <1>3, <1>6
  <2>2. QED
    BY <2>1, LeastOf
<1>8. f \in 2..Len(stack) /\ f - 1 \in 1..Len(stack) /\ stack[f].tid = t /\ f - 1 < f
  <2>1. stack[1].tid = 1 /\ threads[1].spawnSite = NoSpawn
    BY <1>1 DEF FrameLinks, TreeInv, SpawnTree
  <2>2. f # 1
    BY <1>4, <1>6, <2>1
  <2>3. QED
    BY <1>1, <1>6, <1>7, <2>2
<1>9. stack[f].tid # stack[f - 1].tid
  BY <1>6, <1>7, <1>8
<1>10. PICK b \in 1..Len(stack) : b = f - 1 /\ b < Len(stack)
  BY <1>1, <1>8
<1>11. LowerIR(f) = SpawnIR(t) /\ LowerIR(f).type \in ForkTypes
  BY <1>8, <1>9, KindTyped DEF FrameLinks, Link
<1>12. PICK fn \in DOMAIN program.body, other \in DOMAIN program.body :
         /\ LowerIR(f) \in ToSet(program.body[fn]) /\ IRNow \in ToSet(program.body[other])
  <2>1. /\ stack[b].pos \in 1..Len(Body(b)) /\ DOMAIN Body(b) = 1..Len(Body(b))
        /\ stack[b].fn \in DOMAIN program.body
    BY <1>10, FrameBody DEF Positions
  <2>2. LowerIR(f) = Body(b)[stack[b].pos]
    BY <1>10 DEF LowerIR, IRAt, Body
  <2>3. PICK n \in 1..Len(stack) : n = Len(stack)
    BY <1>1
  <2>4. /\ stack[n].pos \in 1..Len(Body(n)) /\ DOMAIN Body(n) = 1..Len(Body(n))
        /\ stack[n].fn \in DOMAIN program.body /\ IRNow = Body(n)[stack[n].pos]
    BY <1>1, <2>3, FrameBody DEF HasIR, Top, Body, Positions
  <2>5. LowerIR(f) \in ToSet(Body(b)) /\ IRNow \in ToSet(Body(n))
    BY <2>1, <2>2, <2>4 DEF ToSet
  <2>6. QED
    BY <2>1, <2>4, <2>5 DEF Body
<1>13. LowerIR(f).type = "OpenMPForkTeams"
  <2>1. OutlinesTeams(program)
    BY TeamsAssumption DEF Inv, Typed
  <2>2. LowerIR(f).entry = IRNow.entry
    BY <1>5, <1>11
  <2>3. QED
    BY <1>11, <1>12, <2>1, <2>2 DEF OutlinesTeams
<1>14. QED
  BY <1>8, <1>9, <1>13 DEF TeamsBelow

\* Only the fork of a teams region enters it.
LEMMA TeamsStep ==
  ASSUME Inv, Building, inTeamsRegion', ~inTeamsRegion
  PROVE  IRNow.type = "OpenMPForkTeams" /\ (VisitFork \/ VisitRecursiveFork)
<1>1. ~(SkipToTarget \/ SkipSerial \/ SkipInTeams \/ SkipTask \/ SkipMasterRegion
        \/ VisitUnresolvedCall \/ VisitRecursiveCall \/ VisitCall \/ ReturnFromCall)
  BY DEF SkipToTarget, SkipSerial, SkipInTeams, SkipTask, SkipMasterRegion,
     VisitUnresolvedCall, VisitRecursiveCall, VisitCall, ReturnFromCall, Pass, runtimeVars
<1>2. ~ReturnFromThread
  BY DEF ReturnFromThread, PostFork
<1>3. VisitEvent \/ VisitRecursiveFork \/ VisitFork \/ VisitExternCall
  BY <1>1, <1>2 DEF Building, Staying
<1>4. PICK tasks : PreVisit(tasks)
  BY <1>3 DEF VisitEvent, VisitRecursiveFork, VisitFork, VisitExternCall
<1>5. inTeamsRegion' = (inTeamsRegion \/ IRNow.type = "OpenMPForkTeams")
  BY <1>4 DEF PreVisit
<1>6. IRNow.type = "OpenMPForkTeams"
  BY <1>5
<1>7. Kind(IRNow) = "Fork"
  BY <1>6, KindTyped DEF ForkTypes
<1>8. QED
  BY <1>3, <1>6, <1>7 DEF VisitEvent, VisitExternCall

\* A frame that stays below another goes on waiting.
LEMMA TeamsStay ==
  ASSUME Inv, Building, NEW n \in 1..Len(stack), n <= Len(stack'),
         \A i \in 1..n : stack'[i].tid = stack[i].tid,
         \A i \in 1..n : i # n => stack'[i] = stack[i],
         NEW i \in 2..Len(stack), i <= n, TeamsBelow(i)
  PROVE  i \in 2..Len(stack') /\ TeamsBelow(i)'
<1>1. i \in 1..n /\ i - 1 \in 1..n /\ i - 1 # n /\ n \in Nat /\ i \in Nat
  BY Numbers
<1>2. stack'[i].tid = stack[i].tid /\ stack'[i - 1] = stack[i - 1] /\ program' = program
  BY <1>1, BuildingStays
<1>3. TeamsBelow(i)'
  BY <1>2 DEF TeamsBelow, LowerIR, IRAt
<1>4. Len(stack') \in Nat /\ i \in 2..Len(stack')
  <2>1. stack' \in Seq(FrameRecords)
    BY NextKeeps DEF Inv, Typed, Building, Next, Staying
  <2>2. QED
    BY <1>1, <2>1
<1>5. QED
  BY <1>3, <1>4

\* Every step keeps the teams region.
LEMMA TeamsNext ==
  ASSUME Inv, TreeInv, FrameLinks, TeamsInv, [Next]_vars
  PROVE  TeamsInv'
<1>1. SUFFICES ASSUME inTeamsRegion' PROVE \E i \in 2..Len(stack') : TeamsBelow(i)'
  BY DEF TeamsInv
<1>2. CASE Building
  <2>1. Len(stack) \in 1..Len(stack) /\ Len(stack) \in Nat /\ program' = program
    BY <1>2, StackMoves, Numbers
  <2>2. PICK n \in 1..Len(stack) : n = Len(stack)
    BY <2>1
  <2>3. CASE ~inTeamsRegion /\ VisitFork
    <3>1. IRNow.type = "OpenMPForkTeams" /\ IRNow = IRAt(stack[n])
      BY <1>1, <1>2, <2>2, <2>3, TeamsStep DEF IRNow, Top
    <3>2. PICK evs, frame, new : Forks(evs, frame, new)
      BY <2>3, VisitForkForks
    <3>3. /\ Len(stack') = n + 1 /\ stack'[n] = stack[n] /\ stack'[n + 1] = frame
          /\ frame.tid = new /\ new = Len(threads) + 1
      BY <2>2, <3>2, PushedStack DEF Forks
    <3>4. PICK m \in 2..Len(stack') : m = n + 1 /\ m - 1 = n
      BY <2>1, <2>2, <3>3
    <3>5. stack'[m].tid # stack'[m - 1].tid
      <4>1. stack[n].tid \in 1..Len(threads) /\ Len(threads) \in Nat
        BY Numbers DEF Tids, Positions
      <4>2. QED
        BY <3>3, <3>4, <4>1
    <3>6. LowerIR(m)'.type = "OpenMPForkTeams"
      BY <2>1, <3>1, <3>3, <3>4 DEF LowerIR, IRAt
    <3>7. QED
      BY <3>4, <3>5, <3>6 DEF TeamsBelow
  <2>4. CASE inTeamsRegion \/ ~VisitFork
    <3>1. PICK i \in 2..Len(stack) : TeamsBelow(i)
      BY <1>1, <1>2, <2>4, TeamsStep, RefusedInTeams DEF TeamsInv
    <3>2. i <= n /\ i \in Nat
      BY <2>1, <2>2
    <3>3. CASE Staying
      BY <1>2, <2>2, <3>1, <3>2, <3>3, StackMoves, TeamsStay DEF GoesOn
    <3>4. CASE VisitCall \/ VisitFork
      BY <1>2, <2>1, <2>2, <3>1, <3>2, <3>4, StackMoves, TeamsStay
    <3>5. CASE ReturnFromCall \/ ReturnFromThread
      <4>1. GoesOn(n - 1) /\ n - 1 \in 1..Len(stack)
        BY <1>2, <2>2, <3>5, StackMoves
      <4>2. i # n
        <5>1. SUFFICES ASSUME i = n PROVE FALSE
          OBVIOUS
        <5>2. Caller.tid # Tid /\ IRAt(Caller).type = "OpenMPForkTeams"
          BY <2>2, <3>1, <5>1 DEF TeamsBelow, LowerIR, Caller, Tid, Top
        <5>3. ReturnFromThread
          BY <3>5, <5>2 DEF ReturnFromCall
        <5>4. ~inTeamsRegion'
          BY <5>2, <5>3 DEF ReturnFromThread, PostFork
        <5>5. QED
          BY <1>1, <5>4
      <4>3. i <= n - 1
        BY <2>1, <2>2, <3>2, <4>2
      <4>4. PICK m \in 1..Len(stack) : m = n - 1
        BY <4>1
      <4>5. QED
        BY <1>2, <3>1, <4>1, <4>3, <4>4, TeamsStay DEF GoesOn
    <3>6. QED
      BY <1>2, <3>3, <3>4, <3>5 DEF Building
  <2>5. QED
    BY <2>3, <2>4
<1>3. CASE ~Building
  <2>1. /\ UNCHANGED <<threads, program, inTeamsRegion>>
        /\ \/ stack' = stack
           \/ Ended /\ Len(stack) = 1 /\ stack' = <<>> /\ Len(stack') = 0
    BY <1>3, OtherRuntime DEF runtimeVars
  <2>2. PICK i \in 2..Len(stack) : TeamsBelow(i)
    BY <1>1, <2>1 DEF TeamsInv
  <2>3. stack' = stack
    <3>1. i \in Nat /\ 2 <= i /\ i <= Len(stack) /\ Len(stack) \in Nat
      BY Numbers
    <3>2. QED
      BY <2>1, <3>1
  <2>4. TeamsBelow(i)'
    BY <2>1, <2>2, <2>3 DEF TeamsBelow, LowerIR, IRAt
  <2>5. QED
    BY <2>2, <2>3, <2>4
<1>4. QED
  BY <1>2, <1>3

(***************************************************************************)
(* The runtime model when the trace is done.                               *)
(***************************************************************************)
\* The program starts in no region.
LEMMA InitRuntime == Init => MasterInv /\ SkipInv /\ SingleInv /\ TeamsInv
<1>1. SUFFICES ASSUME Init PROVE MasterInv /\ SkipInv /\ SingleInv /\ TeamsInv
  OBVIOUS
<1>2. /\ stack = <<Frame(1, program.main, InitialCtx)>> /\ masterRegions = {}
      /\ threads = <<NewThread(NoSpawn, program.main, InitialCtx)>>
      /\ currentMasterStart = NoInst /\ ~inSingleRegion /\ ~inTeamsRegion
  BY <1>1 DEF Init
<1>3. threads[1].skipUntil = NoInst /\ threads[1].spawnSite = NoSpawn /\ Tids = 1..1
      /\ Len(stack) = 1 /\ stack[1].tid = 1
  BY <1>2 DEF NewThread, Tids, Frame
<1>4. \A i \in 1..Len(stack) : \A k : ~OpenAt(i, k)
  BY <1>3 DEF OpenAt, MasterThread
<1>5. MasterInv
  BY <1>2, <1>4 DEF MasterInv, Inside, RegionsClose
<1>6. SkipInv
  BY <1>3 DEF SkipInv, Skips
<1>7. QED
  BY <1>2, <1>5, <1>6 DEF SingleInv, TeamsInv

\* Nothing of a region is left when the trace is done: not in the runtime
\* model, which all threads share, and no thread still skips to the end of a
\* master region.  A single or master region that was left open would drop the
\* tasks or regions of code that follows, a teams region its barriers and locks.
THEOREM RuntimeStateIsReset == Spec => []RuntimeStateReset
<1> DEFINE Leaving == /\ Inv /\ TreeInv /\ FrameLinks
                      /\ MasterInv /\ SkipInv /\ SingleInv /\ TeamsInv
<1>1. Init => Leaving
  BY InitInv, InitOrdered, InitLinks, InitRuntime
<1>2. Leaving /\ [Next]_vars => Leaving'
  <2>1. SUFFICES ASSUME Leaving, [Next]_vars PROVE Leaving'
    OBVIOUS
  <2>2. status = "building" /\ MasterThread(Tid) => ~Skips(Tid)
    BY <2>1, SkipStep
  <2>3. QED
    BY <2>1, <2>2, NextKeeps, TreeNext, LinksNext, MasterNext, SkippingNext, SingleNext, TeamsNext
<1>3. Leaving => RuntimeStateReset
  <2>1. SUFFICES ASSUME Leaving, status = "done" PROVE
          /\ ~inTeamsRegion /\ ~inSingleRegion /\ currentMasterStart = NoInst
          /\ \A t \in DOMAIN threads : threads[t].skipUntil = NoInst
    BY DEF RuntimeStateReset
  <2>2. stack = <<>> /\ Len(stack) = 0 /\ DOMAIN threads = Tids
    BY <2>1 DEF Inv, StackInv, Typed, Tids
  <2>3. ~inTeamsRegion /\ ~inSingleRegion /\ currentMasterStart = NoInst
    BY <2>1, <2>2 DEF TeamsInv, SingleInv, MasterInv
  <2>4. \A t \in Tids : threads[t].skipUntil = NoInst
    BY <2>1, <2>2 DEF SkipInv, Skips
  <2>5. QED
    BY <2>2, <2>3, <2>4
<1> HIDE DEF Leaving
<1>4. QED
  BY <1>1, <1>2, <1>3, PTL DEF Spec
=============================================================================
