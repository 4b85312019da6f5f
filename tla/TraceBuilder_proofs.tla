------------------------ MODULE TraceBuilder_proofs ------------------------
(***************************************************************************)
(* Proofs about the builder of traces, for every set of programs: traces   *)
(* stay inside the program and inside themselves (TypeOK), and a finished  *)
(* trace is one that the happens-before graph can work with                *)
(* (TraceWellFormed).                                                      *)
(*                                                                         *)
(* A step appends events to one thread, and a fork also adds a thread.     *)
(* What makes the correspondence of forks and threads inductive is the     *)
(* stack: a spawned thread is listed by its parent or has its first frame  *)
(* on the stack, above a frame of its parent.                              *)
(*                                                                         *)
(* The second part is about the order in which the builder works.          *)
(* buildTrace is a recursion: a thread is built whole before its parent    *)
(* goes on, and a callee before its caller.  Threads are therefore         *)
(* numbered in the order of a depth-first walk of the spawns, which is the *)
(* order ProgramTrace lists them in (FlattenedInThreadOrder); the spawn    *)
(* sites a context remembers are those of the thread whatever ran on it    *)
(* before (OriginsNameThread); and the enter and leave events of a         *)
(* finished thread nest (CallsBalanced).                                   *)
(***************************************************************************)
EXTENDS TraceBuilder, TLAPS, NaturalsInduction, WellFoundedInduction,
        FiniteSetTheorems

(***************************************************************************)
(* The values a trace is made of.                                          *)
(***************************************************************************)
IRs == UNION {UNION {ToSet(p.body[fn]) : fn \in DOMAIN p.body} : p \in Programs}

ForkIRs == {ir \in IRs : ir.type \in ForkTypes}

Insts == {ir.inst : ir \in IRs} \cup {NoInst}

Entries == {ir.entry : ir \in ForkIRs} \cup {p.main : p \in Programs}

Bodies == UNION {DOMAIN p.body : p \in Programs}

TaskJoinIRs ==
  {[type |-> "OpenMPTaskJoin", inst |-> ir.inst, handle |-> ir.entry] : ir \in ForkIRs}

Positions == Nat \ {0}

PIDs == Positions \X Positions

Contexts ==
  {c \in [origins : Seq(Insts), callsite : Insts] : Len(c.origins) <= OriginK}

EventTypes ==
  {"Read", "Write", "Fork", "Join", "Lock", "Unlock", "Barrier", "Call",
   "ExternCall", "EnterCall", "LeaveCall"}

EventRecords ==
  [type : EventTypes, ir : IRs \cup TaskJoinIRs, ctx : Contexts, fork : PIDs \cup {NoFork}]

ThreadRecords ==
  [spawnSite : PIDs \cup {NoSpawn}, entry : Entries, events : Seq(EventRecords),
   childThreads : Seq(Positions), einfo : Contexts, skipUntil : Insts]

FrameRecords == [tid : Positions, fn : Bodies, ctx : Contexts, pos : Positions]

Tids == 1..Len(threads)

-----------------------------------------------------------------------------
(***************************************************************************)
(* The inductive invariant.                                                *)
(***************************************************************************)
Typed ==
  /\ program \in Programs
  /\ status \in {"building", "flattening", "done", "aborted"}
  /\ stack \in Seq(FrameRecords)
  /\ threads \in Seq(ThreadRecords) /\ threads # <<>>
  /\ masterRegions \subseteq Insts \X Insts
  /\ currentMasterStart \in Insts
  /\ unjoinedTasks \in Seq(PIDs)
  /\ flatThreads \in Seq(Positions) /\ flattenWorklist \in Seq(Positions)

\* Frames are of built threads, and wait at a call or fork if they are not on
\* top; where the thread changes, the upper thread was spawned by the lower.
StackInv ==
  /\ status = "building" => stack # <<>>
  /\ status \in {"flattening", "done"} => stack = <<>>
  /\ \A i \in 1..Len(stack) :
       /\ stack[i].tid \in Tids
       /\ stack[i].fn \in DOMAIN program.body
       /\ stack[i].pos <= Len(program.body[stack[i].fn]) + 1
       /\ i < Len(stack) => stack[i].pos <= Len(program.body[stack[i].fn])
  /\ \A i \in 2..Len(stack) : stack[i].tid # stack[i - 1].tid =>
       /\ threads[stack[i].tid].spawnSite \in PIDs
       /\ threads[stack[i].tid].spawnSite[1] = stack[i - 1].tid

Listed(t) == t \in ToSet(threads[threads[t].spawnSite[1]].childThreads)

Starting(t) == \E i \in 2..Len(stack) : stack[i].tid = t /\ stack[i - 1].tid # t

SpawnInv ==
  /\ \A t \in Tids : threads[t].spawnSite # NoSpawn =>
       threads[t].spawnSite \in ForkEvents /\ (Listed(t) \/ Starting(t))
  /\ \A t, u \in Tids : t # u => threads[t].spawnSite # threads[u].spawnSite
  /\ \A n \in ForkEvents : \E t \in Tids :
       threads[t].spawnSite = n /\ threads[t].entry = EventAt(n).ir.entry
  /\ \A t \in Tids : ToSet(threads[t].childThreads) \subseteq Tids

JoinInv ==
  /\ \A n \in EventPIDs : EventAt(n).fork # NoFork =>
       EventAt(n).type = "Join" /\ EventAt(n).fork \in TaskForks
  /\ ToSet(unjoinedTasks) \subseteq TaskForks

FlatInv == ToSet(flatThreads) \cup ToSet(flattenWorklist) \subseteq Tids

Inv == Typed /\ StackInv /\ SpawnInv /\ JoinInv /\ FlatInv

-----------------------------------------------------------------------------
(***************************************************************************)
(* The running activation.                                                 *)
(***************************************************************************)
\* The IR of a summary is IR, and a fork in it names a function with a body.
LEMMA SummaryIR ==
  ASSUME NEW p \in Programs, NEW fn \in DOMAIN p.body
  PROVE  /\ p.body[fn] \in Seq(IRs)
         /\ \A i \in 1..Len(p.body[fn]) :
              p.body[fn][i].type \in ForkTypes => p.body[fn][i].entry \in DOMAIN p.body
<1>1. ToSet(p.body[fn]) \subseteq IRs
  BY DEF IRs
<1>2. p.body[fn] \in Seq(ToSet(p.body[fn]))
  BY ProgramsAssumption DEF HasSummaries
<1>3. \A i \in 1..Len(p.body[fn]) : p.body[fn][i] \in ToSet(p.body[fn])
  BY <1>2 DEF ToSet
<1>4. QED
  BY <1>1, <1>2, <1>3, ProgramsAssumption DEF HasSummaries

\* While the trace is built an activation runs, in a thread that is built.
LEMMA TopTyped ==
  ASSUME Typed, StackInv, status = "building"
  PROVE  /\ Len(stack) \in Positions
         /\ Top \in FrameRecords
         /\ Tid \in Tids
         /\ Thread \in ThreadRecords
         /\ Top.fn \in DOMAIN program.body
         /\ Top.pos <= Len(program.body[Top.fn]) + 1
         /\ program.body[Top.fn] \in Seq(IRs)
<1>1. stack \in Seq(FrameRecords) /\ stack # <<>>
  BY DEF Typed, StackInv
<1>2. Len(stack) \in Positions
  BY <1>1 DEF Positions
<1>3. Top \in FrameRecords
  BY <1>1, <1>2 DEF Top, Positions
<1>4. Tid \in Tids /\ Top.fn \in DOMAIN program.body /\ Top.pos <= Len(program.body[Top.fn]) + 1
  BY <1>2 DEF StackInv, Top, Tid, Positions
<1>5. Thread \in ThreadRecords
  BY <1>4 DEF Thread, Typed, Tids
<1>6. QED
  BY <1>2, <1>3, <1>4, <1>5, SummaryIR DEF Typed

\* The IR at hand is one of the summary.
LEMMA IRTyped ==
  ASSUME Typed, StackInv, HasIR
  PROVE  /\ Top.pos \in 1..Len(program.body[Top.fn])
         /\ IRNow \in IRs
         /\ IRNow.inst \in Insts
         /\ IRNow.type \in ForkTypes => IRNow.entry \in DOMAIN program.body /\ IRNow \in ForkIRs
<1>1. /\ Top \in FrameRecords /\ Top.fn \in DOMAIN program.body
      /\ program.body[Top.fn] \in Seq(IRs)
  BY TopTyped DEF HasIR
<1>2. Top.pos \in 1..Len(program.body[Top.fn])
  BY <1>1 DEF HasIR, FrameRecords, Positions
<1>3. IRNow = program.body[Top.fn][Top.pos] /\ IRNow \in IRs
  BY <1>1, <1>2 DEF IRNow, IRAt
<1>4. IRNow.type \in ForkTypes => IRNow.entry \in DOMAIN program.body
  BY <1>1, <1>2, <1>3, SummaryIR DEF Typed
<1>5. QED
  BY <1>2, <1>3, <1>4 DEF Insts, ForkIRs

\* A kind of IR is a type of event; forks are those that start a thread.
LEMMA KindTyped ==
  ASSUME NEW ir
  PROVE  /\ Kind(ir) \in EventTypes
         /\ Kind(ir) = "Fork" <=> ir.type \in ForkTypes
BY DEF Kind, EventTypes, ForkTypes, JoinTypes, LockTypes, UnlockTypes

\* A new event of the running thread is typed and names no fork.
LEMMA NewEventTyped ==
  ASSUME Typed, StackInv, status = "building",
         NEW type \in EventTypes, NEW ir \in IRs \cup TaskJoinIRs
  PROVE  /\ NewEvent(type, ir) \in EventRecords
         /\ NewEvent(type, ir).type = type
         /\ NewEvent(type, ir).ir = ir
         /\ NewEvent(type, ir).fork = NoFork
<1>1. Thread.einfo \in Contexts
  BY TopTyped DEF ThreadRecords
<1>2. QED
  BY <1>1 DEF NewEvent, EventRecords

\* A context stays a context when it evolves: no more than OriginK origins.
LEMMA ContextEvolves ==
  ASSUME NEW ctx \in Contexts, NEW ir \in IRs
  PROVE  ContextEvolve(ctx, ir) \in Contexts
<1>1. ir.inst \in Insts
  BY DEF Insts
<1>2. ctx.origins \in Seq(Insts) /\ Len(ctx.origins) <= OriginK
  BY DEF Contexts
<1> DEFINE s == Append(ctx.origins, ir.inst)
<1>3. s \in Seq(Insts) /\ Len(s) \in Nat
  BY <1>1, <1>2
<1>4. LastK(s) \in Seq(Insts) /\ Len(LastK(s)) <= OriginK
  <2> HIDE DEF s
  <2>1. CASE Len(s) > OriginK
    BY <1>3, <2>1, OriginKAssumption DEF LastK
  <2>2. CASE ~(Len(s) > OriginK)
    <3>1. LastK(s) = SubSeq(s, 1, Len(s))
      BY <2>2 DEF LastK
    <3>2. QED
      BY <1>3, <2>2, <3>1, OriginKAssumption
  <2>3. QED
    BY <2>1, <2>2
<1>5. QED
  BY <1>1, <1>2, <1>4 DEF ContextEvolve, Contexts

-----------------------------------------------------------------------------
(***************************************************************************)
(* What a step does to the threads: thread t gets the events evs, threads  *)
(* may be added (without events), and nothing else of a trace is taken     *)
(* back.                                                                   *)
(***************************************************************************)
Grows(t, evs) ==
  /\ threads' \in Seq(ThreadRecords) /\ Len(threads) <= Len(threads')
  /\ \A u \in Tids :
       /\ threads'[u].spawnSite = threads[u].spawnSite
       /\ threads'[u].entry = threads[u].entry
       /\ u # t => threads'[u].events = threads[u].events
  /\ threads'[t].events = threads[t].events \o evs
  /\ \A u \in 1..Len(threads') : u \notin Tids => threads'[u].events = <<>>

SameChildren == \A u \in Tids : threads'[u].childThreads = threads[u].childThreads

\* What an event names when it is appended.
JoinOK(e) == e.fork # NoFork => e.type = "Join" /\ e.fork \in TaskForks

\* The fields of a thread.
LEMMA ThreadTyped ==
  ASSUME NEW trace \in Seq(ThreadRecords), NEW u \in 1..Len(trace)
  PROVE  /\ trace[u] \in ThreadRecords
         /\ trace[u].spawnSite \in PIDs \cup {NoSpawn}
         /\ trace[u].entry \in Entries
         /\ trace[u].events \in Seq(EventRecords)
         /\ trace[u].childThreads \in Seq(Positions)
         /\ trace[u].einfo \in Contexts
<1>1. trace[u] \in ThreadRecords
  OBVIOUS
<1>2. QED
  BY <1>1 DEF ThreadRecords

\* A process identifier is a thread and a position in it.
LEMMA EventPIDsAre ==
  ASSUME NEW n
  PROVE  n \in EventPIDs <=>
           /\ n = <<n[1], n[2]>> /\ n[1] \in DOMAIN threads
           /\ n[2] \in DOMAIN threads[n[1]].events
<1>1. n \in EventPIDs <=> \E t \in DOMAIN threads : n \in {t} \X DOMAIN threads[t].events
  BY DEF EventPIDs
<1>2. QED
  BY <1>1

\* The events after a step: the old ones, unchanged, and the appended ones.
LEMMA EventsGrow ==
  ASSUME Typed, NEW t \in Tids, NEW evs \in Seq(EventRecords), Grows(t, evs)
  PROVE  /\ \A n \in EventPIDs : n \in EventPIDs' /\ EventAt(n)' = EventAt(n)
         /\ \A n \in EventPIDs' : n \in EventPIDs \/
              \E k \in 1..Len(evs) :
                n = <<t, Len(threads[t].events) + k>> /\ EventAt(n)' = evs[k]
         /\ \A k \in 1..Len(evs) : \A n : n = <<t, Len(threads[t].events) + k>> =>
              n \in EventPIDs' /\ n \notin EventPIDs /\ EventAt(n)' = evs[k]
<1> DEFINE len == Len(threads[t].events)
<1>1. threads \in Seq(ThreadRecords) /\ threads' \in Seq(ThreadRecords)
  BY DEF Typed, Grows
<1>2. \A u \in Tids : threads[u].events \in Seq(EventRecords)
  BY <1>1, ThreadTyped DEF Tids
<1>3. \A u \in 1..Len(threads') : threads'[u].events \in Seq(EventRecords)
  BY <1>1, ThreadTyped
<1>4. \A n : n \in EventPIDs' <=>
           /\ n = <<n[1], n[2]>> /\ n[1] \in DOMAIN threads'
           /\ n[2] \in DOMAIN threads'[n[1]].events
  <2>1. TAKE n
  <2>2. n \in EventPIDs' <=> \E u \in DOMAIN threads' : n \in {u} \X DOMAIN threads'[u].events
    BY DEF EventPIDs
  <2>3. QED
    BY <2>2
<1>5. /\ len \in Nat
      /\ Len(threads'[t].events) = len + Len(evs)
      /\ \A i \in 1..len : threads'[t].events[i] = threads[t].events[i]
      /\ \A k \in 1..Len(evs) : threads'[t].events[len + k] = evs[k]
  <2>1. threads'[t].events = threads[t].events \o evs
    BY DEF Grows
  <2>2. threads[t].events \in Seq(EventRecords)
    BY <1>2
  <2>3. QED
    BY <2>1, <2>2
<1>6. ASSUME NEW n \in EventPIDs PROVE n \in EventPIDs' /\ EventAt(n)' = EventAt(n)
  <2>1. /\ n = <<n[1], n[2]>> /\ n[1] \in Tids
        /\ n[2] \in 1..Len(threads[n[1]].events)
    BY <1>1, <1>2, EventPIDsAre DEF Tids
  <2>2. n[1] \in DOMAIN threads' /\ n[1] \in 1..Len(threads')
    BY <1>1, <2>1 DEF Grows, Tids
  <2>3. /\ n[2] \in 1..Len(threads'[n[1]].events)
        /\ threads'[n[1]].events[n[2]] = threads[n[1]].events[n[2]]
    <3>1. CASE n[1] = t
      BY <1>5, <2>1, <3>1
    <3>2. CASE n[1] # t
      BY <2>1, <3>2 DEF Grows
    <3>3. QED
      BY <3>1, <3>2
  <2>4. n[2] \in DOMAIN threads'[n[1]].events
    BY <1>3, <2>2, <2>3
  <2>5. QED
    BY <1>4, <2>1, <2>2, <2>3, <2>4 DEF EventAt
<1>7. ASSUME NEW k \in 1..Len(evs), NEW n, n = <<t, len + k>>
      PROVE  n \in EventPIDs' /\ n \notin EventPIDs /\ EventAt(n)' = evs[k]
  <2>1. n[1] = t /\ n[2] = len + k
    BY <1>7
  <2>2. len + k \in 1..(len + Len(evs)) /\ len + k \notin 1..len
    BY <1>5
  <2>3. t \in DOMAIN threads' /\ len + k \in DOMAIN threads'[t].events
    BY <1>1, <1>3, <1>5, <2>2 DEF Grows, Tids
  <2>4. len + k \notin DOMAIN threads[t].events
    BY <1>2, <2>2
  <2>5. n \notin EventPIDs
    BY <2>1, <2>4, EventPIDsAre
  <2>6. n \in EventPIDs'
    BY <1>4, <1>7, <2>1, <2>3
  <2>7. EventAt(n)' = evs[k]
    BY <1>5, <2>1 DEF EventAt
  <2>8. QED
    BY <2>5, <2>6, <2>7
<1>8. ASSUME NEW n \in EventPIDs'
      PROVE  n \in EventPIDs \/
               \E k \in 1..Len(evs) : n = <<t, len + k>> /\ EventAt(n)' = evs[k]
  <2>1. /\ n = <<n[1], n[2]>> /\ n[1] \in 1..Len(threads')
        /\ n[2] \in 1..Len(threads'[n[1]].events)
    BY <1>1, <1>3, <1>4
  <2>2. CASE n[1] \notin Tids
    BY <2>1, <2>2 DEF Grows
  <2>3. CASE n[1] \in Tids /\ n[1] # t
    <3>1. n[1] \in DOMAIN threads /\ n[2] \in DOMAIN threads[n[1]].events
      BY <1>1, <1>2, <2>1, <2>3 DEF Grows, Tids
    <3>2. QED
      BY <2>1, <3>1, EventPIDsAre
  <2>4. CASE n[1] = t
    <3>1. CASE n[2] \in 1..len
      <4>1. n[1] \in DOMAIN threads /\ n[2] \in DOMAIN threads[n[1]].events
        BY <1>1, <1>2, <2>4, <3>1 DEF Tids
      <4>2. QED
        BY <2>1, <4>1, EventPIDsAre
    <3>2. CASE n[2] \notin 1..len
      <4>1. PICK k \in 1..Len(evs) : n[2] = len + k
        <5>1. n[2] \in 1..(len + Len(evs)) /\ Len(evs) \in Nat
          BY <1>5, <2>1, <2>4
        <5>2. n[2] - len \in 1..Len(evs) /\ n[2] = len + (n[2] - len)
          BY <1>5, <3>2, <5>1
        <5>3. QED
          BY <5>2
      <4>2. n = <<t, len + k>>
        BY <2>1, <2>4, <4>1
      <4>3. QED
        BY <1>7, <4>2
    <3>3. QED
      BY <3>1, <3>2
  <2>5. QED
    BY <2>2, <2>3, <2>4
<1>9. QED
  BY <1>6, <1>7, <1>8

\* Forks stay events, and no fork is added without a fork among evs.
LEMMA ForksGrow ==
  ASSUME Typed, NEW t \in Tids, NEW evs \in Seq(EventRecords), Grows(t, evs)
  PROVE  /\ ForkEvents \subseteq ForkEvents' /\ TaskForks \subseteq TaskForks'
         /\ \A n \in ForkEvents' : n \in ForkEvents \/
              \E k \in 1..Len(evs) :
                /\ n = <<t, Len(threads[t].events) + k>>
                /\ EventAt(n)' = evs[k] /\ evs[k].type = "Fork"
<1>1. ForkEvents \subseteq ForkEvents'
  BY EventsGrow DEF ForkEvents
<1>2. TaskForks \subseteq TaskForks'
  BY <1>1, EventsGrow DEF TaskForks, ForkEvents
<1>3. ASSUME NEW n \in ForkEvents', n \notin ForkEvents
      PROVE  \E k \in 1..Len(evs) :
               /\ n = <<t, Len(threads[t].events) + k>>
               /\ EventAt(n)' = evs[k] /\ evs[k].type = "Fork"
  <2>1. n \in EventPIDs' /\ EventAt(n)'.type = "Fork"
    BY DEF ForkEvents
  <2>2. n \notin EventPIDs
    BY <1>3, <2>1, EventsGrow DEF ForkEvents
  <2>3. QED
    BY <2>1, <2>2, EventsGrow
<1>4. QED
  BY <1>1, <1>2, <1>3

\* Joins go on naming the forks of tasks.
LEMMA JoinsKept ==
  ASSUME Typed, JoinInv, NEW t \in Tids, NEW evs \in Seq(EventRecords), Grows(t, evs),
         \A k \in 1..Len(evs) : JoinOK(evs[k]),
         ToSet(unjoinedTasks') \subseteq TaskForks'
  PROVE  JoinInv'
<1>1. ASSUME NEW n \in EventPIDs', EventAt(n)'.fork # NoFork
      PROVE  EventAt(n)'.type = "Join" /\ EventAt(n)'.fork \in TaskForks'
  <2>1. CASE n \in EventPIDs
    <3>1. EventAt(n)' = EventAt(n)
      BY <2>1, EventsGrow
    <3>2. EventAt(n).type = "Join" /\ EventAt(n).fork \in TaskForks
      BY <1>1, <2>1, <3>1 DEF JoinInv
    <3>3. QED
      BY <3>1, <3>2, ForksGrow
  <2>2. CASE n \notin EventPIDs
    <3>1. PICK k \in 1..Len(evs) : EventAt(n)' = evs[k]
      BY <2>2, EventsGrow
    <3>2. evs[k].type = "Join" /\ evs[k].fork \in TaskForks
      BY <1>1, <3>1 DEF JoinOK
    <3>3. QED
      BY <3>1, <3>2, ForksGrow
  <2>3. QED
    BY <2>1, <2>2
<1>2. ToSet(unjoinedTasks)' \subseteq TaskForks'
  BY DEF ToSet
<1>3. QED
  BY <1>1, <1>2 DEF JoinInv

\* The site a thread was spawned at is of a thread.
LEMMA SiteOfThread ==
  ASSUME Typed, SpawnInv, NEW u \in Tids, threads[u].spawnSite # NoSpawn
  PROVE  /\ threads[u].spawnSite \in EventPIDs
         /\ threads[u].spawnSite[1] \in Tids
<1>1. threads[u].spawnSite \in EventPIDs
  BY DEF SpawnInv, ForkEvents
<1>2. QED
  BY <1>1, EventPIDsAre DEF Typed, Tids

\* Forks and threads go on corresponding when neither is added.
LEMMA SpawnsKept ==
  ASSUME Typed, SpawnInv, NEW t \in Tids, NEW evs \in Seq(EventRecords), Grows(t, evs),
         Len(threads') = Len(threads),
         \A k \in 1..Len(evs) : evs[k].type # "Fork",
         \A u \in Tids :
           /\ ToSet(threads[u].childThreads) \subseteq ToSet(threads'[u].childThreads)
           /\ ToSet(threads'[u].childThreads) \subseteq Tids,
         \A u \in Tids : threads[u].spawnSite # NoSpawn /\ Starting(u)
                           => Starting(u)' \/ Listed(u)'
  PROVE  SpawnInv'
<1>1. Tids' = Tids
  BY DEF Tids
<1>2. \A u \in Tids : /\ threads'[u].spawnSite = threads[u].spawnSite
                      /\ threads'[u].entry = threads[u].entry
  BY DEF Grows
<1>3. ForkEvents' = ForkEvents
  BY ForksGrow
<1>4. ASSUME NEW u \in Tids, threads[u].spawnSite # NoSpawn
      PROVE  threads[u].spawnSite \in ForkEvents /\ (Listed(u)' \/ Starting(u)')
  <2>1. threads[u].spawnSite \in ForkEvents /\ (Listed(u) \/ Starting(u))
    BY <1>4 DEF SpawnInv
  <2>2. ASSUME Listed(u) PROVE Listed(u)'
    <3>1. threads[u].spawnSite[1] \in Tids
      BY <1>4, SiteOfThread
    <3>2. u \in ToSet(threads'[threads[u].spawnSite[1]].childThreads)
      BY <2>2, <3>1 DEF Listed
    <3>3. QED
      BY <1>2, <3>2 DEF Listed, ToSet
  <2>3. QED
    BY <1>4, <2>1, <2>2
<1>5. \A u \in Tids : threads'[u].spawnSite # NoSpawn =>
        threads'[u].spawnSite \in ForkEvents' /\ (Listed(u)' \/ Starting(u)')
  BY <1>2, <1>3, <1>4
<1>6. \A u, v \in Tids : u # v => threads'[u].spawnSite # threads'[v].spawnSite
  BY <1>2 DEF SpawnInv
<1>7. \A n \in ForkEvents' : \E u \in Tids :
        threads'[u].spawnSite = n /\ threads'[u].entry = EventAt(n)'.ir.entry
  <2>1. TAKE n \in ForkEvents'
  <2>2. n \in ForkEvents /\ EventAt(n)' = EventAt(n)
    BY <1>3, EventsGrow DEF ForkEvents
  <2>3. PICK u \in Tids : threads[u].spawnSite = n /\ threads[u].entry = EventAt(n).ir.entry
    BY <2>2 DEF SpawnInv
  <2>4. QED
    BY <1>2, <2>2, <2>3
<1>8. \A u \in Tids : ToSet(threads'[u].childThreads) \subseteq Tids
  OBVIOUS
<1>9. QED
  BY <1>1, <1>5, <1>6, <1>7, <1>8 DEF SpawnInv, ToSet

\* A fork and the thread it starts go together.
LEMMA SpawnAdded ==
  ASSUME Typed, SpawnInv, NEW t \in Tids, NEW evs \in Seq(EventRecords), Grows(t, evs),
         Len(evs) = 1, evs[1].type = "Fork",
         NEW new, new = Len(threads) + 1, Len(threads') = new,
         threads'[new].spawnSite = <<t, Len(threads[t].events) + 1>>,
         threads'[new].entry = evs[1].ir.entry,
         threads'[new].childThreads = <<>>,
         SameChildren,
         \A u \in Tids : Starting(u) => Starting(u)',
         Starting(new)'
  PROVE  SpawnInv'
<1> DEFINE site == <<t, Len(threads[t].events) + 1>>
<1>1. Len(threads) \in Nat
  BY DEF Typed
<1>2. 1..Len(threads') = Tids \cup {new} /\ new \notin Tids
  BY <1>1 DEF Tids
<1>3. \A n : n = site => n \in EventPIDs' /\ n \notin EventPIDs /\ EventAt(n)' = evs[1]
  BY EventsGrow
<1>4. site \in EventPIDs' /\ site \notin EventPIDs
  BY <1>3
<1>5. \A n : n = site => EventAt(n)' = evs[1]
  BY <1>3
<1>6. ForkEvents' = ForkEvents \cup {site}
  <2>1. \A n : n = site => n \in ForkEvents'
    BY <1>4, <1>5 DEF ForkEvents
  <2>2. \A n \in ForkEvents' : n \in ForkEvents \/ n = site
    BY ForksGrow
  <2>3. ForkEvents \subseteq ForkEvents'
    BY ForksGrow
  <2>4. site \in ForkEvents'
    BY <2>1
  <2>5. QED
    BY <2>2, <2>3, <2>4
<1>7. site # NoSpawn
  <2>1. Len(threads[t].events) + 1 \in Nat \ {0} /\ t \in Nat \ {0}
    BY <1>1, ThreadTyped DEF Typed, Tids
  <2>2. QED
    BY <2>1, NoneAssumption
<1>8. \A u \in Tids : /\ threads'[u].spawnSite = threads[u].spawnSite
                      /\ threads'[u].entry = threads[u].entry
                      /\ threads'[u].childThreads = threads[u].childThreads
  BY DEF Grows, SameChildren
<1>9. \A u \in Tids : threads[u].spawnSite # site
  BY <1>4, <1>7, SiteOfThread
<1>10. ASSUME NEW u \in Tids, threads[u].spawnSite # NoSpawn
       PROVE  threads[u].spawnSite \in ForkEvents' /\ (Listed(u)' \/ Starting(u)')
  <2>1. threads[u].spawnSite \in ForkEvents /\ (Listed(u) \/ Starting(u))
    BY <1>10 DEF SpawnInv
  <2>2. ASSUME Listed(u) PROVE Listed(u)'
    <3>1. threads[u].spawnSite[1] \in Tids
      BY <1>10, SiteOfThread
    <3>2. u \in ToSet(threads'[threads[u].spawnSite[1]].childThreads)
      BY <1>8, <2>2, <3>1 DEF Listed
    <3>3. QED
      BY <1>8, <3>2 DEF Listed, ToSet
  <2>3. QED
    BY <1>6, <2>1, <2>2
<1>11. \A u \in Tids \cup {new} : threads'[u].spawnSite # NoSpawn =>
        threads'[u].spawnSite \in ForkEvents' /\ (Listed(u)' \/ Starting(u)')
  BY <1>6, <1>8, <1>10
<1>12. \A u, v \in Tids \cup {new} : u # v => threads'[u].spawnSite # threads'[v].spawnSite
  BY <1>8, <1>9 DEF SpawnInv
<1>13. \A n \in ForkEvents' : \E u \in Tids \cup {new} :
         threads'[u].spawnSite = n /\ threads'[u].entry = EventAt(n)'.ir.entry
  <2>1. TAKE n \in ForkEvents'
  <2>2. CASE n = site
    BY <1>5, <2>2
  <2>3. CASE n # site
    <3>1. n \in ForkEvents /\ EventAt(n)' = EventAt(n)
      BY <1>6, <2>3, EventsGrow DEF ForkEvents
    <3>2. PICK u \in Tids : threads[u].spawnSite = n /\ threads[u].entry = EventAt(n).ir.entry
      BY <3>1 DEF SpawnInv
    <3>3. QED
      BY <1>8, <3>1, <3>2
  <2>4. QED
    BY <2>2, <2>3
<1>14. \A u \in Tids \cup {new} : ToSet(threads'[u].childThreads) \subseteq Tids \cup {new}
  <2>1. ToSet(threads'[new].childThreads) = {}
    BY DEF ToSet
  <2>2. QED
    BY <1>8, <2>1 DEF SpawnInv
<1>15. Tids' = Tids \cup {new}
  BY <1>2 DEF Tids
<1>16. QED
  BY <1>11, <1>12, <1>13, <1>14, <1>15 DEF SpawnInv, ToSet

-----------------------------------------------------------------------------
(***************************************************************************)
(* The steps that stay in the running activation.                          *)
(***************************************************************************)
\* Step only moves the position of the frame on top.
LEMMA StepMovesTop ==
  ASSUME NEW s \in Seq(FrameRecords), s # <<>>
  PROVE  /\ Step(s) \in Seq(FrameRecords) /\ Len(Step(s)) = Len(s)
         /\ \A i \in 1..Len(s) :
              Step(s)[i] = IF i = Len(s) THEN [s[i] EXCEPT !.pos = @ + 1] ELSE s[i]
         /\ \A i \in 1..Len(s) :
              /\ Step(s)[i].tid = s[i].tid /\ Step(s)[i].fn = s[i].fn
              /\ Step(s)[i].pos = IF i = Len(s) THEN s[i].pos + 1 ELSE s[i].pos
<1>1. Len(s) \in 1..Len(s)
  OBVIOUS
<1> DEFINE top == [s[Len(s)] EXCEPT !.pos = @ + 1]
<1>2. s[Len(s)] \in FrameRecords
  BY <1>1
<1>3. /\ top \in FrameRecords
      /\ top.tid = s[Len(s)].tid /\ top.fn = s[Len(s)].fn /\ top.pos = s[Len(s)].pos + 1
  BY <1>2 DEF FrameRecords, Positions
<1>4. Step(s) = [s EXCEPT ![Len(s)] = top]
  BY DEF Step
<1> HIDE DEF top
<1>5. Step(s) \in Seq(FrameRecords) /\ Len(Step(s)) = Len(s)
  BY <1>1, <1>3, <1>4
<1>6. \A i \in 1..Len(s) : Step(s)[i] = IF i = Len(s) THEN top ELSE s[i]
  BY <1>1, <1>4
<1>7. QED
  BY <1>3, <1>5, <1>6 DEF top

\* A thread is exchanged for one with the same site and entry and more events.
LEMMA ThreadReplaced ==
  ASSUME Typed, NEW t \in Tids, NEW r \in ThreadRecords, NEW evs \in Seq(EventRecords),
         threads' = [threads EXCEPT ![t] = r],
         r.spawnSite = threads[t].spawnSite, r.entry = threads[t].entry,
         r.events = threads[t].events \o evs
  PROVE  /\ Grows(t, evs) /\ Len(threads') = Len(threads)
         /\ threads'[t] = r /\ \A u \in Tids : u # t => threads'[u] = threads[u]
<1>1. threads \in Seq(ThreadRecords) /\ t \in 1..Len(threads)
  BY DEF Typed, Tids
<1>2. /\ threads' \in Seq(ThreadRecords) /\ Len(threads') = Len(threads)
      /\ threads'[t] = r /\ \A u \in Tids : u # t => threads'[u] = threads[u]
  BY <1>1 DEF Tids
<1>3. Len(threads) <= Len(threads') /\ 1..Len(threads') = Tids
  BY <1>1, <1>2 DEF Tids
<1>4. QED
  BY <1>2, <1>3 DEF Grows

\* Emit appends events to the running thread.
LEMMA EmitGrows ==
  ASSUME Typed, StackInv, status = "building", NEW evs \in Seq(EventRecords),
         threads' = Emit(evs)
  PROVE  Grows(Tid, evs) /\ Len(threads') = Len(threads) /\ SameChildren
<1>1. /\ Tid \in Tids /\ Thread \in ThreadRecords /\ Thread = threads[Tid]
      /\ threads \in Seq(ThreadRecords)
  BY TopTyped DEF Thread, Typed
<1> DEFINE r == [Thread EXCEPT !.events = @ \o evs, !.skipUntil = NoInst]
<1>2. Thread.events \o evs \in Seq(EventRecords) /\ NoInst \in Insts
  BY <1>1 DEF ThreadRecords, Insts
<1>3. /\ r \in ThreadRecords /\ r.spawnSite = Thread.spawnSite /\ r.entry = Thread.entry
      /\ r.events = Thread.events \o evs /\ r.childThreads = Thread.childThreads
  BY <1>1, <1>2 DEF ThreadRecords
<1>4. threads' = [threads EXCEPT ![Tid] = r]
  BY <1>1 DEF Emit, Tids
<1> HIDE DEF r
<1>5. /\ Grows(Tid, evs) /\ Len(threads') = Len(threads)
      /\ threads'[Tid] = r /\ \A u \in Tids : u # Tid => threads'[u] = threads[u]
  <2>1. /\ r.spawnSite = threads[Tid].spawnSite /\ r.entry = threads[Tid].entry
        /\ r.events = threads[Tid].events \o evs
    BY <1>1, <1>3
  <2>2. QED
    BY <1>1, <1>3, <1>4, <2>1, ThreadReplaced
<1>6. QED
  BY <1>1, <1>3, <1>5 DEF SameChildren

\* Where nothing is appended.
LEMMA NothingGrows ==
  ASSUME Typed, NEW t \in Tids, UNCHANGED threads
  PROVE  Grows(t, <<>>) /\ Len(threads') = Len(threads) /\ SameChildren
<1>1. threads \in Seq(ThreadRecords)
  BY DEF Typed
<1>2. threads[t].events \o <<>> = threads[t].events
  BY <1>1, ThreadTyped DEF Tids
<1>3. QED
  BY <1>1, <1>2 DEF Grows, SameChildren, Tids

\* The stack after a step over the IR at hand.
LEMMA StackAdvances ==
  ASSUME Typed, StackInv, HasIR, stack' = Step(stack), Continue,
         NEW evs, Grows(Tid, evs), Len(threads') = Len(threads)
  PROVE  /\ StackInv' /\ stack' \in Seq(FrameRecords)
         /\ \A u \in Tids : Starting(u) => Starting(u)'
<1>1. stack \in Seq(FrameRecords) /\ stack # <<>> /\ status = "building" /\ Len(stack) \in Nat
  BY DEF Typed, StackInv, HasIR
<1>2. /\ stack' \in Seq(FrameRecords) /\ Len(stack') = Len(stack)
      /\ \A i \in 1..Len(stack) :
           /\ stack'[i].tid = stack[i].tid /\ stack'[i].fn = stack[i].fn
           /\ stack'[i].pos = IF i = Len(stack) THEN stack[i].pos + 1 ELSE stack[i].pos
  BY <1>1, StepMovesTop
<1>3. Tids' = Tids
  BY DEF Tids
<1>4. program' = program /\ status' = "building"
  BY <1>1 DEF Continue
<1>5. \A u \in Tids : threads'[u].spawnSite = threads[u].spawnSite
  BY DEF Grows
<1>6. stack' # <<>>
  BY <1>1, <1>2
<1>7. ASSUME NEW i \in 1..Len(stack')
      PROVE  /\ stack'[i].tid \in Tids'
             /\ stack'[i].fn \in DOMAIN program'.body
             /\ stack'[i].pos <= Len(program'.body[stack'[i].fn]) + 1
             /\ i < Len(stack') => stack'[i].pos <= Len(program'.body[stack'[i].fn])
  <2>1. i \in 1..Len(stack)
    BY <1>2
  <2>2. CASE i = Len(stack)
    <3>1. Top.pos \in 1..Len(program.body[Top.fn]) /\ program.body[Top.fn] \in Seq(IRs)
      BY <1>1, IRTyped, TopTyped
    <3>2. stack'[i].fn = Top.fn /\ stack'[i].pos = Top.pos + 1
      BY <1>2, <2>1, <2>2 DEF Top
    <3>3. QED
      BY <1>2, <1>3, <1>4, <2>1, <2>2, <3>1, <3>2 DEF StackInv
  <2>3. CASE i # Len(stack)
    BY <1>2, <1>3, <1>4, <2>1, <2>3 DEF StackInv
  <2>4. QED
    BY <2>2, <2>3
<1>8. ASSUME NEW i \in 2..Len(stack'), stack'[i].tid # stack'[i - 1].tid
      PROVE  /\ threads'[stack'[i].tid].spawnSite \in PIDs
             /\ threads'[stack'[i].tid].spawnSite[1] = stack'[i - 1].tid
  <2>1. i \in 1..Len(stack) /\ i - 1 \in 1..Len(stack) /\ i \in 2..Len(stack)
    BY <1>1, <1>2
  <2>2. stack'[i].tid = stack[i].tid /\ stack'[i - 1].tid = stack[i - 1].tid
    BY <1>2, <2>1
  <2>3. stack[i].tid \in Tids
    BY <2>1 DEF StackInv
  <2>4. QED
    BY <1>5, <1>8, <2>1, <2>2, <2>3 DEF StackInv
<1>9. \A u \in Tids : Starting(u) => Starting(u)'
  BY <1>1, <1>2 DEF Starting
<1>10. QED
  BY <1>2, <1>4, <1>6, <1>7, <1>8, <1>9 DEF StackInv

\* A step that appends no fork and starts no thread keeps the invariant.
LEMMA NoForkKeeps ==
  ASSUME Inv, NEW t \in Tids, NEW evs \in Seq(EventRecords), Grows(t, evs),
         Continue, StackInv', stack' \in Seq(FrameRecords),
         Len(threads') = Len(threads),
         \A k \in 1..Len(evs) : evs[k].type # "Fork" /\ JoinOK(evs[k]),
         \A u \in Tids :
           /\ ToSet(threads[u].childThreads) \subseteq ToSet(threads'[u].childThreads)
           /\ ToSet(threads'[u].childThreads) \subseteq Tids,
         \A u \in Tids : threads[u].spawnSite # NoSpawn /\ Starting(u)
                           => Starting(u)' \/ Listed(u)',
         masterRegions' \subseteq Insts \X Insts, currentMasterStart' \in Insts,
         unjoinedTasks' \in Seq(PIDs), ToSet(unjoinedTasks') \subseteq TaskForks'
  PROVE  Inv'
<1>1. Typed /\ SpawnInv /\ JoinInv /\ FlatInv
  BY DEF Inv
<1>2. Typed'
  <2>1. threads' \in Seq(ThreadRecords) /\ threads' # <<>>
    BY <1>1 DEF Grows, Typed
  <2>2. QED
    BY <1>1, <2>1 DEF Typed, Continue
<1>3. SpawnInv'
  BY <1>1, SpawnsKept
<1>4. JoinInv'
  BY <1>1, JoinsKept
<1>5. FlatInv'
  BY <1>1 DEF FlatInv, Continue, Tids
<1>6. QED
  BY <1>2, <1>3, <1>4, <1>5 DEF Inv

\* So does a step over the IR at hand.
LEMMA AdvanceKeeps ==
  ASSUME Inv, HasIR, stack' = Step(stack), Continue,
         NEW evs \in Seq(EventRecords), Grows(Tid, evs),
         Len(threads') = Len(threads), SameChildren,
         \A k \in 1..Len(evs) : evs[k].type # "Fork" /\ JoinOK(evs[k]),
         masterRegions' \subseteq Insts \X Insts, currentMasterStart' \in Insts,
         unjoinedTasks' \in Seq(PIDs), ToSet(unjoinedTasks') \subseteq TaskForks'
  PROVE  Inv'
<1>1. Typed /\ StackInv /\ SpawnInv /\ Tid \in Tids
  BY TopTyped DEF Inv, HasIR
<1>2. /\ StackInv' /\ stack' \in Seq(FrameRecords)
      /\ \A u \in Tids : Starting(u) => Starting(u)'
  BY <1>1, StackAdvances
<1>3. \A u \in Tids :
        /\ ToSet(threads[u].childThreads) \subseteq ToSet(threads'[u].childThreads)
        /\ ToSet(threads'[u].childThreads) \subseteq Tids
  BY <1>1 DEF SameChildren, SpawnInv
<1>4. QED
  BY <1>1, <1>2, <1>3, NoForkKeeps

\* The tasks still to join are forks after the step too.
LEMMA TasksStay ==
  ASSUME Inv, HasIR, NEW evs \in Seq(EventRecords), Grows(Tid, evs), UNCHANGED runtimeVars
  PROVE  /\ masterRegions' \subseteq Insts \X Insts /\ currentMasterStart' \in Insts
         /\ unjoinedTasks' \in Seq(PIDs) /\ ToSet(unjoinedTasks') \subseteq TaskForks'
<1>1. Typed /\ StackInv /\ JoinInv /\ Tid \in Tids
  BY TopTyped DEF Inv, HasIR
<1>2. TaskForks \subseteq TaskForks'
  BY <1>1, ForksGrow
<1>3. QED
  BY <1>1, <1>2 DEF Typed, JoinInv, runtimeVars

\* A step that appends no event and leaves the runtime model alone.
LEMMA SilentKeeps ==
  ASSUME Inv, HasIR, stack' = Step(stack), Continue, Grows(Tid, <<>>),
         Len(threads') = Len(threads), SameChildren, UNCHANGED runtimeVars
  PROVE  Inv'
<1> DEFINE evs == <<>>
<1>1. evs \in Seq(EventRecords) /\ Grows(Tid, evs) /\ \A k \in 1..Len(evs) : FALSE
  OBVIOUS
<1> HIDE DEF evs
<1>2. /\ masterRegions' \subseteq Insts \X Insts /\ currentMasterStart' \in Insts
      /\ unjoinedTasks' \in Seq(PIDs) /\ ToSet(unjoinedTasks') \subseteq TaskForks'
  BY <1>1, TasksStay
<1>3. \A k \in 1..Len(evs) : evs[k].type # "Fork" /\ JoinOK(evs[k])
  BY <1>1
<1>4. QED
  BY <1>1, <1>2, <1>3, AdvanceKeeps

\* No event is appended by an IR that is passed over.
LEMMA PassKeeps ==
  ASSUME Inv, HasIR, Pass
  PROVE  Inv'
<1>1. Typed /\ StackInv /\ status = "building"
  BY DEF Inv, HasIR
<1>2. <<>> \in Seq(EventRecords)
  OBVIOUS
<1>3. Grows(Tid, <<>>) /\ Len(threads') = Len(threads) /\ SameChildren
  BY <1>1, <1>2, EmitGrows DEF Pass
<1>4. QED
  BY <1>3, SilentKeeps DEF Pass

\* A skipped IR leaves the threads as they are.
LEMMA SkipToTargetKeeps ==
  ASSUME Inv, SkipToTarget
  PROVE  Inv'
<1>1. HasIR /\ Typed /\ StackInv /\ Tid \in Tids
  BY TopTyped DEF Inv, SkipToTarget, HasIR
<1>2. Grows(Tid, <<>>) /\ Len(threads') = Len(threads) /\ SameChildren
  BY <1>1, NothingGrows DEF SkipToTarget
<1>3. QED
  BY <1>1, <1>2, SilentKeeps DEF SkipToTarget, runtimeVars

\* The end of a skipped master region is an instruction of the program.
LEMMA SkipMasterRegionKeeps ==
  ASSUME Inv, SkipMasterRegion
  PROVE  Inv'
<1>1. /\ HasIR /\ Typed /\ StackInv /\ Tid \in Tids /\ threads \in Seq(ThreadRecords)
      /\ threads[Tid] \in ThreadRecords
  BY TopTyped, ThreadTyped
     DEF Inv, SkipMasterRegion, Unskipped, Reached, HasIR, Typed, Tids
<1>2. PICK region \in masterRegions :
        threads' = [threads EXCEPT ![Tid].skipUntil = region[2]]
  BY DEF SkipMasterRegion
<1>3. region[2] \in Insts
  BY <1>1 DEF Typed
<1> DEFINE r == [threads[Tid] EXCEPT !.skipUntil = region[2]]
<1>4. /\ r \in ThreadRecords /\ r.spawnSite = threads[Tid].spawnSite
      /\ r.entry = threads[Tid].entry /\ r.events = threads[Tid].events
      /\ r.childThreads = threads[Tid].childThreads
  BY <1>1, <1>3 DEF ThreadRecords
<1>5. threads' = [threads EXCEPT ![Tid] = r]
  BY <1>1, <1>2 DEF Tids
<1> HIDE DEF r
<1>6. <<>> \in Seq(EventRecords) /\ r.events = threads[Tid].events \o <<>>
  BY <1>1, <1>4, ThreadTyped DEF Tids
<1>7. /\ Grows(Tid, <<>>) /\ Len(threads') = Len(threads)
      /\ threads'[Tid] = r /\ \A u \in Tids : u # Tid => threads'[u] = threads[u]
  BY <1>1, <1>4, <1>5, <1>6, ThreadReplaced
<1>8. SameChildren
  BY <1>4, <1>7 DEF SameChildren
<1>9. QED
  BY <1>1, <1>7, <1>8, SilentKeeps DEF SkipMasterRegion

-----------------------------------------------------------------------------
(***************************************************************************)
(* The steps the runtime model sees.                                       *)
(***************************************************************************)
\* The elements of a concatenation.
LEMMA ElementsOf ==
  ASSUME NEW S, NEW a \in Seq(S), NEW b \in Seq(S)
  PROVE  ToSet(a \o b) = ToSet(a) \cup ToSet(b)
<1>1. /\ a \o b \in Seq(S) /\ Len(a) \in Nat /\ Len(b) \in Nat
      /\ Len(a \o b) = Len(a) + Len(b)
      /\ \A i \in 1..Len(a) : (a \o b)[i] = a[i]
      /\ \A i \in 1..Len(b) : (a \o b)[Len(a) + i] = b[i]
  OBVIOUS
<1>2. \A x \in ToSet(a \o b) : x \in ToSet(a) \cup ToSet(b)
  <2>1. TAKE x \in ToSet(a \o b)
  <2>2. PICK i \in 1..Len(a \o b) : x = (a \o b)[i]
    BY <1>1 DEF ToSet
  <2>3. CASE i \in 1..Len(a)
    BY <1>1, <2>2, <2>3 DEF ToSet
  <2>4. CASE i \notin 1..Len(a)
    <3>1. i - Len(a) \in 1..Len(b) /\ i = Len(a) + (i - Len(a))
      BY <1>1, <2>4
    <3>2. x = b[i - Len(a)]
      BY <1>1, <2>2, <3>1
    <3>3. QED
      BY <3>1, <3>2 DEF ToSet
  <2>5. QED
    BY <2>3, <2>4
<1>3. \A x \in ToSet(a) : x \in ToSet(a \o b)
  <2>1. TAKE x \in ToSet(a)
  <2>2. PICK i \in 1..Len(a) : x = a[i]
    BY DEF ToSet
  <2>3. i \in 1..Len(a \o b) /\ x = (a \o b)[i]
    BY <1>1, <2>2
  <2>4. QED
    BY <1>1, <2>3 DEF ToSet
<1>4. \A x \in ToSet(b) : x \in ToSet(a \o b)
  <2>1. TAKE x \in ToSet(b)
  <2>2. PICK i \in 1..Len(b) : x = b[i]
    BY DEF ToSet
  <2>3. Len(a) + i \in 1..Len(a \o b) /\ x = (a \o b)[Len(a) + i]
    BY <1>1, <2>2
  <2>4. QED
    BY <1>1, <2>3 DEF ToSet
<1>5. QED
  BY <1>2, <1>3, <1>4

\* Every event of the trace is typed.
LEMMA EventAtTyped ==
  ASSUME Typed, NEW n \in EventPIDs
  PROVE  EventAt(n) \in EventRecords
<1>1. /\ n[1] \in 1..Len(threads) /\ n[2] \in DOMAIN threads[n[1]].events
      /\ threads \in Seq(ThreadRecords)
  BY EventPIDsAre DEF Typed
<1>2. threads[n[1]].events \in Seq(EventRecords)
  BY <1>1, ThreadTyped
<1>3. QED
  BY <1>1, <1>2 DEF EventAt

\* The joins of the unjoined tasks name the forks of those tasks.
LEMMA TaskJoinsTyped ==
  ASSUME Inv, HasIR
  PROVE  /\ TaskJoins \in Seq(EventRecords)
         /\ \A k \in 1..Len(TaskJoins) : TaskJoins[k].type = "Join" /\ JoinOK(TaskJoins[k])
<1>1. Typed /\ StackInv /\ JoinInv /\ status = "building" /\ unjoinedTasks \in Seq(PIDs)
  BY DEF Inv, HasIR, Typed
<1>2. CASE ~JoinsTasks
  <2>1. TaskJoins = <<>>
    BY <1>2 DEF TaskJoins
  <2>2. QED
    BY <2>1
<1>3. CASE JoinsTasks
  <2> DEFINE task(i) == EventAt(unjoinedTasks[i]).ir
             ir(i) == [type |-> "OpenMPTaskJoin", inst |-> task(i).inst,
                       handle |-> task(i).entry]
             join(i) == [NewEvent("Join", ir(i)) EXCEPT !.fork = unjoinedTasks[i]]
  <2>1. TaskJoins = [i \in DOMAIN unjoinedTasks |-> join(i)]
    BY <1>3 DEF TaskJoins
  <2>2. ASSUME NEW i \in 1..Len(unjoinedTasks)
        PROVE  /\ join(i) \in EventRecords /\ join(i).type = "Join"
               /\ join(i).fork \in TaskForks
    <3>1. unjoinedTasks[i] \in TaskForks /\ unjoinedTasks[i] \in PIDs
      BY <1>1 DEF JoinInv, ToSet
    <3>2. /\ EventAt(unjoinedTasks[i]) \in EventRecords
          /\ task(i).type = "OpenMPTaskFork"
      BY <1>1, <3>1, EventAtTyped DEF TaskForks, ForkEvents
    <3>3. task(i) \in IRs \cup TaskJoinIRs
      BY <3>2 DEF EventRecords
    <3>4. task(i) \in ForkIRs
      <4>1. \A j \in TaskJoinIRs : j.type = "OpenMPTaskJoin"
        BY DEF TaskJoinIRs
      <4>2. "OpenMPTaskFork" # "OpenMPTaskJoin" /\ "OpenMPTaskFork" \in ForkTypes
        BY DEF ForkTypes
      <4> HIDE DEF task
      <4>3. task(i) \in IRs
        BY <3>2, <3>3, <4>1, <4>2
      <4>4. QED
        BY <3>2, <4>2, <4>3 DEF ForkIRs
    <3>5. ir(i) \in TaskJoinIRs
      BY <3>4 DEF TaskJoinIRs
    <3> HIDE DEF ir
    <3>6. /\ NewEvent("Join", ir(i)) \in EventRecords
          /\ NewEvent("Join", ir(i)).type = "Join"
      BY <1>1, <3>5, NewEventTyped DEF EventTypes
    <3>7. QED
      BY <3>1, <3>6 DEF EventRecords
  <2> HIDE DEF join
  <2>3. DOMAIN unjoinedTasks = 1..Len(unjoinedTasks) /\ Len(unjoinedTasks) \in Nat
    BY <1>1
  <2>4. /\ TaskJoins \in Seq(EventRecords) /\ Len(TaskJoins) = Len(unjoinedTasks)
        /\ \A k \in 1..Len(TaskJoins) : TaskJoins[k] = join(k)
    BY <2>1, <2>2, <2>3
  <2>5. QED
    BY <2>2, <2>4 DEF JoinOK
<1>4. QED
  BY <1>2, <1>3

\* What preVisit leaves in the runtime model is typed, and the tasks are forks.
LEMMA PreVisitTyped ==
  ASSUME Inv, HasIR, NEW evs \in Seq(EventRecords), Grows(Tid, evs),
         NEW newTasks \in Seq(PIDs), ToSet(newTasks) \subseteq TaskForks',
         PreVisit(newTasks)
  PROVE  /\ masterRegions' \subseteq Insts \X Insts /\ currentMasterStart' \in Insts
         /\ unjoinedTasks' \in Seq(PIDs) /\ ToSet(unjoinedTasks') \subseteq TaskForks'
<1>1. /\ Typed /\ StackInv /\ JoinInv /\ Tid \in Tids /\ unjoinedTasks \in Seq(PIDs)
      /\ masterRegions \subseteq Insts \X Insts /\ currentMasterStart \in Insts
  BY TopTyped DEF Inv, HasIR, Typed
<1>2. IRNow.inst \in Insts /\ NoInst \in Insts
  BY <1>1, IRTyped DEF Insts
<1>3. masterRegions' \subseteq Insts \X Insts /\ currentMasterStart' \in Insts
  BY <1>1, <1>2 DEF PreVisit
<1>4. TasksLeft \in Seq(PIDs) /\ ToSet(TasksLeft) \subseteq TaskForks
  <2>1. ToSet(<<>>) = {}
    BY DEF ToSet
  <2>2. QED
    BY <1>1, <2>1 DEF TasksLeft, JoinInv
<1>5. TaskForks \subseteq TaskForks'
  BY <1>1, ForksGrow
<1>6. unjoinedTasks' = TasksLeft \o newTasks
  BY DEF PreVisit
<1>7. ToSet(TasksLeft \o newTasks) = ToSet(TasksLeft) \cup ToSet(newTasks)
  BY <1>4, ElementsOf
<1>8. QED
  BY <1>3, <1>4, <1>5, <1>6, <1>7

\* A step that emits events other than forks and starts no thread.
LEMMA EmitKeeps ==
  ASSUME Inv, HasIR, stack' = Step(stack), Continue, NEW evs \in Seq(EventRecords),
         \A k \in 1..Len(evs) : evs[k].type # "Fork" /\ JoinOK(evs[k]),
         threads' = Emit(evs), PreVisit(<<>>) \/ UNCHANGED runtimeVars
  PROVE  Inv'
<1>1. Grows(Tid, evs) /\ Len(threads') = Len(threads) /\ SameChildren
  BY EmitGrows DEF Inv, HasIR
<1>2. <<>> \in Seq(PIDs) /\ ToSet(<<>>) = {}
  BY DEF ToSet
<1>3. /\ masterRegions' \subseteq Insts \X Insts /\ currentMasterStart' \in Insts
      /\ unjoinedTasks' \in Seq(PIDs) /\ ToSet(unjoinedTasks') \subseteq TaskForks'
  <2>1. CASE PreVisit(<<>>)
    BY <1>1, <1>2, <2>1, PreVisitTyped
  <2>2. CASE UNCHANGED runtimeVars
    BY <1>1, <2>2, TasksStay
  <2>3. QED
    BY <2>1, <2>2
<1>4. QED
  BY <1>1, <1>3, AdvanceKeeps

\* The joins of the tasks come before the event of the IR.
LEMMA AfterTaskJoins ==
  ASSUME Inv, HasIR, NEW type \in EventTypes, type # "Fork"
  PROVE  LET evs == Append(TaskJoins, NewEvent(type, IRNow))
         IN  /\ evs \in Seq(EventRecords)
             /\ \A k \in 1..Len(evs) : evs[k].type # "Fork" /\ JoinOK(evs[k])
<1> DEFINE e == NewEvent(type, IRNow)
           evs == Append(TaskJoins, e)
<1>1. e \in EventRecords /\ e.type = type /\ e.fork = NoFork
  BY IRTyped, NewEventTyped DEF Inv, HasIR
<1> HIDE DEF e
<1>2. /\ TaskJoins \in Seq(EventRecords)
      /\ \A k \in 1..Len(TaskJoins) : TaskJoins[k].type = "Join" /\ JoinOK(TaskJoins[k])
  BY TaskJoinsTyped
<1>3. /\ evs \in Seq(EventRecords) /\ Len(TaskJoins) \in Nat
      /\ Len(evs) = Len(TaskJoins) + 1 /\ evs[Len(TaskJoins) + 1] = e
      /\ \A k \in 1..Len(TaskJoins) : evs[k] = TaskJoins[k]
  BY <1>1, <1>2
<1>4. ASSUME NEW k \in 1..Len(evs) PROVE evs[k].type # "Fork" /\ JoinOK(evs[k])
  <2>1. CASE k \in 1..Len(TaskJoins)
    BY <1>2, <1>3, <2>1
  <2>2. CASE k = Len(TaskJoins) + 1
    BY <1>1, <1>3, <2>2 DEF JoinOK
  <2>3. QED
    BY <1>3, <2>1, <2>2
<1>5. QED
  BY <1>3, <1>4 DEF e

\* A read, write, join, lock, unlock or barrier.
LEMMA VisitEventKeeps ==
  ASSUME Inv, VisitEvent
  PROVE  Inv'
<1>1. HasIR
  BY DEF VisitEvent, Visited, Unskipped, Reached
<1> DEFINE evs == Append(TaskJoins, NewEvent(Kind(IRNow), IRNow))
<1>2. Kind(IRNow) \in EventTypes /\ Kind(IRNow) # "Fork"
  BY KindTyped DEF VisitEvent
<1>3. /\ evs \in Seq(EventRecords)
      /\ \A k \in 1..Len(evs) : evs[k].type # "Fork" /\ JoinOK(evs[k])
  BY <1>1, <1>2, AfterTaskJoins
<1>4. stack' = Step(stack) /\ Continue /\ threads' = Emit(evs) /\ PreVisit(<<>>)
  BY DEF VisitEvent
<1> HIDE DEF evs
<1>5. QED
  BY <1>1, <1>3, <1>4, EmitKeeps

\* A call of a function that is only declared.
LEMMA VisitExternCallKeeps ==
  ASSUME Inv, VisitExternCall
  PROVE  Inv'
<1>1. HasIR
  BY DEF VisitExternCall, Visited, Unskipped, Reached
<1> DEFINE evs == Append(TaskJoins, NewEvent("ExternCall", IRNow))
<1>2. "ExternCall" \in EventTypes /\ "ExternCall" # "Fork"
  BY DEF EventTypes
<1>3. /\ evs \in Seq(EventRecords)
      /\ \A k \in 1..Len(evs) : evs[k].type # "Fork" /\ JoinOK(evs[k])
  BY <1>1, <1>2, AfterTaskJoins
<1>4. stack' = Step(stack) /\ Continue /\ threads' = Emit(evs) /\ PreVisit(<<>>)
  BY DEF VisitExternCall
<1> HIDE DEF evs
<1>5. QED
  BY <1>1, <1>3, <1>4, EmitKeeps

\* A recursive call enters and leaves.
LEMMA VisitRecursiveCallKeeps ==
  ASSUME Inv, VisitRecursiveCall
  PROVE  Inv'
<1>1. HasIR
  BY DEF VisitRecursiveCall, Visited, Unskipped, Reached
<1> DEFINE enter == NewEvent("EnterCall", IRNow)
           leave == NewEvent("LeaveCall", IRNow)
<1>2. /\ enter \in EventRecords /\ enter.type = "EnterCall" /\ enter.fork = NoFork
      /\ leave \in EventRecords /\ leave.type = "LeaveCall" /\ leave.fork = NoFork
  <2>1. "EnterCall" \in EventTypes /\ "LeaveCall" \in EventTypes
    BY DEF EventTypes
  <2>2. IRNow \in IRs /\ Typed /\ StackInv /\ status = "building"
    BY <1>1, IRTyped DEF Inv, HasIR
  <2>3. QED
    BY <2>1, <2>2, NewEventTyped
<1>3. /\ stack' = Step(stack) /\ Continue /\ threads' = Emit(<<enter, leave>>)
      /\ UNCHANGED runtimeVars
  BY DEF VisitRecursiveCall, RecursiveCallEvents
<1> HIDE DEF enter, leave
<1> DEFINE evs == <<enter, leave>>
<1>4. /\ evs \in Seq(EventRecords)
      /\ \A k \in 1..Len(evs) : evs[k].type # "Fork" /\ JoinOK(evs[k])
  BY <1>2 DEF JoinOK
<1>5. threads' = Emit(evs)
  BY <1>3
<1> HIDE DEF evs
<1>6. QED
  BY <1>1, <1>3, <1>4, <1>5, EmitKeeps

\* A fork that is refused only enters the runtime model.
LEMMA VisitRecursiveForkKeeps ==
  ASSUME Inv, VisitRecursiveFork
  PROVE  Inv'
<1>1. HasIR
  BY DEF VisitRecursiveFork, Visited, Unskipped, Reached
<1> DEFINE evs == <<>>
<1>2. evs \in Seq(EventRecords) /\ \A k \in 1..Len(evs) : FALSE
  OBVIOUS
<1>3. stack' = Step(stack) /\ Continue /\ threads' = Emit(evs) /\ PreVisit(<<>>)
  BY DEF VisitRecursiveFork
<1> HIDE DEF evs
<1>4. QED
  BY <1>1, <1>2, <1>3, EmitKeeps

-----------------------------------------------------------------------------
(***************************************************************************)
(* The steps that enter a function.                                        *)
(***************************************************************************)
\* A frame is pushed above the one that waits at the IR at hand.
LEMMA StackPushes ==
  ASSUME Typed, StackInv, HasIR, status' = status, program' = program,
         NEW evs, Grows(Tid, evs),
         NEW frame \in FrameRecords, stack' = Append(stack, frame),
         frame.tid \in Tids', frame.fn \in DOMAIN program.body, frame.pos = 1,
         frame.tid # Tid => /\ threads'[frame.tid].spawnSite \in PIDs
                            /\ threads'[frame.tid].spawnSite[1] = Tid
  PROVE  /\ StackInv' /\ stack' \in Seq(FrameRecords)
         /\ \A u \in Tids : Starting(u) => Starting(u)'
         /\ frame.tid # Tid => \A u : u = frame.tid => Starting(u)'
<1> DEFINE len == Len(stack)
<1>1. stack \in Seq(FrameRecords) /\ stack # <<>> /\ status = "building" /\ len \in Nat \ {0}
  BY TopTyped DEF Typed, StackInv, HasIR, Positions
<1>2. /\ stack' \in Seq(FrameRecords) /\ Len(stack') = len + 1
      /\ stack'[len + 1] = frame
      /\ \A i \in 1..len : stack'[i] = stack[i]
  BY <1>1
<1>3. stack[len] = Top /\ Top.tid = Tid /\ Top.pos \in 1..Len(program.body[Top.fn])
  BY IRTyped DEF Top, Tid
<1>4. Tids \subseteq Tids' /\ \A u \in Tids : threads'[u].spawnSite = threads[u].spawnSite
  BY DEF Grows, Tids, Typed
<1>5. stack' # <<>> /\ status' = "building"
  BY <1>1, <1>2
<1>6. ASSUME NEW i \in 1..Len(stack')
      PROVE  /\ stack'[i].tid \in Tids'
             /\ stack'[i].fn \in DOMAIN program'.body
             /\ stack'[i].pos <= Len(program'.body[stack'[i].fn]) + 1
             /\ i < Len(stack') => stack'[i].pos <= Len(program'.body[stack'[i].fn])
  <2>1. CASE i = len + 1
    <3>1. Len(program.body[frame.fn]) \in Nat
      BY SummaryIR DEF Typed
    <3>2. QED
      BY <1>1, <1>2, <2>1, <3>1
  <2>2. CASE i \in 1..(len - 1)
    <3>1. i \in 1..len /\ i < len
      BY <1>1, <2>2
    <3>2. QED
      BY <1>2, <1>4, <3>1 DEF StackInv
  <2>3. CASE i = len
    <3>1. i \in 1..len /\ stack'[i] = Top
      BY <1>1, <1>2, <1>3, <2>3
    <3>2. stack[i].tid \in Tids /\ stack[i].fn \in DOMAIN program.body
          /\ stack[i].pos <= Len(program.body[stack[i].fn]) + 1
      BY <3>1 DEF StackInv
    <3>3. QED
      BY <1>2, <1>3, <1>4, <2>3, <3>1, <3>2
  <2>4. QED
    BY <1>1, <1>2, <2>1, <2>2, <2>3
<1>7. ASSUME NEW i \in 2..Len(stack'), stack'[i].tid # stack'[i - 1].tid
      PROVE  /\ threads'[stack'[i].tid].spawnSite \in PIDs
             /\ threads'[stack'[i].tid].spawnSite[1] = stack'[i - 1].tid
  <2>1. CASE i = len + 1
    BY <1>1, <1>2, <1>3, <1>7, <2>1
  <2>2. CASE i # len + 1
    <3>1. i \in 1..len /\ i - 1 \in 1..len /\ i \in 2..len
      BY <1>1, <1>2, <2>2
    <3>2. stack'[i].tid = stack[i].tid /\ stack'[i - 1].tid = stack[i - 1].tid
      BY <1>2, <3>1
    <3>3. stack[i].tid \in Tids
      BY <3>1 DEF StackInv
    <3>4. QED
      BY <1>4, <1>7, <3>1, <3>2, <3>3 DEF StackInv
  <2>3. QED
    BY <2>1, <2>2
<1>8. ASSUME NEW u \in Tids, Starting(u)
      PROVE  Starting(u)'
  <2>1. PICK i \in 2..len : stack[i].tid = u /\ stack[i - 1].tid # u
    BY <1>8 DEF Starting
  <2>2. i \in 1..len /\ i - 1 \in 1..len /\ i \in 2..Len(stack')
    BY <1>1, <1>2, <2>1
  <2>3. QED
    BY <1>2, <2>1, <2>2 DEF Starting
<1>9. ASSUME frame.tid # Tid, NEW u, u = frame.tid PROVE Starting(u)'
  <2>1. len + 1 \in 2..Len(stack') /\ stack'[len + 1].tid = u /\ stack'[(len + 1) - 1].tid # u
    BY <1>1, <1>2, <1>3, <1>9
  <2>2. QED
    BY <2>1 DEF Starting
<1>10. QED
  BY <1>2, <1>5, <1>6, <1>7, <1>8, <1>9 DEF StackInv

\* A frame is a record of its thread, function and context, at its first IR.
LEMMA FrameTyped ==
  ASSUME NEW t \in Positions, NEW fn \in Bodies, NEW ctx \in Contexts
  PROVE  /\ Frame(t, fn, ctx) \in FrameRecords
         /\ Frame(t, fn, ctx).tid = t /\ Frame(t, fn, ctx).fn = fn
         /\ Frame(t, fn, ctx).pos = 1
BY DEF Frame, FrameRecords, Positions

\* A call enters its callee on the same thread.
LEMMA VisitCallKeeps ==
  ASSUME Inv, VisitCall
  PROVE  Inv'
<1> DEFINE ctx == ContextEvolve(Top.ctx, IRNow)
           frame == Frame(Tid, IRNow.callee, ctx)
           evs == <<NewEvent("EnterCall", IRNow)>>
           r == [threads[Tid] EXCEPT !.events = @ \o evs, !.skipUntil = NoInst, !.einfo = ctx]
<1>1. HasIR /\ Typed /\ StackInv /\ SpawnInv /\ JoinInv /\ status = "building"
  BY DEF Inv, VisitCall, Visited, Unskipped, Reached, HasIR
<1>2. /\ Tid \in Tids /\ threads \in Seq(ThreadRecords) /\ threads[Tid] \in ThreadRecords
      /\ Top \in FrameRecords
  BY <1>1, TopTyped, ThreadTyped DEF Typed, Tids
<1>3. IRNow \in IRs /\ Top.ctx \in Contexts
  BY <1>1, <1>2, IRTyped DEF FrameRecords
<1>4. ctx \in Contexts
  BY <1>3, ContextEvolves
<1>5. /\ evs \in Seq(EventRecords)
      /\ \A k \in 1..Len(evs) : evs[k].type # "Fork" /\ JoinOK(evs[k])
  <2>1. /\ NewEvent("EnterCall", IRNow) \in EventRecords
        /\ NewEvent("EnterCall", IRNow).type = "EnterCall"
        /\ NewEvent("EnterCall", IRNow).fork = NoFork
    <3>1. "EnterCall" \in EventTypes
      BY DEF EventTypes
    <3>2. QED
      BY <1>1, <1>3, <3>1, NewEventTyped
  <2>2. QED
    BY <2>1 DEF JoinOK
<1>6. stack' = Append(stack, frame) /\ IRNow.callee \in DOMAIN program.body
  BY DEF VisitCall
<1>7. frame \in FrameRecords /\ frame.tid = Tid /\ frame.fn = IRNow.callee /\ frame.pos = 1
  <2>1. Tid \in Positions /\ IRNow.callee \in Bodies
    BY <1>1, <1>2, <1>6 DEF FrameRecords, Tid, Bodies, Typed
  <2>2. QED
    BY <1>4, <2>1, FrameTyped
<1>8. threads' = [threads EXCEPT ![Tid] = r]
  BY <1>2 DEF VisitCall, Emit, Tids
<1> HIDE DEF evs, frame, ctx
<1>9. /\ r \in ThreadRecords /\ r.spawnSite = threads[Tid].spawnSite
      /\ r.entry = threads[Tid].entry /\ r.events = threads[Tid].events \o evs
      /\ r.childThreads = threads[Tid].childThreads
  <2>1. threads[Tid].events \o evs \in Seq(EventRecords) /\ NoInst \in Insts
    BY <1>2, <1>5 DEF ThreadRecords, Insts
  <2>2. QED
    BY <1>2, <1>4, <2>1 DEF ThreadRecords
<1> HIDE DEF r
<1>10. /\ Grows(Tid, evs) /\ Len(threads') = Len(threads)
       /\ threads'[Tid] = r /\ \A u \in Tids : u # Tid => threads'[u] = threads[u]
  BY <1>1, <1>2, <1>5, <1>8, <1>9, ThreadReplaced
<1>11. Continue /\ UNCHANGED runtimeVars
  BY DEF VisitCall
<1>12. /\ StackInv' /\ stack' \in Seq(FrameRecords)
       /\ \A u \in Tids : Starting(u) => Starting(u)'
  <2>1. frame.tid \in Tids' /\ status' = status /\ program' = program
    BY <1>2, <1>7, <1>10, <1>11 DEF Tids, Continue
  <2>2. QED
    BY <1>1, <1>6, <1>7, <1>10, <2>1, StackPushes
<1>13. /\ masterRegions' \subseteq Insts \X Insts /\ currentMasterStart' \in Insts
       /\ unjoinedTasks' \in Seq(PIDs) /\ ToSet(unjoinedTasks') \subseteq TaskForks'
  BY <1>1, <1>5, <1>10, <1>11, TasksStay
<1>14. \A u \in Tids :
         /\ ToSet(threads[u].childThreads) \subseteq ToSet(threads'[u].childThreads)
         /\ ToSet(threads'[u].childThreads) \subseteq Tids
  BY <1>1, <1>9, <1>10 DEF SpawnInv
<1>15. QED
  BY <1>2, <1>5, <1>10, <1>11, <1>12, <1>13, <1>14, NoForkKeeps

\* A fork emits its event and adds the thread it starts.
LEMMA ForkGrows ==
  ASSUME Typed, NEW t \in Tids, NEW r \in ThreadRecords, NEW new \in ThreadRecords,
         NEW evs \in Seq(EventRecords),
         threads' = Append([threads EXCEPT ![t] = r], new),
         r.spawnSite = threads[t].spawnSite, r.entry = threads[t].entry,
         r.events = threads[t].events \o evs, r.childThreads = threads[t].childThreads,
         new.events = <<>>
  PROVE  /\ Grows(t, evs) /\ Len(threads') = Len(threads) + 1 /\ SameChildren
         /\ \A u : u = Len(threads) + 1 => threads'[u] = new
<1>1. threads \in Seq(ThreadRecords) /\ t \in 1..Len(threads) /\ Len(threads) \in Nat
  BY DEF Typed, Tids
<1> DEFINE base == [threads EXCEPT ![t] = r]
<1>2. /\ base \in Seq(ThreadRecords) /\ Len(base) = Len(threads)
      /\ base[t] = r /\ \A u \in Tids : u # t => base[u] = threads[u]
  BY <1>1 DEF Tids
<1>3. threads' = Append(base, new)
  OBVIOUS
<1> HIDE DEF base
<1>4. /\ threads' \in Seq(ThreadRecords) /\ Len(threads') = Len(threads) + 1
      /\ \A u \in Tids : threads'[u] = base[u]
      /\ threads'[Len(threads) + 1] = new
  BY <1>1, <1>2, <1>3 DEF Tids
<1>5. \A u \in 1..Len(threads') : u \notin Tids => threads'[u].events = <<>>
  BY <1>1, <1>4 DEF Tids
<1>6. Len(threads) <= Len(threads')
  BY <1>1, <1>4
<1>7. \A u \in Tids : u # t => threads'[u] = threads[u]
  BY <1>2, <1>4
<1>8. threads'[t] = r
  BY <1>2, <1>4
<1>9. Grows(t, evs)
  BY <1>4, <1>5, <1>6, <1>7, <1>8 DEF Grows
<1>10. SameChildren
  BY <1>7, <1>8 DEF SameChildren
<1>11. QED
  BY <1>4, <1>9, <1>10

\* A fork starts a thread, and the thread its first frame.
LEMMA VisitForkKeeps ==
  ASSUME Inv, VisitFork
  PROVE  Inv'
<1> DEFINE ctx == ContextEvolve(Thread.einfo, IRNow)
           tid == Len(threads) + 1
           frame == Frame(tid, IRNow.entry, ctx)
           fork == NewEvent("Fork", IRNow)
           evs == <<fork>>
           r == [Thread EXCEPT !.events = @ \o evs, !.skipUntil = NoInst]
           new == NewThread(ForkSite, IRNow.entry, ctx)
           tasks == IF IRNow.type = "OpenMPTaskFork" THEN <<ForkSite>> ELSE <<>>
<1>1. /\ HasIR /\ Typed /\ StackInv /\ SpawnInv /\ JoinInv /\ FlatInv
      /\ status = "building" /\ Kind(IRNow) = "Fork"
  BY DEF Inv, VisitFork, Visited, Unskipped, Reached, HasIR
<1>2. /\ Tid \in Tids /\ threads \in Seq(ThreadRecords) /\ Thread \in ThreadRecords
      /\ Thread = threads[Tid] /\ Len(threads) \in Nat
  BY <1>1, TopTyped DEF Typed, Thread
<1>3. IRNow \in ForkIRs /\ IRNow \in IRs /\ IRNow.entry \in DOMAIN program.body
  BY <1>1, IRTyped, KindTyped
<1>4. ctx \in Contexts /\ Thread.events \in Seq(EventRecords) /\ Thread.einfo \in Contexts
  <2>1. Thread.einfo \in Contexts /\ Thread.events \in Seq(EventRecords)
    BY <1>2 DEF ThreadRecords
  <2>2. QED
    BY <1>3, <2>1, ContextEvolves
<1>5. fork \in EventRecords /\ fork.type = "Fork" /\ fork.ir = IRNow /\ fork.fork = NoFork
  <2>1. "Fork" \in EventTypes
    BY DEF EventTypes
  <2>2. QED
    BY <1>1, <1>3, <2>1, NewEventTyped
<1>6. stack' = Append(stack, frame) /\ PreVisit(tasks) /\ program' = program /\ status' = status
  BY DEF VisitFork
<1>7. UNCHANGED <<flatThreads, flattenWorklist>>
  BY DEF VisitFork
<1>8. threads' = Append([threads EXCEPT ![Tid] = r], new)
  BY <1>2 DEF VisitFork, Emit, Tids
<1>9. frame \in FrameRecords /\ frame.tid = tid /\ frame.fn = IRNow.entry /\ frame.pos = 1
  <2>1. tid \in Positions /\ IRNow.entry \in Bodies
    BY <1>1, <1>2, <1>3 DEF Positions, Bodies, Typed
  <2>2. QED
    BY <1>4, <2>1, FrameTyped
<1>10. ForkSite \in PIDs /\ ForkSite[1] = Tid /\ ForkSite = <<Tid, Len(threads[Tid].events) + 1>>
  BY <1>2, <1>4 DEF ForkSite, PIDs, Positions, Tids
<1> HIDE DEF ctx, frame, fork
<1>11. /\ new \in ThreadRecords /\ new.spawnSite = ForkSite /\ new.entry = IRNow.entry
       /\ new.events = <<>> /\ new.childThreads = <<>>
  <2>1. IRNow.entry \in Entries /\ NoInst \in Insts
    BY <1>3 DEF Entries, Insts
  <2>2. <<>> \in Seq(EventRecords) /\ <<>> \in Seq(Positions)
    OBVIOUS
  <2>3. QED
    BY <1>4, <1>10, <2>1, <2>2 DEF NewThread, ThreadRecords
<1>12. evs \in Seq(EventRecords) /\ Len(evs) = 1 /\ evs[1] = fork
  BY <1>5
<1> HIDE DEF evs
<1>13. /\ r \in ThreadRecords /\ r.spawnSite = threads[Tid].spawnSite
       /\ r.entry = threads[Tid].entry /\ r.events = threads[Tid].events \o evs
       /\ r.childThreads = threads[Tid].childThreads
  <2>1. Thread.events \o evs \in Seq(EventRecords) /\ NoInst \in Insts
    BY <1>4, <1>12 DEF Insts
  <2>2. QED
    BY <1>2, <2>1 DEF ThreadRecords
<1> HIDE DEF r, new
<1>14. /\ Grows(Tid, evs) /\ Len(threads') = tid /\ SameChildren
       /\ \A u : u = tid => threads'[u] = new
  BY <1>1, <1>2, <1>8, <1>11, <1>12, <1>13, ForkGrows
<1>15. /\ StackInv' /\ stack' \in Seq(FrameRecords)
       /\ \A u \in Tids : Starting(u) => Starting(u)'
       /\ \A u : u = tid => Starting(u)'
  <2>1. frame.tid \in Tids' /\ tid # Tid
    BY <1>2, <1>9, <1>14 DEF Tids
  <2>2. threads'[frame.tid].spawnSite \in PIDs /\ threads'[frame.tid].spawnSite[1] = Tid
    BY <1>9, <1>10, <1>11, <1>14
  <2>3. QED
    BY <1>1, <1>3, <1>6, <1>9, <1>14, <2>1, <2>2, StackPushes
<1>16. SpawnInv'
  <2>1. /\ threads'[tid].spawnSite = <<Tid, Len(threads[Tid].events) + 1>>
        /\ threads'[tid].entry = evs[1].ir.entry /\ threads'[tid].childThreads = <<>>
    BY <1>5, <1>10, <1>11, <1>12, <1>14
  <2> DEFINE u == tid
  <2>2. u = Len(threads) + 1 /\ Len(threads') = u
    BY <1>14
  <2>3. evs[1].type = "Fork"
    BY <1>5, <1>12
  <2>4. \A v : v = u => Starting(v)'
    BY <1>15
  <2>5. threads'[u] = threads'[tid]
    OBVIOUS
  <2> HIDE DEF u
  <2>6. QED
    BY <1>1, <1>2, <1>12, <1>14, <1>15, <2>1, <2>2, <2>3, <2>4, <2>5, SpawnAdded
<1>17. tasks \in Seq(PIDs) /\ ToSet(tasks) \subseteq TaskForks'
  <2>1. CASE IRNow.type = "OpenMPTaskFork"
    <3>1. \A n : n = ForkSite => n \in EventPIDs' /\ EventAt(n)' = fork
      <4>1. 1 \in 1..Len(evs)
        BY <1>12
      <4>2. \A k \in 1..Len(evs) : \A n : n = <<Tid, Len(threads[Tid].events) + k>> =>
              n \in EventPIDs' /\ EventAt(n)' = evs[k]
        <5>1. ASSUME NEW t \in Tids, Grows(t, evs), NEW k \in 1..Len(evs),
                     NEW n, n = <<t, Len(threads[t].events) + k>>
              PROVE  n \in EventPIDs' /\ EventAt(n)' = evs[k]
          BY <1>1, <1>12, <5>1, EventsGrow
        <5>2. QED
          BY <1>2, <1>14, <5>1
      <4>3. QED
        BY <1>10, <1>12, <4>1, <4>2
    <3>2. \A n : n = ForkSite => n \in TaskForks'
      BY <1>5, <2>1, <3>1 DEF TaskForks, ForkEvents
    <3>3. tasks = <<ForkSite>>
      BY <2>1
    <3>4. tasks \in Seq(PIDs) /\ \A x \in ToSet(tasks) : x = ForkSite
      BY <1>10, <3>3 DEF ToSet
    <3>5. QED
      BY <3>2, <3>4
  <2>2. CASE IRNow.type # "OpenMPTaskFork"
    BY <2>2 DEF ToSet
  <2>3. QED
    BY <2>1, <2>2
<1> HIDE DEF tasks
<1>18. /\ masterRegions' \subseteq Insts \X Insts /\ currentMasterStart' \in Insts
       /\ unjoinedTasks' \in Seq(PIDs) /\ ToSet(unjoinedTasks') \subseteq TaskForks'
  BY <1>1, <1>6, <1>12, <1>14, <1>17, PreVisitTyped DEF Inv
<1>19. Typed'
  <2>1. threads' \in Seq(ThreadRecords) /\ threads' # <<>>
    BY <1>2, <1>14 DEF Grows
  <2>2. QED
    BY <1>1, <1>6, <1>7, <1>15, <1>18, <2>1 DEF Typed
<1>20. JoinInv'
  <2>1. \A k \in 1..Len(evs) : JoinOK(evs[k])
    BY <1>5, <1>12 DEF JoinOK
  <2>2. QED
    BY <1>1, <1>2, <1>12, <1>14, <1>18, <2>1, JoinsKept
<1>21. FlatInv'
  BY <1>1, <1>2, <1>7, <1>14 DEF FlatInv, Tids
<1>22. QED
  BY <1>15, <1>16, <1>19, <1>20, <1>21 DEF Inv

-----------------------------------------------------------------------------
(***************************************************************************)
(* The steps that leave a function.                                        *)
(***************************************************************************)
\* The front of a sequence is the sequence without its last element.
LEMMA FrontOf ==
  ASSUME NEW S, NEW s \in Seq(S), s # <<>>
  PROVE  /\ Front(s) \in Seq(S) /\ Len(Front(s)) = Len(s) - 1
         /\ \A i \in 1..(Len(s) - 1) : Front(s)[i] = s[i]
         /\ Last(s) \in S /\ Last(s) \in ToSet(s) /\ ToSet(Front(s)) \subseteq ToSet(s)
<1>1. Len(s) \in Nat \ {0} /\ DOMAIN s = 1..Len(s)
  OBVIOUS
<1>2. /\ Front(s) \in Seq(S) /\ Len(Front(s)) = Len(s) - 1
      /\ \A i \in 1..(Len(s) - 1) : Front(s)[i] = s[i]
  BY <1>1 DEF Front
<1>3. Last(s) \in S /\ Last(s) \in ToSet(s)
  BY <1>1 DEF Last, ToSet
<1>4. ToSet(Front(s)) \subseteq ToSet(s)
  BY <1>1, <1>2 DEF ToSet
<1>5. QED
  BY <1>2, <1>3, <1>4

\* The caller waits at an IR of a function with a body.
LEMMA CallerTyped ==
  ASSUME Typed, StackInv, status = "building", Len(stack) > 1
  PROVE  /\ Caller.tid \in Tids /\ IRAt(Caller) \in IRs
         /\ Caller.pos <= Len(program.body[Caller.fn])
<1> DEFINE i == Len(stack) - 1
<1>1. stack \in Seq(FrameRecords) /\ i \in 1..Len(stack) /\ i < Len(stack)
  BY DEF Typed
<1>2. Caller = stack[i] /\ Caller \in FrameRecords
  BY <1>1 DEF Caller
<1>3. /\ Caller.tid \in Tids /\ Caller.fn \in DOMAIN program.body
      /\ Caller.pos <= Len(program.body[Caller.fn])
  BY <1>1, <1>2 DEF StackInv
<1>4. program.body[Caller.fn] \in Seq(IRs) /\ Caller.pos \in Positions
  BY <1>2, <1>3, SummaryIR DEF Typed, FrameRecords
<1>5. IRAt(Caller) \in IRs
  BY <1>3, <1>4 DEF IRAt, Positions
<1>6. QED
  BY <1>3, <1>5

\* The frame below goes on; only a thread that ends was started by the lost one.
LEMMA StackPops ==
  ASSUME Typed, StackInv, status = "building", Len(stack) > 1,
         stack' = Step(Front(stack)), Continue,
         NEW t \in Tids, NEW evs, Grows(t, evs), Len(threads') = Len(threads)
  PROVE  /\ StackInv' /\ stack' \in Seq(FrameRecords)
         /\ \A u \in Tids : Starting(u) /\ (u = Tid => Caller.tid = Tid) => Starting(u)'
<1> DEFINE len == Len(stack) - 1
           front == Front(stack)
<1>1. stack \in Seq(FrameRecords) /\ stack # <<>> /\ len \in Nat \ {0} /\ Len(stack) = len + 1
  BY DEF Typed, StackInv
<1>2. /\ front \in Seq(FrameRecords) /\ Len(front) = len
      /\ \A i \in 1..len : front[i] = stack[i]
  BY <1>1, FrontOf
<1>3. front # <<>> /\ stack' = Step(front)
  BY <1>1, <1>2
<1> HIDE DEF front, len
<1>4. /\ stack' \in Seq(FrameRecords) /\ Len(stack') = len
      /\ \A i \in 1..len :
           /\ stack'[i].tid = stack[i].tid /\ stack'[i].fn = stack[i].fn
           /\ stack'[i].pos = IF i = len THEN stack[i].pos + 1 ELSE stack[i].pos
  BY <1>2, <1>3, StepMovesTop
<1>5. Tids' = Tids /\ program' = program /\ status' = "building" /\ stack' # <<>>
  BY <1>1, <1>4 DEF Tids, Continue
<1>6. \A u \in Tids : threads'[u].spawnSite = threads[u].spawnSite
  BY DEF Grows
<1>7. ASSUME NEW i \in 1..Len(stack')
      PROVE  /\ stack'[i].tid \in Tids'
             /\ stack'[i].fn \in DOMAIN program'.body
             /\ stack'[i].pos <= Len(program'.body[stack'[i].fn]) + 1
             /\ i < Len(stack') => stack'[i].pos <= Len(program'.body[stack'[i].fn])
  <2>1. i \in 1..Len(stack) /\ i \in 1..len /\ i < Len(stack)
    BY <1>1, <1>4
  <2>2. /\ stack[i].tid \in Tids /\ stack[i].fn \in DOMAIN program.body
        /\ stack[i].pos <= Len(program.body[stack[i].fn])
    BY <2>1 DEF StackInv
  <2>3. stack[i].pos \in Nat /\ Len(program.body[stack[i].fn]) \in Nat
    <3>1. stack[i] \in FrameRecords
      BY <1>1, <2>1
    <3>2. stack[i].pos \in Nat
      BY <3>1 DEF FrameRecords, Positions
    <3>3. program \in Programs /\ stack[i].fn \in DOMAIN program.body
      BY <2>2 DEF Typed
    <3>4. program.body[stack[i].fn] \in Seq(IRs)
      BY <3>3, SummaryIR
    <3>5. Len(program.body[stack[i].fn]) \in Nat
      BY <3>4
    <3>6. QED
      BY <3>2, <3>5
  <2>4. stack'[i].tid = stack[i].tid /\ stack'[i].fn = stack[i].fn
    BY <1>4, <2>1
  <2>5. stack'[i].pos = stack[i].pos \/ stack'[i].pos = stack[i].pos + 1
    BY <1>4, <2>1
  <2>6. i < Len(stack') => stack'[i].pos = stack[i].pos
    BY <1>1, <1>4, <2>1
  <2>7. stack'[i].pos <= Len(program.body[stack[i].fn]) + 1
    BY <2>2, <2>3, <2>5
  <2>8. QED
    BY <1>5, <2>2, <2>4, <2>6, <2>7
<1>8. ASSUME NEW i \in 2..Len(stack'), stack'[i].tid # stack'[i - 1].tid
      PROVE  /\ threads'[stack'[i].tid].spawnSite \in PIDs
             /\ threads'[stack'[i].tid].spawnSite[1] = stack'[i - 1].tid
  <2>1. i \in 1..len /\ i - 1 \in 1..len /\ i \in 2..Len(stack) /\ i \in 1..Len(stack)
    BY <1>1, <1>4
  <2>2. stack'[i].tid = stack[i].tid /\ stack'[i - 1].tid = stack[i - 1].tid
    BY <1>4, <2>1
  <2>3. stack[i].tid \in Tids
    BY <2>1 DEF StackInv
  <2>4. QED
    BY <1>6, <1>8, <2>1, <2>2, <2>3 DEF StackInv
<1>9. ASSUME NEW u \in Tids, Starting(u), u = Tid => Caller.tid = Tid
      PROVE  Starting(u)'
  <2>1. PICK i \in 2..Len(stack) : stack[i].tid = u /\ stack[i - 1].tid # u
    BY <1>9 DEF Starting
  <2>2. i # Len(stack)
    <3>1. SUFFICES ASSUME i = Len(stack) PROVE FALSE
      OBVIOUS
    <3>2. u = Tid /\ Caller.tid # u
      BY <2>1, <3>1 DEF Tid, Top, Caller
    <3>3. QED
      BY <1>9, <3>2
  <2>3. i \in 2..Len(stack') /\ i \in 1..len /\ i - 1 \in 1..len
    BY <1>1, <1>4, <2>1, <2>2
  <2>4. QED
    BY <1>4, <2>1, <2>3 DEF Starting
<1>10. QED
  BY <1>4, <1>5, <1>7, <1>8, <1>9 DEF StackInv

\* The end of a callee.
LEMMA ReturnFromCallKeeps ==
  ASSUME Inv, ReturnFromCall
  PROVE  Inv'
<1> DEFINE leave == NewEvent("LeaveCall", IRAt(Caller))
           evs == <<leave>>
           r == [threads[Tid] EXCEPT !.events = Append(@, leave)]
<1>1. /\ Typed /\ StackInv /\ SpawnInv /\ JoinInv /\ status = "building"
      /\ Len(stack) > 1 /\ Caller.tid = Tid
  BY DEF Inv, ReturnFromCall, Ended
<1>2. /\ Tid \in Tids /\ threads \in Seq(ThreadRecords) /\ threads[Tid] \in ThreadRecords
      /\ threads[Tid].events \in Seq(EventRecords)
  BY <1>1, TopTyped, ThreadTyped DEF Typed, Tids
<1>3. leave \in EventRecords /\ leave.type = "LeaveCall" /\ leave.fork = NoFork
  <2>1. "LeaveCall" \in EventTypes /\ IRAt(Caller) \in IRs
    BY <1>1, CallerTyped DEF EventTypes
  <2>2. QED
    BY <1>1, <2>1, NewEventTyped
<1>4. threads' = [threads EXCEPT ![Tid] = r]
  BY <1>2 DEF ReturnFromCall, Tids
<1> HIDE DEF leave
<1>5. /\ evs \in Seq(EventRecords)
      /\ \A k \in 1..Len(evs) : evs[k].type # "Fork" /\ JoinOK(evs[k])
  BY <1>3 DEF JoinOK
<1>6. /\ r \in ThreadRecords /\ r.spawnSite = threads[Tid].spawnSite
      /\ r.entry = threads[Tid].entry /\ r.events = threads[Tid].events \o evs
      /\ r.childThreads = threads[Tid].childThreads
  <2>1. /\ Append(threads[Tid].events, leave) = threads[Tid].events \o evs
        /\ Append(threads[Tid].events, leave) \in Seq(EventRecords)
    BY <1>2, <1>3
  <2>2. QED
    BY <1>2, <2>1 DEF ThreadRecords
<1> HIDE DEF r, evs
<1>7. /\ Grows(Tid, evs) /\ Len(threads') = Len(threads)
      /\ threads'[Tid] = r /\ \A u \in Tids : u # Tid => threads'[u] = threads[u]
  BY <1>1, <1>2, <1>4, <1>5, <1>6, ThreadReplaced
<1>8. Continue /\ UNCHANGED runtimeVars /\ stack' = Step(Front(stack))
  BY DEF ReturnFromCall
<1>9. /\ StackInv' /\ stack' \in Seq(FrameRecords)
      /\ \A u \in Tids : Starting(u) => Starting(u)'
  BY <1>1, <1>2, <1>7, <1>8, StackPops
<1>10. \A u \in Tids :
         /\ ToSet(threads[u].childThreads) \subseteq ToSet(threads'[u].childThreads)
         /\ ToSet(threads'[u].childThreads) \subseteq Tids
  BY <1>1, <1>6, <1>7 DEF SpawnInv
<1>11. TaskForks \subseteq TaskForks'
  BY <1>1, <1>2, <1>5, <1>7, ForksGrow
<1>12. /\ masterRegions' \subseteq Insts \X Insts /\ currentMasterStart' \in Insts
       /\ unjoinedTasks' \in Seq(PIDs) /\ ToSet(unjoinedTasks') \subseteq TaskForks'
  BY <1>1, <1>8, <1>11 DEF Typed, JoinInv, runtimeVars
<1>13. QED
  BY <1>2, <1>5, <1>7, <1>8, <1>9, <1>10, <1>12, NoForkKeeps

\* A thread that ends is listed by the parent that started it.
LEMMA ReturnFromThreadKeeps ==
  ASSUME Inv, ReturnFromThread
  PROVE  Inv'
<1> DEFINE r == [threads[Caller.tid] EXCEPT !.childThreads = Append(@, Tid)]
           evs == <<>>
<1>1. /\ Typed /\ StackInv /\ SpawnInv /\ JoinInv /\ status = "building"
      /\ Len(stack) > 1 /\ Caller.tid # Tid
  BY DEF Inv, ReturnFromThread, Ended
<1>2. PICK parent \in Tids : parent = Caller.tid
  BY <1>1, CallerTyped
<1>3. /\ Tid \in Tids /\ threads \in Seq(ThreadRecords) /\ threads[parent] \in ThreadRecords
      /\ threads[parent].events \in Seq(EventRecords)
      /\ threads[parent].childThreads \in Seq(Positions)
  BY <1>1, TopTyped, ThreadTyped DEF Typed, Tids
<1>4. threads' = [threads EXCEPT ![parent] = r]
  BY <1>2, <1>3 DEF ReturnFromThread, Tids
<1>5. Continue /\ stack' = Step(Front(stack))
      /\ UNCHANGED <<masterRegions, currentMasterStart, unjoinedTasks>>
  BY DEF ReturnFromThread
<1>6. evs \in Seq(EventRecords) /\ \A k \in 1..Len(evs) : FALSE
  OBVIOUS
<1>7. /\ r \in ThreadRecords /\ r.spawnSite = threads[parent].spawnSite
      /\ r.entry = threads[parent].entry /\ r.events = threads[parent].events \o evs
      /\ r.childThreads = Append(threads[parent].childThreads, Tid)
  <2>1. Append(threads[parent].childThreads, Tid) \in Seq(Positions)
    <3>1. Tid \in Positions
      BY <1>3 DEF Tids, Positions
    <3>2. QED
      BY <1>3, <3>1
  <2>2. threads[parent].events \o evs = threads[parent].events
    BY <1>3
  <2>3. QED
    BY <1>2, <1>3, <2>1, <2>2 DEF ThreadRecords
<1> HIDE DEF r, evs
<1>8. /\ Grows(parent, evs) /\ Len(threads') = Len(threads)
      /\ threads'[parent] = r /\ \A u \in Tids : u # parent => threads'[u] = threads[u]
  BY <1>1, <1>3, <1>4, <1>6, <1>7, ThreadReplaced
<1>9. ToSet(r.childThreads) = ToSet(threads[parent].childThreads) \cup {Tid}
  <2> DEFINE children == threads[parent].childThreads
             tail == <<Tid>>
  <2>1. Tid \in Positions
    BY <1>3 DEF Tids, Positions
  <2>2. children \in Seq(Positions) /\ tail \in Seq(Positions)
    BY <1>3, <2>1
  <2>3. r.childThreads = children \o tail
    BY <1>7, <2>1, <2>2
  <2>4. ToSet(tail) = {Tid}
    BY DEF ToSet
  <2> HIDE DEF children, tail
  <2>5. ToSet(children \o tail) = ToSet(children) \cup ToSet(tail)
    BY <2>2, ElementsOf
  <2>6. QED
    BY <2>3, <2>4, <2>5 DEF children
<1>10. \A u \in Tids :
         /\ ToSet(threads[u].childThreads) \subseteq ToSet(threads'[u].childThreads)
         /\ ToSet(threads'[u].childThreads) \subseteq Tids
  BY <1>1, <1>3, <1>8, <1>9 DEF SpawnInv
<1>11. /\ StackInv' /\ stack' \in Seq(FrameRecords)
       /\ \A u \in Tids : Starting(u) /\ u # Tid => Starting(u)'
  BY <1>1, <1>5, <1>8, StackPops
<1>12. ASSUME NEW u \in Tids, u = Tid PROVE Listed(u)'
  <2>1. threads[u].spawnSite[1] = parent
    <3> DEFINE i == Len(stack)
    <3>1. i \in 2..Len(stack) /\ stack[i].tid = Tid /\ stack[i - 1].tid = Caller.tid
      BY <1>1 DEF Typed, Tid, Top, Caller
    <3> HIDE DEF i
    <3>2. stack[i].tid # stack[i - 1].tid
      BY <1>1, <3>1
    <3>3. QED
      BY <1>1, <1>2, <1>12, <3>1, <3>2 DEF StackInv
  <2>2. threads'[u].spawnSite[1] = parent
    BY <1>8, <2>1 DEF Grows
  <2>3. u \in ToSet(threads'[parent].childThreads)
    BY <1>8, <1>9, <1>12
  <2>4. QED
    BY <2>2, <2>3 DEF Listed, ToSet
<1>13. /\ masterRegions' \subseteq Insts \X Insts /\ currentMasterStart' \in Insts
       /\ unjoinedTasks' \in Seq(PIDs) /\ ToSet(unjoinedTasks') \subseteq TaskForks'
  <2>1. TaskForks \subseteq TaskForks'
    BY <1>1, <1>6, <1>8, ForksGrow
  <2>2. QED
    BY <1>1, <1>5, <2>1 DEF Typed, JoinInv
<1>14. \A u \in Tids : threads[u].spawnSite # NoSpawn /\ Starting(u)
                         => Starting(u)' \/ Listed(u)'
  BY <1>11, <1>12
<1>15. \A k \in 1..Len(evs) : evs[k].type # "Fork" /\ JoinOK(evs[k])
  BY <1>6
<1>16. QED
  BY <1>5, <1>6, <1>8, <1>10, <1>11, <1>13, <1>14, <1>15, NoForkKeeps

-----------------------------------------------------------------------------
(***************************************************************************)
(* The end of the main thread and the list of threads.                     *)
(***************************************************************************)
\* What is known of the threads depends on the threads alone.
LEMMA ThreadsStay ==
  ASSUME Inv, UNCHANGED <<threads, unjoinedTasks>>,
         \A u \in Tids : threads[u].spawnSite # NoSpawn /\ Starting(u) => Starting(u)'
  PROVE  SpawnInv' /\ JoinInv' /\ Tids' = Tids
<1>1. /\ EventPIDs' = EventPIDs /\ ForkEvents' = ForkEvents /\ TaskForks' = TaskForks
      /\ Tids' = Tids
  BY DEF EventPIDs, ForkEvents, TaskForks, EventAt, Tids
<1>2. \A n : EventAt(n)' = EventAt(n)
  BY DEF EventAt
<1>3. \A u : Listed(u)' <=> Listed(u)
  BY DEF Listed
<1>4. JoinInv'
  BY <1>1, <1>2 DEF Inv, JoinInv
<1>5. SpawnInv'
  BY <1>1, <1>2, <1>3 DEF Inv, SpawnInv
<1>6. QED
  BY <1>1, <1>4, <1>5

\* A reversed sequence has the elements of the sequence.
LEMMA ReverseOf ==
  ASSUME NEW S, NEW s \in Seq(S)
  PROVE  Reverse(s) \in Seq(S) /\ ToSet(Reverse(s)) \subseteq ToSet(s)
<1>1. Len(s) \in Nat /\ DOMAIN s = 1..Len(s) /\ \A i \in 1..Len(s) : s[i] \in S
  OBVIOUS
<1>2. \A i \in 1..Len(s) : Len(s) - i + 1 \in 1..Len(s)
  BY <1>1
<1>3. Reverse(s) \in Seq(S) /\ Len(Reverse(s)) = Len(s)
  BY <1>1, <1>2 DEF Reverse
<1>4. \A i \in 1..Len(s) : Reverse(s)[i] = s[Len(s) - i + 1]
  BY <1>1, <1>2 DEF Reverse
<1>5. ASSUME NEW x \in ToSet(Reverse(s)) PROVE x \in ToSet(s)
  <2>1. PICK i \in 1..Len(s) : x = Reverse(s)[i]
    BY <1>3 DEF ToSet
  <2>2. x = s[Len(s) - i + 1] /\ Len(s) - i + 1 \in DOMAIN s
    BY <1>1, <1>2, <1>4, <2>1
  <2>3. QED
    BY <2>2 DEF ToSet
<1>6. QED
  BY <1>3, <1>5

\* The end of the entry function: no thread is still to be listed.
LEMMA ReturnFromMainKeeps ==
  ASSUME Inv, ReturnFromMain
  PROVE  Inv'
<1>1. Typed /\ Len(stack) = 1 /\ threads \in Seq(ThreadRecords) /\ threads # <<>>
  BY DEF Inv, ReturnFromMain, Typed
<1>2. /\ stack' = <<>> /\ status' = "flattening" /\ flattenWorklist' = <<1>>
      /\ UNCHANGED <<program, threads, masterRegions, currentMasterStart,
                     unjoinedTasks, flatThreads>>
  BY DEF ReturnFromMain, runtimeVars
<1>3. \A u : ~Starting(u)
  BY <1>1 DEF Starting
<1>4. SpawnInv' /\ JoinInv' /\ Tids' = Tids
  BY <1>2, <1>3, ThreadsStay
<1>5. <<>> \in Seq(FrameRecords) /\ <<1>> \in Seq(Positions) /\ 1 \in Tids
  BY <1>1 DEF Positions, Tids
<1>6. Typed'
  BY <1>1, <1>2, <1>5 DEF Typed
<1>7. StackInv'
  <2>1. stack' = <<>> /\ status' # "building"
    BY <1>2
  <2>2. QED
    BY <2>1 DEF StackInv
<1>8. FlatInv'
  <2>1. ToSet(flattenWorklist') = {1} /\ flatThreads' = flatThreads
    BY <1>2 DEF ToSet
  <2>2. QED
    BY <1>4, <1>5, <2>1 DEF Inv, FlatInv, ToSet
<1>9. QED
  BY <1>4, <1>6, <1>7, <1>8 DEF Inv

\* The walk lists a thread and goes on with its children.
LEMMA FlattenKeeps ==
  ASSUME Inv, Flatten
  PROVE  Inv'
<1> DEFINE t == Last(flattenWorklist)
           rest == Front(flattenWorklist)
           children == threads[t].childThreads
<1>1. /\ Typed /\ StackInv /\ SpawnInv /\ FlatInv
      /\ threads \in Seq(ThreadRecords)
      /\ flattenWorklist \in Seq(Positions) /\ flatThreads \in Seq(Positions)
      /\ flattenWorklist # <<>>
  BY DEF Inv, Flatten, Typed
<1>2. /\ flatThreads' = Append(flatThreads, t)
      /\ flattenWorklist' = rest \o Reverse(children)
      /\ UNCHANGED <<program, status, stack, threads, masterRegions,
                     currentMasterStart, unjoinedTasks>>
  BY DEF Flatten, PushChildren, runtimeVars
<1>3. SpawnInv' /\ JoinInv' /\ Tids' = Tids
  <2>1. \A u : Starting(u)' <=> Starting(u)
    BY <1>2 DEF Starting
  <2>2. QED
    BY <1>2, <2>1, ThreadsStay
<1>4. /\ rest \in Seq(Positions) /\ ToSet(rest) \subseteq ToSet(flattenWorklist)
      /\ t \in ToSet(flattenWorklist) /\ t \in Positions
  BY <1>1, FrontOf
<1>5. t \in Tids
  BY <1>1, <1>4 DEF FlatInv
<1>6. children \in Seq(Positions) /\ ToSet(children) \subseteq Tids
  BY <1>1, <1>5, ThreadTyped DEF SpawnInv, Tids
<1> HIDE DEF t, rest, children
<1>7. Reverse(children) \in Seq(Positions) /\ ToSet(Reverse(children)) \subseteq ToSet(children)
  BY <1>6, ReverseOf
<1>8. /\ rest \o Reverse(children) \in Seq(Positions)
      /\ ToSet(rest \o Reverse(children)) = ToSet(rest) \cup ToSet(Reverse(children))
  BY <1>4, <1>7, ElementsOf
<1>9. /\ flatThreads \o <<t>> \in Seq(Positions) /\ Append(flatThreads, t) = flatThreads \o <<t>>
      /\ ToSet(flatThreads \o <<t>>) = ToSet(flatThreads) \cup {t}
  <2> DEFINE last == <<t>>
  <2>1. last \in Seq(Positions) /\ ToSet(last) = {t}
    BY <1>4 DEF ToSet
  <2>2. Append(flatThreads, t) = flatThreads \o last
    BY <1>1, <1>4
  <2> HIDE DEF last
  <2>3. /\ flatThreads \o last \in Seq(Positions)
        /\ ToSet(flatThreads \o last) = ToSet(flatThreads) \cup ToSet(last)
    BY <1>1, <2>1, ElementsOf
  <2>4. QED
    BY <2>1, <2>2, <2>3 DEF last
<1>10. Typed'
  BY <1>1, <1>2, <1>8, <1>9 DEF Typed
<1>11. StackInv'
  BY <1>1, <1>2, <1>3 DEF StackInv
<1>12. FlatInv'
  <2>1. ToSet(flatThreads') \subseteq Tids
    BY <1>1, <1>2, <1>5, <1>9 DEF FlatInv
  <2>2. ToSet(flattenWorklist') \subseteq Tids
    BY <1>1, <1>2, <1>4, <1>6, <1>7, <1>8 DEF FlatInv
  <2>3. QED
    BY <1>3, <2>1, <2>2 DEF FlatInv, ToSet
<1>13. QED
  BY <1>3, <1>10, <1>11, <1>12 DEF Inv

\* A change of the status alone, and no change at all.
LEMMA StatusKeeps ==
  ASSUME Inv, status' \in {"building", "flattening", "done", "aborted"},
         status' \in {"flattening", "done"} => status = "flattening" \/ status = status',
         status' = "building" => status = "building",
         UNCHANGED <<program, stack, threads, masterRegions, currentMasterStart,
                     unjoinedTasks, flatThreads, flattenWorklist>>
  PROVE  Inv'
<1>1. SpawnInv' /\ JoinInv' /\ Tids' = Tids
  <2>1. \A u : Starting(u)' <=> Starting(u)
    BY DEF Starting
  <2>2. QED
    BY <2>1, ThreadsStay
<1>2. Typed'
  BY DEF Inv, Typed
<1>3. StackInv'
  BY <1>1 DEF Inv, StackInv
<1>4. FlatInv'
  BY <1>1 DEF Inv, FlatInv, ToSet
<1>5. QED
  BY <1>1, <1>2, <1>3, <1>4 DEF Inv

\* The first frame runs the entry function on the main thread.
LEMMA InitInv ==
  ASSUME Init
  PROVE  Inv
<1> DEFINE frame == Frame(1, program.main, InitialCtx)
           main == NewThread(NoSpawn, program.main, InitialCtx)
<1>1. /\ program \in Programs /\ status = "building"
      /\ stack = <<frame>> /\ threads = <<main>>
      /\ masterRegions = {} /\ currentMasterStart = NoInst /\ unjoinedTasks = <<>>
      /\ flatThreads = <<>> /\ flattenWorklist = <<>>
  BY DEF Init
<1>2. program.main \in DOMAIN program.body /\ program.main \in Bodies /\ program.main \in Entries
  BY <1>1, ProgramsAssumption DEF HasSummaries, Bodies, Entries
<1>3. NoInst \in Insts
  BY DEF Insts
<1>4. InitialCtx \in Contexts
  <2>1. <<>> \in Seq(Insts) /\ Len(<<>>) = 0
    OBVIOUS
  <2>2. QED
    BY <1>3, <2>1, OriginKAssumption DEF InitialCtx, Contexts
<1>5. frame \in FrameRecords /\ frame.tid = 1 /\ frame.fn = program.main /\ frame.pos = 1
  BY <1>2, <1>4, FrameTyped DEF Positions
<1>6. /\ main \in ThreadRecords /\ main.spawnSite = NoSpawn
      /\ main.events = <<>> /\ main.childThreads = <<>>
  <2>1. <<>> \in Seq(EventRecords) /\ <<>> \in Seq(Positions)
    OBVIOUS
  <2>2. QED
    BY <1>2, <1>3, <1>4, <2>1 DEF NewThread, ThreadRecords
<1> HIDE DEF frame, main
<1>7. Len(stack) = 1 /\ stack[1] = frame /\ Len(threads) = 1 /\ threads[1] = main /\ Tids = {1}
  BY <1>1 DEF Tids
<1>8. EventPIDs = {}
  BY <1>1, <1>6 DEF EventPIDs
<1>9. Typed
  <2>1. /\ stack \in Seq(FrameRecords) /\ threads \in Seq(ThreadRecords) /\ threads # <<>>
        /\ unjoinedTasks \in Seq(PIDs) /\ flatThreads \in Seq(Positions)
        /\ flattenWorklist \in Seq(Positions)
    BY <1>1, <1>5, <1>6
  <2>2. QED
    BY <1>1, <1>3, <2>1 DEF Typed
<1>10. StackInv
  <2>1. Len(program.body[program.main]) \in Nat
    BY <1>1, <1>2, SummaryIR
  <2>2. stack # <<>>
    BY <1>1
  <2>3. QED
    BY <1>1, <1>2, <1>5, <1>7, <2>1, <2>2 DEF StackInv
<1>11. SpawnInv
  BY <1>6, <1>7, <1>8 DEF SpawnInv, ForkEvents, ToSet
<1>12. JoinInv
  BY <1>1, <1>8 DEF JoinInv, ToSet
<1>13. FlatInv
  BY <1>1 DEF FlatInv, ToSet
<1>14. QED
  BY <1>9, <1>10, <1>11, <1>12, <1>13 DEF Inv

-----------------------------------------------------------------------------
(***************************************************************************)
(* The theorems.                                                           *)
(***************************************************************************)
\* Every step of the builder keeps the invariant.
LEMMA NextKeeps ==
  ASSUME Inv, [Next]_vars
  PROVE  Inv'
<1>1. CASE SkipToTarget
  BY <1>1, SkipToTargetKeeps
<1>2. CASE SkipSerial \/ SkipInTeams \/ SkipTask
  <2>1. HasIR /\ Pass
    BY <1>2 DEF SkipSerial, SkipInTeams, SkipTask, Reached
  <2>2. QED
    BY <2>1, PassKeeps
<1>3. CASE SkipMasterRegion
  BY <1>3, SkipMasterRegionKeeps
<1>4. CASE VisitEvent
  BY <1>4, VisitEventKeeps
<1>5. CASE VisitUnresolvedCall
  <2>1. HasIR /\ Pass
    BY <1>5 DEF VisitUnresolvedCall, Visited, Unskipped, Reached
  <2>2. QED
    BY <2>1, PassKeeps
<1>6. CASE VisitExternCall
  BY <1>6, VisitExternCallKeeps
<1>7. CASE VisitRecursiveCall
  BY <1>7, VisitRecursiveCallKeeps
<1>8. CASE VisitCall
  BY <1>8, VisitCallKeeps
<1>9. CASE VisitRecursiveFork
  BY <1>9, VisitRecursiveForkKeeps
<1>10. CASE VisitFork
  BY <1>10, VisitForkKeeps
<1>11. CASE ReturnFromCall
  BY <1>11, ReturnFromCallKeeps
<1>12. CASE ReturnFromThread
  BY <1>12, ReturnFromThreadKeeps
<1>13. CASE ReturnFromMain
  BY <1>13, ReturnFromMainKeeps
<1>14. CASE Flatten
  BY <1>14, FlattenKeeps
<1>15. CASE Abort \/ Finish
  <2>1. /\ status' = "aborted" \/ (status = "flattening" /\ status' = "done")
        /\ UNCHANGED <<program, stack, threads, masterRegions, currentMasterStart,
                       unjoinedTasks, flatThreads, flattenWorklist>>
    BY <1>15 DEF Abort, Finish, runtimeVars
  <2>2. QED
    BY <2>1, StatusKeeps
<1>16. CASE Finished \/ UNCHANGED vars
  <2>1. UNCHANGED <<program, status, stack, threads, masterRegions, currentMasterStart,
                    unjoinedTasks, flatThreads, flattenWorklist>>
    BY <1>16 DEF Finished, vars
  <2>2. status' \in {"building", "flattening", "done", "aborted"}
    BY <2>1 DEF Inv, Typed
  <2>3. QED
    BY <2>1, <2>2, StatusKeeps
<1>17. QED
  BY <1>1, <1>2, <1>3, <1>4, <1>5, <1>6, <1>7, <1>8, <1>9, <1>10, <1>11, <1>12,
     <1>13, <1>14, <1>15, <1>16 DEF Next

\* What is inductive says more than that the trace is typed.
LEMMA InvTypeOK ==
  ASSUME Inv
  PROVE  TypeOK
<1>1. /\ Typed /\ StackInv /\ SpawnInv /\ JoinInv /\ FlatInv
      /\ stack \in Seq(FrameRecords) /\ threads \in Seq(ThreadRecords)
  BY DEF Inv, Typed
<1>2. DOMAIN stack = 1..Len(stack) /\ DOMAIN threads = Tids
  BY <1>1 DEF Tids
<1>3. ASSUME NEW i \in DOMAIN stack
      PROVE  /\ stack[i].tid \in DOMAIN threads /\ stack[i].fn \in DOMAIN program.body
             /\ stack[i].pos \in 1..(Len(program.body[stack[i].fn]) + 1)
  <2>1. /\ stack[i].tid \in Tids /\ stack[i].fn \in DOMAIN program.body
        /\ stack[i].pos <= Len(program.body[stack[i].fn]) + 1
    BY <1>1, <1>2 DEF StackInv
  <2>2. stack[i] \in FrameRecords /\ Len(program.body[stack[i].fn]) \in Nat
    BY <1>1, <2>1, SummaryIR DEF Typed
  <2>3. stack[i].pos \in Nat \ {0}
    BY <2>2 DEF FrameRecords, Positions
  <2>4. stack[i].pos \in 1..(Len(program.body[stack[i].fn]) + 1)
    BY <2>1, <2>2, <2>3
  <2>5. QED
    BY <1>2, <2>1, <2>4
<1>4. ASSUME NEW t \in DOMAIN threads
      PROVE  /\ threads[t].spawnSite = NoSpawn \/ threads[t].spawnSite \in ForkEvents
             /\ ToSet(threads[t].childThreads) \subseteq DOMAIN threads
             /\ Len(threads[t].einfo.origins) <= OriginK
  <2>1. threads[t].einfo \in Contexts
    BY <1>1, ThreadTyped
  <2>2. Len(threads[t].einfo.origins) <= OriginK
    BY <2>1 DEF Contexts
  <2>3. QED
    BY <1>1, <1>2, <2>2 DEF SpawnInv
<1>5. QED
  BY <1>1, <1>2, <1>3, <1>4 DEF TypeOK, Typed, JoinInv, FlatInv

\* When the trace is done no frame is left: every spawned thread is listed.
LEMMA InvWellFormed ==
  ASSUME Inv
  PROVE  TraceWellFormed
<1>1. SUFFICES ASSUME status = "done"
               PROVE  TraceWellFormed
  BY DEF TraceWellFormed
<1>2. /\ StackInv /\ SpawnInv /\ JoinInv
      /\ DOMAIN threads = Tids
  BY DEF Inv, Typed, Tids
<1>3. stack = <<>>
  BY <1>1, <1>2 DEF StackInv
<1>4. \A t : ~Starting(t)
  BY <1>3 DEF Starting
<1>5. \A t \in Tids : threads[t].spawnSite # NoSpawn =>
        /\ threads[t].spawnSite \in ForkEvents
        /\ t \in ToSet(threads[threads[t].spawnSite[1]].childThreads)
  BY <1>2, <1>4 DEF SpawnInv, Listed
<1>6. QED
  BY <1>2, <1>5 DEF TraceWellFormed, SpawnInv, JoinInv

\* The builder stays inside the program, its summaries and its own trace: no
\* activation of buildTrace runs past its summary or in a thread that is not
\* built, no context remembers more than OriginK spawn sites, and the runtime
\* model and the list of threads only name what exists.
THEOREM TraceTypeCorrect == Spec => []TypeOK
<1>1. Init => Inv
  BY InitInv
<1>2. Inv /\ [Next]_vars => Inv'
  BY NextKeeps
<1>3. Inv => TypeOK
  BY InvTypeOK
<1>4. QED
  BY <1>1, <1>2, <1>3, PTL DEF Spec

\* A finished trace is what HappensBeforeGraph asserts of it ("Some forkEvent
\* in does not correspond to a thread"): forks and spawned threads correspond
\* one to one, parents list their children, and a join of a task names the
\* fork of a task.
THEOREM FinishedTraceWellFormed == Spec => []TraceWellFormed
<1>1. Init => Inv
  BY InitInv
<1>2. Inv /\ [Next]_vars => Inv'
  BY NextKeeps
<1>3. Inv => TraceWellFormed
  BY InvWellFormed
<1>4. QED
  BY <1>1, <1>2, <1>3, PTL DEF Spec

-----------------------------------------------------------------------------
Parent(t) == threads[t].spawnSite[1]

Spawned == 2..Len(threads)

ChildrenOf(t) == threads[t].childThreads

(***************************************************************************)
(* Threads and the stack, in the order of a depth-first walk.  A thread    *)
(* that is younger than another and has a younger parent was spawned below *)
(* the other or after it; the same holds of the frames that still run.     *)
(***************************************************************************)
SpawnTree ==
  /\ threads[1].spawnSite = NoSpawn
  /\ \A t \in Spawned : threads[t].spawnSite # NoSpawn /\ Parent(t) \in 1..(t - 1)
  /\ \A v, w \in Spawned : v < w /\ Parent(v) < Parent(w) => v <= Parent(w)

StackOrdered ==
  /\ \A i, j \in 1..Len(stack) : i < j => stack[i].tid <= stack[j].tid
  /\ \A v \in Spawned : \A i \in 1..Len(stack) : Parent(v) < stack[i].tid => v <= stack[i].tid

\* A parent lists its children in the order it spawned them, when they end.
ChildrenOrdered ==
  \A t \in Tids :
    /\ \A i, j \in 1..Len(ChildrenOf(t)) : i < j => ChildrenOf(t)[i] < ChildrenOf(t)[j]
    /\ \A i \in 1..Len(ChildrenOf(t)) :
         /\ ChildrenOf(t)[i] \in Spawned /\ Parent(ChildrenOf(t)[i]) = t
         /\ \A k \in 1..Len(stack) : stack[k].tid # ChildrenOf(t)[i]

TreeInv == SpawnTree /\ StackOrdered /\ ChildrenOrdered

\* The walk has listed the first threads, and has yet to list those of the
\* others whose parent is listed; the youngest is at the bottom.
Waiting(v) == Len(flatThreads) < v /\ (v = 1 \/ Parent(v) <= Len(flatThreads))

ListInv ==
  /\ status = "building" => flatThreads = <<>>
  /\ status \in {"flattening", "done"} =>
       /\ Len(flatThreads) <= Len(threads)
       /\ \A i \in 1..Len(flatThreads) : flatThreads[i] = i
       /\ \A i, j \in 1..Len(flattenWorklist) : i < j => flattenWorklist[j] < flattenWorklist[i]
       /\ \A v \in Tids : v \in ToSet(flattenWorklist) <=> Waiting(v)
  /\ status = "done" => flattenWorklist = <<>>

-----------------------------------------------------------------------------
(***************************************************************************)
(* What a step does to the threads and the stack.                          *)
(***************************************************************************)
\* Threads keep their calling context, and the running one gets info.
Informed(info) ==
  \A u \in Tids : threads'[u].einfo = IF u = Tid THEN info ELSE threads[u].einfo

\* The enter and leave events of a step that stays in its function: none, or
\* those of a call that is cut off.
CallsCutOff(evs) ==
  \/ \A k \in 1..Len(evs) : evs[k].type \notin {"EnterCall", "LeaveCall"}
  \/ /\ Len(evs) = 2 /\ evs[1].type = "EnterCall" /\ evs[2].type = "LeaveCall"
     /\ evs[1].ir = evs[2].ir

\* A step over the IR at hand.
Advances(evs) ==
  /\ HasIR /\ stack' = Step(stack) /\ Continue
  /\ evs \in Seq(EventRecords) /\ Grows(Tid, evs)
  /\ Len(threads') = Len(threads) /\ SameChildren /\ Informed(Thread.einfo)
  /\ \A k \in 1..Len(evs) : evs[k].ctx = Thread.einfo
  /\ CallsCutOff(evs)

\* The stack below the frame on top, up to n frames, is as it was.
SameBelow(n) ==
  /\ \A i \in 1..n : /\ stack'[i].tid = stack[i].tid /\ stack'[i].fn = stack[i].fn
                     /\ stack'[i].ctx = stack[i].ctx
  /\ \A i \in 1..(n - 1) : stack'[i] = stack[i]

\* Step moves the position of the frame on top alone.
LEMMA StepKeepsFrames ==
  ASSUME NEW s \in Seq(FrameRecords), s # <<>>
  PROVE  /\ Step(s) \in Seq(FrameRecords) /\ Len(Step(s)) = Len(s)
         /\ \A i \in 1..Len(s) : /\ Step(s)[i].tid = s[i].tid /\ Step(s)[i].fn = s[i].fn
                                 /\ Step(s)[i].ctx = s[i].ctx
         /\ \A i \in 1..(Len(s) - 1) : Step(s)[i] = s[i]
<1>1. /\ Step(s) \in Seq(FrameRecords) /\ Len(Step(s)) = Len(s)
      /\ \A i \in 1..Len(s) :
           Step(s)[i] = IF i = Len(s) THEN [s[i] EXCEPT !.pos = @ + 1] ELSE s[i]
  BY StepMovesTop
<1>2. \A f \in FrameRecords : LET g == [f EXCEPT !.pos = @ + 1]
                              IN  g.tid = f.tid /\ g.fn = f.fn /\ g.ctx = f.ctx
  BY DEF FrameRecords
<1>3. \A i \in 1..Len(s) : s[i] \in FrameRecords
  OBVIOUS
<1>4. ASSUME NEW i \in 1..Len(s)
      PROVE  /\ Step(s)[i].tid = s[i].tid /\ Step(s)[i].fn = s[i].fn
             /\ Step(s)[i].ctx = s[i].ctx
  BY <1>1, <1>2, <1>3
<1>5. \A i \in 1..(Len(s) - 1) : Step(s)[i] = s[i]
  <2>1. \A i \in 1..(Len(s) - 1) : i \in 1..Len(s) /\ i # Len(s)
    OBVIOUS
  <2>2. QED
    BY <1>1, <2>1
<1>6. QED
  BY <1>1, <1>4, <1>5

LEMMA AdvancedStack ==
  ASSUME Inv, HasIR, stack' = Step(stack)
  PROVE  Len(stack') = Len(stack) /\ SameBelow(Len(stack))
BY StepKeepsFrames DEF Inv, HasIR, Typed, StackInv, SameBelow

LEMMA PoppedStack ==
  ASSUME Inv, Len(stack) > 1, stack' = Step(Front(stack))
  PROVE  Len(stack') = Len(stack) - 1 /\ SameBelow(Len(stack) - 1)
<1>1. stack \in Seq(FrameRecords) /\ stack # <<>> /\ Len(stack) \in Nat
  BY DEF Inv, Typed
<1>2. PICK front : front = Front(stack)
  OBVIOUS
<1>3. /\ front \in Seq(FrameRecords) /\ Len(front) = Len(stack) - 1
      /\ \A i \in 1..(Len(stack) - 1) : front[i] = stack[i]
  BY <1>1, <1>2, FrontOf
<1>4. front # <<>> /\ stack' = Step(front)
  BY <1>1, <1>2, <1>3
<1>5. /\ Len(stack') = Len(front)
      /\ \A i \in 1..Len(front) : /\ stack'[i].tid = front[i].tid
                                  /\ stack'[i].fn = front[i].fn
                                  /\ stack'[i].ctx = front[i].ctx
      /\ \A i \in 1..(Len(front) - 1) : stack'[i] = front[i]
  BY <1>3, <1>4, StepKeepsFrames
<1>6. QED
  BY <1>1, <1>3, <1>5 DEF SameBelow

\* The trace that a step over the IR at hand leaves to later steps.
LEMMA EmitAdvances ==
  ASSUME Inv, HasIR, stack' = Step(stack), Continue, NEW evs \in Seq(EventRecords),
         threads' = Emit(evs), \A k \in 1..Len(evs) : evs[k].ctx = Thread.einfo,
         CallsCutOff(evs)
  PROVE  Advances(evs)
<1>1. Typed /\ StackInv /\ status = "building"
  BY DEF Inv, HasIR
<1>2. /\ Tid \in Tids /\ threads \in Seq(ThreadRecords)
      /\ Thread = threads[Tid] /\ Thread \in ThreadRecords
  BY <1>1, TopTyped DEF Thread, Typed
<1>3. PICK r : r = [Thread EXCEPT !.events = @ \o evs, !.skipUntil = NoInst]
  OBVIOUS
<1>4. threads' = [threads EXCEPT ![Tid] = r]
  BY <1>2, <1>3 DEF Emit, Tids
<1>5. r.einfo = Thread.einfo
  BY <1>2, <1>3 DEF ThreadRecords
<1>6. threads'[Tid] = r /\ \A u \in Tids : u # Tid => threads'[u] = threads[u]
  BY <1>2, <1>4 DEF Tids
<1>7. Informed(Thread.einfo)
  BY <1>5, <1>6 DEF Informed
<1>8. Grows(Tid, evs) /\ Len(threads') = Len(threads) /\ SameChildren
  BY <1>1, EmitGrows
<1>9. QED
  BY <1>7, <1>8 DEF Advances

\* Where no event is appended.
LEMMA NothingAdvances ==
  ASSUME Inv, HasIR, stack' = Step(stack), Continue, Grows(Tid, <<>>),
         Len(threads') = Len(threads), SameChildren, Informed(Thread.einfo)
  PROVE  \E evs : Advances(evs)
<1>1. PICK evs : evs = <<>>
  OBVIOUS
<1>2. evs \in Seq(EventRecords) /\ Grows(Tid, evs) /\ \A k \in 1..Len(evs) : FALSE
  BY <1>1
<1>3. Advances(evs)
  BY <1>2 DEF Advances, CallsCutOff
<1>4. QED
  BY <1>3

\* A new event carries the context of its thread.
LEMMA NewEventContext ==
  ASSUME NEW type, NEW ir
  PROVE  NewEvent(type, ir).ctx = Thread.einfo
BY DEF NewEvent

LEMMA TaskJoinsContext ==
  \A k \in DOMAIN TaskJoins : TaskJoins[k].ctx = Thread.einfo
<1>1. CASE ~JoinsTasks
  BY <1>1 DEF TaskJoins
<1>2. CASE JoinsTasks
  <2>1. SUFFICES ASSUME NEW k \in DOMAIN TaskJoins
                 PROVE  TaskJoins[k].ctx = Thread.einfo
    OBVIOUS
  <2>2. PICK ir : TaskJoins[k] = [NewEvent("Join", ir) EXCEPT !.fork = unjoinedTasks[k]]
    BY <1>2, <2>1 DEF TaskJoins
  <2>3. TaskJoins[k].ctx = NewEvent("Join", ir).ctx
    BY <2>2 DEF NewEvent
  <2>4. QED
    BY <2>3, NewEventContext
<1>3. QED
  BY <1>1, <1>2

\* The joins of the tasks and the event of the IR after them.
LEMMA AfterTaskJoinsContext ==
  ASSUME Inv, HasIR, NEW type \in EventTypes \ {"Fork", "EnterCall", "LeaveCall"},
         NEW evs, evs = Append(TaskJoins, NewEvent(type, IRNow))
  PROVE  /\ evs \in Seq(EventRecords) /\ CallsCutOff(evs)
         /\ \A k \in 1..Len(evs) : evs[k].ctx = Thread.einfo
<1>1. PICK e : e = NewEvent(type, IRNow)
  OBVIOUS
<1>2. e \in EventRecords /\ e.type = type /\ e.ctx = Thread.einfo
  BY <1>1, IRTyped, NewEventTyped, NewEventContext DEF Inv, HasIR
<1>3. /\ TaskJoins \in Seq(EventRecords)
      /\ \A k \in 1..Len(TaskJoins) :
           TaskJoins[k].type = "Join" /\ TaskJoins[k].ctx = Thread.einfo
  BY TaskJoinsTyped, TaskJoinsContext
<1>4. /\ evs \in Seq(EventRecords) /\ Len(TaskJoins) \in Nat
      /\ Len(evs) = Len(TaskJoins) + 1 /\ evs[Len(TaskJoins) + 1] = e
      /\ \A k \in 1..Len(TaskJoins) : evs[k] = TaskJoins[k]
  BY <1>1, <1>2, <1>3
<1>5. ASSUME NEW k \in 1..Len(evs)
      PROVE  evs[k].type \notin {"EnterCall", "LeaveCall"} /\ evs[k].ctx = Thread.einfo
  <2>1. CASE k \in 1..Len(TaskJoins)
    BY <1>3, <1>4, <2>1
  <2>2. CASE k = Len(TaskJoins) + 1
    BY <1>2, <1>4, <2>2
  <2>3. QED
    BY <1>4, <2>1, <2>2
<1>6. QED
  BY <1>4, <1>5 DEF CallsCutOff

\* The steps that stay in their activation.
Staying ==
  \/ SkipToTarget \/ SkipSerial \/ SkipInTeams \/ SkipTask \/ SkipMasterRegion
  \/ VisitEvent
  \/ VisitUnresolvedCall \/ VisitExternCall \/ VisitRecursiveCall \/ VisitRecursiveFork

\* A step that stays in its activation appends events of the thread, in its
\* context, and leaves calls as they were.
LEMMA StayingAdvances ==
  ASSUME Inv, Staying
  PROVE  \E evs : Advances(evs)
<1> USE DEF Visited, Unskipped, Reached
<1>1. CASE SkipToTarget
  <2>1. HasIR /\ stack' = Step(stack) /\ Continue /\ UNCHANGED threads
    BY <1>1 DEF SkipToTarget
  <2>2. Grows(Tid, <<>>) /\ Len(threads') = Len(threads) /\ SameChildren
    BY <2>1, TopTyped, NothingGrows DEF Inv, HasIR
  <2>3. Informed(Thread.einfo)
    BY <2>1 DEF Informed, Thread
  <2>4. QED
    BY <2>1, <2>2, <2>3, NothingAdvances
<1>2. CASE SkipSerial \/ SkipInTeams \/ SkipTask \/ VisitUnresolvedCall \/ VisitRecursiveFork
  <2>1. HasIR /\ stack' = Step(stack) /\ Continue /\ threads' = Emit(<<>>)
    BY <1>2 DEF SkipSerial, SkipInTeams, SkipTask, VisitUnresolvedCall,
                VisitRecursiveFork, Pass
  <2>2. PICK evs : evs = <<>>
    OBVIOUS
  <2>3. evs \in Seq(EventRecords) /\ \A k \in 1..Len(evs) : FALSE
    BY <2>2
  <2>4. Advances(evs)
    BY <2>1, <2>2, <2>3, EmitAdvances DEF CallsCutOff
  <2>5. QED
    BY <2>4
<1>3. CASE SkipMasterRegion
  <2>1. HasIR /\ stack' = Step(stack) /\ Continue
    BY <1>3 DEF SkipMasterRegion
  <2>2. PICK region \in masterRegions :
          threads' = [threads EXCEPT ![Tid].skipUntil = region[2]]
    BY <1>3 DEF SkipMasterRegion
  <2>3. /\ Typed /\ Tid \in Tids /\ threads \in Seq(ThreadRecords)
        /\ threads[Tid] \in ThreadRecords /\ region[2] \in Insts
    BY <2>1, TopTyped, ThreadTyped DEF Inv, HasIR, Typed, Tids
  <2>4. PICK r : r = [threads[Tid] EXCEPT !.skipUntil = region[2]]
    OBVIOUS
  <2>5. threads' = [threads EXCEPT ![Tid] = r]
    BY <2>2, <2>3, <2>4 DEF Tids
  <2>6. /\ r \in ThreadRecords /\ r.spawnSite = threads[Tid].spawnSite
        /\ r.entry = threads[Tid].entry /\ r.events = threads[Tid].events
        /\ r.childThreads = threads[Tid].childThreads /\ r.einfo = threads[Tid].einfo
    BY <2>3, <2>4 DEF ThreadRecords
  <2>7. <<>> \in Seq(EventRecords) /\ r.events = threads[Tid].events \o <<>>
    BY <2>3, <2>6, ThreadTyped DEF Tids
  <2>8. /\ Grows(Tid, <<>>) /\ Len(threads') = Len(threads)
        /\ threads'[Tid] = r /\ \A u \in Tids : u # Tid => threads'[u] = threads[u]
    BY <2>3, <2>5, <2>6, <2>7, ThreadReplaced
  <2>9. SameChildren /\ Informed(Thread.einfo)
    BY <2>6, <2>8 DEF SameChildren, Informed, Thread
  <2>10. QED
    BY <2>1, <2>8, <2>9, NothingAdvances
<1>4. CASE VisitEvent
  <2>1. HasIR /\ stack' = Step(stack) /\ Continue
    BY <1>4 DEF VisitEvent
  <2>2. Kind(IRNow) \in EventTypes \ {"Fork", "EnterCall", "LeaveCall"}
    <3>1. Kind(IRNow) # "Fork" /\ Kind(IRNow) \in EventTypes
      BY <1>4, KindTyped DEF VisitEvent
    <3>2. Kind(IRNow) \notin {"EnterCall", "LeaveCall"}
      BY DEF Kind
    <3>3. QED
      BY <3>1, <3>2
  <2>3. PICK evs : evs = Append(TaskJoins, NewEvent(Kind(IRNow), IRNow))
    OBVIOUS
  <2>4. /\ evs \in Seq(EventRecords) /\ CallsCutOff(evs)
        /\ \A k \in 1..Len(evs) : evs[k].ctx = Thread.einfo
    BY <2>1, <2>2, <2>3, AfterTaskJoinsContext
  <2>5. threads' = Emit(evs)
    BY <1>4, <2>3 DEF VisitEvent
  <2>6. Advances(evs)
    BY <2>1, <2>4, <2>5, EmitAdvances
  <2>7. QED
    BY <2>6
<1>5. CASE VisitExternCall
  <2>1. HasIR /\ stack' = Step(stack) /\ Continue
    BY <1>5 DEF VisitExternCall
  <2>2. "ExternCall" \in EventTypes \ {"Fork", "EnterCall", "LeaveCall"}
    BY DEF EventTypes
  <2>3. PICK evs : evs = Append(TaskJoins, NewEvent("ExternCall", IRNow))
    OBVIOUS
  <2>4. /\ evs \in Seq(EventRecords) /\ CallsCutOff(evs)
        /\ \A k \in 1..Len(evs) : evs[k].ctx = Thread.einfo
    BY <2>1, <2>2, <2>3, AfterTaskJoinsContext
  <2>5. threads' = Emit(evs)
    BY <1>5, <2>3 DEF VisitExternCall
  <2>6. Advances(evs)
    BY <2>1, <2>4, <2>5, EmitAdvances
  <2>7. QED
    BY <2>6
<1>6. CASE VisitRecursiveCall
  <2>1. HasIR /\ stack' = Step(stack) /\ Continue /\ threads' = Emit(RecursiveCallEvents)
    BY <1>6 DEF VisitRecursiveCall
  <2>2. IRNow \in IRs /\ {"EnterCall", "LeaveCall"} \subseteq EventTypes
    BY <2>1, IRTyped DEF Inv, EventTypes
  <2>3. PICK enter : enter = NewEvent("EnterCall", IRNow)
    OBVIOUS
  <2>4. PICK leave : leave = NewEvent("LeaveCall", IRNow)
    OBVIOUS
  <2>5. /\ enter \in EventRecords /\ enter.type = "EnterCall"
        /\ enter.ctx = Thread.einfo /\ enter.ir = IRNow
    BY <2>1, <2>2, <2>3, NewEventTyped, NewEventContext DEF Inv, HasIR
  <2>6. /\ leave \in EventRecords /\ leave.type = "LeaveCall"
        /\ leave.ctx = Thread.einfo /\ leave.ir = IRNow
    BY <2>1, <2>2, <2>4, NewEventTyped, NewEventContext DEF Inv, HasIR
  <2>7. PICK evs : evs = <<enter, leave>>
    OBVIOUS
  <2>8. /\ evs \in Seq(EventRecords) /\ CallsCutOff(evs)
        /\ \A k \in 1..Len(evs) : evs[k].ctx = Thread.einfo
    BY <2>5, <2>6, <2>7 DEF CallsCutOff
  <2>9. threads' = Emit(evs)
    BY <2>1, <2>3, <2>4, <2>7 DEF RecursiveCallEvents
  <2>10. Advances(evs)
    BY <2>1, <2>8, <2>9, EmitAdvances
  <2>11. QED
    BY <2>10
<1>7. QED
  BY <1>1, <1>2, <1>3, <1>4, <1>5, <1>6 DEF Staying

\* A call: its function gets a frame on the same thread.
Calls(evs, frame) ==
  /\ HasIR /\ Continue /\ stack' = Append(stack, frame)
  /\ frame \in FrameRecords /\ frame.tid = Tid /\ frame.ctx.origins = Top.ctx.origins
  /\ evs \in Seq(EventRecords) /\ Grows(Tid, evs)
  /\ Len(threads') = Len(threads) /\ SameChildren /\ Informed(frame.ctx)
  /\ Len(evs) = 1 /\ evs[1].type = "EnterCall" /\ evs[1].ir = IRNow
  /\ evs[1].ctx = Thread.einfo

\* A call evolves a context without changing its origins.
LEMMA CallKeepsOrigins ==
  ASSUME NEW ctx, NEW ir, Kind(ir) = "Call"
  PROVE  ContextEvolve(ctx, ir).origins = ctx.origins
<1>1. ir.type \notin ForkTypes
  BY KindTyped
<1>2. QED
  BY <1>1 DEF ContextEvolve

LEMMA VisitCallCalls ==
  ASSUME Inv, VisitCall
  PROVE  \E evs, frame : Calls(evs, frame)
<1>1. /\ HasIR /\ Typed /\ StackInv /\ status = "building" /\ Kind(IRNow) = "Call"
      /\ IRNow.callee \in DOMAIN program.body /\ Continue
  BY DEF Inv, VisitCall, Visited, Unskipped, Reached, HasIR
<1>2. /\ Tid \in Tids /\ threads \in Seq(ThreadRecords) /\ Thread \in ThreadRecords
      /\ Thread = threads[Tid] /\ Top \in FrameRecords /\ IRNow \in IRs
  BY <1>1, TopTyped, IRTyped DEF Typed, Thread
<1>3. PICK ctx : ctx = ContextEvolve(Top.ctx, IRNow)
  OBVIOUS
<1>4. ctx \in Contexts /\ ctx.origins = Top.ctx.origins
  BY <1>1, <1>2, <1>3, ContextEvolves, CallKeepsOrigins DEF FrameRecords
<1>5. PICK frame : frame = Frame(Tid, IRNow.callee, ctx)
  OBVIOUS
<1>6. frame \in FrameRecords /\ frame.tid = Tid /\ frame.ctx = ctx
  <2>1. Tid \in Positions /\ IRNow.callee \in Bodies
    BY <1>1, <1>2 DEF FrameRecords, Tid, Bodies, Typed
  <2>2. QED
    BY <1>4, <1>5, <2>1, FrameTyped DEF Frame
<1>7. PICK enter : enter = NewEvent("EnterCall", IRNow)
  OBVIOUS
<1>8. /\ enter \in EventRecords /\ enter.type = "EnterCall" /\ enter.ir = IRNow
      /\ enter.ctx = Thread.einfo
  <2>1. "EnterCall" \in EventTypes
    BY DEF EventTypes
  <2>2. QED
    BY <1>1, <1>2, <1>7, <2>1, NewEventTyped, NewEventContext
<1>9. PICK evs : evs = <<enter>>
  OBVIOUS
<1>10. evs \in Seq(EventRecords) /\ Len(evs) = 1 /\ evs[1] = enter
  BY <1>8, <1>9
<1>11. /\ stack' = Append(stack, frame)
       /\ threads' = [Emit(evs) EXCEPT ![Tid].einfo = ctx]
  BY <1>3, <1>5, <1>7, <1>9 DEF VisitCall
<1>12. PICK r : r = [Thread EXCEPT !.events = @ \o evs, !.skipUntil = NoInst, !.einfo = ctx]
  OBVIOUS
<1>13. threads' = [threads EXCEPT ![Tid] = r]
  BY <1>2, <1>11, <1>12 DEF Emit, Tids
<1>14. /\ r \in ThreadRecords /\ r.spawnSite = Thread.spawnSite
       /\ r.entry = Thread.entry /\ r.events = Thread.events \o evs
       /\ r.childThreads = Thread.childThreads /\ r.einfo = ctx
  <2>1. Thread.events \o evs \in Seq(EventRecords) /\ NoInst \in Insts
    BY <1>2, <1>10 DEF ThreadRecords, Insts
  <2>2. QED
    BY <1>2, <1>4, <1>12, <2>1 DEF ThreadRecords
<1>15. /\ Grows(Tid, evs) /\ Len(threads') = Len(threads)
       /\ threads'[Tid] = r /\ \A u \in Tids : u # Tid => threads'[u] = threads[u]
  BY <1>1, <1>2, <1>10, <1>13, <1>14, ThreadReplaced
<1>16. SameChildren /\ Informed(frame.ctx)
  BY <1>2, <1>6, <1>14, <1>15 DEF SameChildren, Informed
<1>17. Calls(evs, frame)
  BY <1>1, <1>4, <1>6, <1>8, <1>10, <1>11, <1>15, <1>16 DEF Calls
<1>18. QED
  BY <1>17

\* A fork: the thread it starts is the youngest, and has a frame of its own.
Forks(evs, frame, new) ==
  /\ HasIR /\ status' = status /\ program' = program
  /\ UNCHANGED <<flatThreads, flattenWorklist>>
  /\ stack' = Append(stack, frame) /\ frame \in FrameRecords
  /\ new = Len(threads) + 1 /\ frame.tid = new
  /\ frame.ctx.origins = LastK(Append(Thread.einfo.origins, IRNow.inst))
  /\ evs \in Seq(EventRecords) /\ Grows(Tid, evs)
  /\ Len(threads') = new /\ SameChildren /\ Informed(Thread.einfo)
  /\ Len(evs) = 1 /\ evs[1].type = "Fork" /\ evs[1].ir = IRNow
  /\ evs[1].ctx = Thread.einfo
  /\ threads'[new].spawnSite = <<Tid, Len(threads[Tid].events) + 1>>
  /\ threads'[new].spawnSite # NoSpawn
  /\ threads'[new].childThreads = <<>> /\ threads'[new].einfo = frame.ctx

LEMMA VisitForkForks ==
  ASSUME Inv, VisitFork
  PROVE  \E evs, frame, new : Forks(evs, frame, new)
<1>1. /\ HasIR /\ Typed /\ StackInv /\ status = "building" /\ Kind(IRNow) = "Fork"
  BY DEF Inv, VisitFork, Visited, Unskipped, Reached, HasIR
<1>2. /\ Tid \in Tids /\ threads \in Seq(ThreadRecords) /\ Thread \in ThreadRecords
      /\ Thread = threads[Tid] /\ Len(threads) \in Nat
  BY <1>1, TopTyped DEF Typed, Thread
<1>3. /\ IRNow \in ForkIRs /\ IRNow \in IRs /\ IRNow.entry \in DOMAIN program.body
      /\ IRNow.type \in ForkTypes
  BY <1>1, IRTyped, KindTyped
<1>4. PICK ctx : ctx = ContextEvolve(Thread.einfo, IRNow)
  OBVIOUS
<1>5. Thread.events \in Seq(EventRecords) /\ Thread.einfo \in Contexts
  BY <1>2 DEF ThreadRecords
<1>6. /\ ctx \in Contexts
      /\ ctx.origins = LastK(Append(Thread.einfo.origins, IRNow.inst))
  BY <1>3, <1>4, <1>5, ContextEvolves DEF ContextEvolve
<1>7. PICK new : new = Len(threads) + 1
  OBVIOUS
<1>8. PICK frame : frame = Frame(new, IRNow.entry, ctx)
  OBVIOUS
<1>9. frame \in FrameRecords /\ frame.tid = new /\ frame.ctx = ctx
  <2>1. new \in Positions /\ IRNow.entry \in Bodies
    BY <1>1, <1>2, <1>3, <1>7 DEF Positions, Bodies, Typed
  <2>2. QED
    BY <1>6, <1>8, <2>1, FrameTyped DEF Frame
<1>10. PICK fork : fork = NewEvent("Fork", IRNow)
  OBVIOUS
<1>11. /\ fork \in EventRecords /\ fork.type = "Fork" /\ fork.ir = IRNow
       /\ fork.ctx = Thread.einfo
  <2>1. "Fork" \in EventTypes
    BY DEF EventTypes
  <2>2. QED
    BY <1>1, <1>3, <1>10, <2>1, NewEventTyped, NewEventContext
<1>12. PICK evs : evs = <<fork>>
  OBVIOUS
<1>13. evs \in Seq(EventRecords) /\ Len(evs) = 1 /\ evs[1] = fork
  BY <1>11, <1>12
<1>14. PICK child : child = NewThread(ForkSite, IRNow.entry, ctx)
  OBVIOUS
<1>15. /\ stack' = Append(stack, frame) /\ program' = program /\ status' = status
       /\ UNCHANGED <<flatThreads, flattenWorklist>>
       /\ threads' = Append(Emit(evs), child)
  BY <1>4, <1>7, <1>8, <1>10, <1>12, <1>14 DEF VisitFork
<1>16. ForkSite \in PIDs /\ ForkSite = <<Tid, Len(threads[Tid].events) + 1>>
  BY <1>2, <1>5 DEF ForkSite, PIDs, Positions, Tids
<1>17. /\ child \in ThreadRecords /\ child.spawnSite = ForkSite
       /\ child.events = <<>> /\ child.childThreads = <<>> /\ child.einfo = ctx
  <2>1. IRNow.entry \in Entries /\ NoInst \in Insts
    BY <1>3 DEF Entries, Insts
  <2>2. <<>> \in Seq(EventRecords) /\ <<>> \in Seq(Positions)
    OBVIOUS
  <2>3. QED
    BY <1>6, <1>14, <1>16, <2>1, <2>2 DEF NewThread, ThreadRecords
<1>18. PICK r : r = [Thread EXCEPT !.events = @ \o evs, !.skipUntil = NoInst]
  OBVIOUS
<1>19. threads' = Append([threads EXCEPT ![Tid] = r], child)
  BY <1>2, <1>15, <1>18 DEF Emit, Tids
<1>20. /\ r \in ThreadRecords /\ r.spawnSite = Thread.spawnSite
       /\ r.entry = Thread.entry /\ r.events = Thread.events \o evs
       /\ r.childThreads = Thread.childThreads /\ r.einfo = Thread.einfo
  <2>1. Thread.events \o evs \in Seq(EventRecords) /\ NoInst \in Insts
    BY <1>5, <1>13 DEF Insts
  <2>2. QED
    BY <1>2, <1>18, <2>1 DEF ThreadRecords
<1>21. /\ Grows(Tid, evs) /\ Len(threads') = new /\ SameChildren
       /\ threads'[new] = child
  BY <1>1, <1>2, <1>7, <1>13, <1>17, <1>19, <1>20, ForkGrows
<1>22. Informed(Thread.einfo)
  <2>1. PICK base : base = [threads EXCEPT ![Tid] = r]
    OBVIOUS
  <2>2. /\ base \in Seq(ThreadRecords) /\ Len(base) = Len(threads)
        /\ \A u \in Tids : base[u] = IF u = Tid THEN r ELSE threads[u]
    BY <1>2, <1>20, <2>1 DEF Tids
  <2>3. \A u \in Tids : threads'[u] = base[u]
    BY <1>2, <1>17, <1>19, <2>1, <2>2 DEF Tids
  <2>4. QED
    BY <1>20, <2>2, <2>3 DEF Informed
<1>23. threads'[new].spawnSite # NoSpawn
  BY <1>16, <1>17, <1>21, NoneAssumption DEF PIDs, Positions
<1>24. Forks(evs, frame, new)
  BY <1>1, <1>6, <1>7, <1>9, <1>11, <1>13, <1>15, <1>16, <1>17, <1>21, <1>22, <1>23
     DEF Forks
<1>25. QED
  BY <1>24

\* The end of a function.
Returns ==
  /\ status = "building" /\ Len(stack) > 1 /\ Continue
  /\ stack' = Step(Front(stack)) /\ Len(threads') = Len(threads)
  /\ Informed(Thread.einfo)

\* Back to the call, which gets the event of its end.
ReturnsToCall(evs) ==
  /\ Returns /\ Caller.tid = Tid
  /\ evs \in Seq(EventRecords) /\ Grows(Tid, evs) /\ SameChildren
  /\ Len(evs) = 1 /\ evs[1].type = "LeaveCall" /\ evs[1].ir = IRAt(Caller)
  /\ evs[1].ctx = Thread.einfo

LEMMA ReturnFromCallReturns ==
  ASSUME Inv, ReturnFromCall
  PROVE  \E evs : ReturnsToCall(evs)
<1>1. /\ Typed /\ StackInv /\ status = "building" /\ Len(stack) > 1 /\ Caller.tid = Tid
      /\ stack' = Step(Front(stack)) /\ Continue
  BY DEF Inv, ReturnFromCall, Ended
<1>2. /\ Tid \in Tids /\ threads \in Seq(ThreadRecords) /\ Thread = threads[Tid]
      /\ Thread \in ThreadRecords /\ Thread.events \in Seq(EventRecords)
  BY <1>1, TopTyped, ThreadTyped DEF Typed, Tids, Thread
<1>3. PICK leave : leave = NewEvent("LeaveCall", IRAt(Caller))
  OBVIOUS
<1>4. /\ leave \in EventRecords /\ leave.type = "LeaveCall"
      /\ leave.ir = IRAt(Caller) /\ leave.ctx = Thread.einfo
  <2>1. "LeaveCall" \in EventTypes /\ IRAt(Caller) \in IRs
    BY <1>1, CallerTyped DEF EventTypes
  <2>2. QED
    BY <1>1, <1>3, <2>1, NewEventTyped, NewEventContext
<1>5. PICK evs : evs = <<leave>>
  OBVIOUS
<1>6. evs \in Seq(EventRecords) /\ Len(evs) = 1 /\ evs[1] = leave
  BY <1>4, <1>5
<1>7. PICK r : r = [Thread EXCEPT !.events = Append(@, leave)]
  OBVIOUS
<1>8. threads' = [threads EXCEPT ![Tid] = r]
  BY <1>2, <1>3, <1>7 DEF ReturnFromCall, Tids
<1>9. /\ r \in ThreadRecords /\ r.spawnSite = Thread.spawnSite
      /\ r.entry = Thread.entry /\ r.events = Thread.events \o evs
      /\ r.childThreads = Thread.childThreads /\ r.einfo = Thread.einfo
  <2>1. /\ Append(Thread.events, leave) = Thread.events \o evs
        /\ Append(Thread.events, leave) \in Seq(EventRecords)
    BY <1>2, <1>4, <1>5
  <2>2. QED
    BY <1>2, <1>7, <2>1 DEF ThreadRecords
<1>10. /\ Grows(Tid, evs) /\ Len(threads') = Len(threads)
       /\ threads'[Tid] = r /\ \A u \in Tids : u # Tid => threads'[u] = threads[u]
  BY <1>1, <1>2, <1>6, <1>8, <1>9, ThreadReplaced
<1>11. SameChildren /\ Informed(Thread.einfo)
  BY <1>2, <1>9, <1>10 DEF SameChildren, Informed
<1>12. ReturnsToCall(evs)
  BY <1>1, <1>4, <1>6, <1>10, <1>11 DEF Returns, ReturnsToCall
<1>13. QED
  BY <1>12

\* Back to the fork of the parent, which lists the thread.
ReturnsToFork(parent) ==
  /\ Returns /\ parent \in Tids /\ parent = Caller.tid /\ parent # Tid
  /\ Grows(parent, <<>>)
  /\ threads'[parent].childThreads = Append(threads[parent].childThreads, Tid)
  /\ \A u \in Tids : u # parent => threads'[u].childThreads = threads[u].childThreads

LEMMA ReturnFromThreadReturns ==
  ASSUME Inv, ReturnFromThread
  PROVE  \E parent : ReturnsToFork(parent)
<1>1. /\ Typed /\ StackInv /\ status = "building" /\ Len(stack) > 1 /\ Caller.tid # Tid
      /\ stack' = Step(Front(stack)) /\ Continue
  BY DEF Inv, ReturnFromThread, Ended
<1>2. PICK parent \in Tids : parent = Caller.tid
  BY <1>1, CallerTyped
<1>3. /\ Tid \in Tids /\ threads \in Seq(ThreadRecords) /\ threads[parent] \in ThreadRecords
      /\ threads[parent].events \in Seq(EventRecords)
      /\ threads[parent].childThreads \in Seq(Positions)
  BY <1>1, TopTyped, ThreadTyped DEF Typed, Tids
<1>4. PICK r : r = [threads[parent] EXCEPT !.childThreads = Append(@, Tid)]
  OBVIOUS
<1>5. threads' = [threads EXCEPT ![parent] = r]
  BY <1>2, <1>3, <1>4 DEF ReturnFromThread, Tids
<1>6. /\ r \in ThreadRecords /\ r.spawnSite = threads[parent].spawnSite
      /\ r.entry = threads[parent].entry /\ r.events = threads[parent].events \o <<>>
      /\ r.childThreads = Append(threads[parent].childThreads, Tid)
      /\ r.einfo = threads[parent].einfo
  <2>1. Append(threads[parent].childThreads, Tid) \in Seq(Positions)
    <3>1. Tid \in Positions
      BY <1>3 DEF Tids, Positions
    <3>2. QED
      BY <1>3, <3>1
  <2>2. threads[parent].events \o <<>> = threads[parent].events
    BY <1>3
  <2>3. QED
    BY <1>3, <1>4, <2>1, <2>2 DEF ThreadRecords
<1>7. <<>> \in Seq(EventRecords)
  OBVIOUS
<1>8. /\ Grows(parent, <<>>) /\ Len(threads') = Len(threads)
      /\ threads'[parent] = r /\ \A u \in Tids : u # parent => threads'[u] = threads[u]
  BY <1>1, <1>3, <1>5, <1>6, <1>7, ThreadReplaced
<1>9. Informed(Thread.einfo)
  BY <1>3, <1>6, <1>8 DEF Informed, Thread
<1>10. ReturnsToFork(parent)
  BY <1>1, <1>2, <1>6, <1>8, <1>9 DEF Returns, ReturnsToFork
<1>11. QED
  BY <1>10

-----------------------------------------------------------------------------
(***************************************************************************)
(* Threads in the order of a depth-first walk.                             *)
(***************************************************************************)
\* The numbers of the threads and of the frames.
LEMMA Numbers ==
  ASSUME Inv
  PROVE  /\ Len(threads) \in Positions /\ Len(stack) \in Nat /\ Tids \subseteq Positions
         /\ Spawned \subseteq Tids /\ 1 \in Tids
         /\ \A i \in 1..Len(stack) : stack[i].tid \in Tids
         /\ \A t \in Tids : ChildrenOf(t) \in Seq(Positions)
<1>1. /\ threads \in Seq(ThreadRecords) /\ threads # <<>> /\ stack \in Seq(FrameRecords)
      /\ StackInv
  BY DEF Inv, Typed
<1>2. \A t \in Tids : ChildrenOf(t) \in Seq(Positions)
  BY <1>1, ThreadTyped DEF ChildrenOf, Tids
<1>3. QED
  BY <1>1, <1>2 DEF Positions, Tids, Spawned, StackInv

\* A step that neither spawns a thread nor ends one.
LEMMA TreeStays ==
  ASSUME Inv, TreeInv, Len(threads') = Len(threads), SameChildren,
         \A u \in Tids : threads'[u].spawnSite = threads[u].spawnSite,
         \A i \in 1..Len(stack') : \E j \in 1..Len(stack) : stack'[i].tid = stack[j].tid,
         \A i, j \in 1..Len(stack') : i < j => stack'[i].tid <= stack'[j].tid
  PROVE  TreeInv'
<1>1. Tids' = Tids /\ Spawned' = Spawned /\ Spawned \subseteq Tids /\ 1 \in Tids
  BY Numbers DEF Tids, Spawned
<1>2. \A t \in Tids : Parent(t)' = Parent(t) /\ ChildrenOf(t)' = ChildrenOf(t)
  BY DEF Parent, ChildrenOf, SameChildren
<1>3. SpawnTree'
  <2>1. \A t \in Spawned : threads'[t].spawnSite # NoSpawn /\ Parent(t)' \in 1..(t - 1)
    BY <1>1, <1>2 DEF TreeInv, SpawnTree
  <2>2. \A v, w \in Spawned : v < w /\ Parent(v)' < Parent(w)' => v <= Parent(w)'
    BY <1>1, <1>2 DEF TreeInv, SpawnTree
  <2>3. QED
    BY <1>1, <2>1, <2>2 DEF TreeInv, SpawnTree
<1>4. StackOrdered'
  BY <1>1, <1>2 DEF TreeInv, StackOrdered
<1>5. ChildrenOrdered'
  <2>1. SUFFICES ASSUME NEW t \in Tids
                 PROVE
          /\ \A i, j \in 1..Len(ChildrenOf(t)) : i < j => ChildrenOf(t)[i] < ChildrenOf(t)[j]
          /\ \A i \in 1..Len(ChildrenOf(t)) :
               /\ ChildrenOf(t)[i] \in Spawned /\ Parent(ChildrenOf(t)[i])' = t
               /\ \A k \in 1..Len(stack') : stack'[k].tid # ChildrenOf(t)[i]
    BY <1>1, <1>2 DEF ChildrenOrdered
  <2>2. QED
    BY <1>1, <1>2 DEF TreeInv, ChildrenOrdered
<1>6. QED
  BY <1>3, <1>4, <1>5 DEF TreeInv

\* A thread is spawned: it is younger than all, and its parent is on top.
LEMMA TreeForks ==
  ASSUME Inv, TreeInv, NEW evs, NEW frame, NEW new, Forks(evs, frame, new)
  PROVE  TreeInv'
<1>1. /\ Len(threads) \in Positions /\ new = Len(threads) + 1
      /\ Tids' = Tids \cup {new} /\ Spawned' = Spawned \cup {new} /\ Spawned \subseteq Tids
      /\ new \notin Tids /\ Tids \subseteq Positions /\ 1 \in Tids
  BY Numbers DEF Forks, Tids, Spawned, Positions
<1>2. \A u \in Tids : /\ threads'[u].spawnSite = threads[u].spawnSite
                      /\ Parent(u)' = Parent(u) /\ ChildrenOf(u)' = ChildrenOf(u)
  BY DEF Forks, Grows, SameChildren, Parent, ChildrenOf
<1>3. threads'[new].spawnSite # NoSpawn /\ Parent(new)' = Tid /\ ChildrenOf(new)' = <<>>
  BY DEF Forks, Parent, ChildrenOf
<1>4. /\ Tid \in Tids /\ Len(stack) \in Positions /\ stack[Len(stack)].tid = Tid
      /\ status = "building"
  BY TopTyped DEF Inv, Forks, HasIR, Tid, Top
<1>5. /\ Len(stack') = Len(stack) + 1 /\ stack'[Len(stack) + 1].tid = new
      /\ \A i \in 1..Len(stack) : stack'[i] = stack[i]
  BY DEF Forks, Inv, Typed
<1>6. \A i \in 1..Len(stack) : stack[i].tid \in Tids /\ stack[i].tid <= Tid
  <2>1. TAKE i \in 1..Len(stack)
  <2>2. stack[i].tid \in Tids
    BY Numbers
  <2>3. CASE i = Len(stack)
    BY <1>1, <1>4, <2>2, <2>3 DEF Positions
  <2>4. CASE i # Len(stack)
    BY <1>4, <2>2, <2>4 DEF TreeInv, StackOrdered, Positions
  <2>5. QED
    BY <2>3, <2>4
<1>7. \A t \in Tids : t < new
  BY <1>1 DEF Tids, Positions
<1>8. \A v \in Spawned : Parent(v) \in Tids /\ Parent(v) < v
  BY <1>1 DEF TreeInv, SpawnTree, Tids, Spawned, Positions
<1>9. SpawnTree'
  <2>1. \A t \in Spawned : threads'[t].spawnSite # NoSpawn /\ Parent(t)' \in 1..(t - 1)
    BY <1>1, <1>2 DEF TreeInv, SpawnTree
  <2>2. Parent(new)' \in 1..(new - 1)
    BY <1>1, <1>3, <1>4, <1>7 DEF Tids, Positions
  <2>3. ASSUME NEW v \in Spawned \cup {new}, NEW w \in Spawned \cup {new},
               v < w, Parent(v)' < Parent(w)'
        PROVE  v <= Parent(w)'
    <3>1. CASE v \in Spawned /\ w \in Spawned
      BY <1>1, <1>2, <2>3, <3>1 DEF TreeInv, SpawnTree
    <3>2. CASE v \in Spawned /\ w = new
      <4>1. Len(stack) \in 1..Len(stack) /\ Parent(v) < stack[Len(stack)].tid
        <5>1. Len(stack) \in 1..Len(stack)
          BY <1>4 DEF Positions
        <5>2. Parent(v)' = Parent(v) /\ Parent(w)' = Tid
          BY <1>1, <1>2, <1>3, <3>2
        <5>3. QED
          BY <1>4, <2>3, <5>1, <5>2
      <4>2. v <= stack[Len(stack)].tid
        BY <3>2, <4>1 DEF TreeInv, StackOrdered
      <4>3. QED
        BY <1>3, <1>4, <3>2, <4>2
    <3>3. CASE v = new
      <4>1. w \in Positions /\ w <= new
        BY <1>1, <1>7 DEF Positions
      <4>2. QED
        BY <1>1, <1>4, <1>7, <2>3, <3>3, <4>1 DEF Positions
    <3>4. QED
      BY <3>1, <3>2, <3>3
  <2>4. QED
    BY <1>1, <1>2, <1>3, <2>1, <2>2, <2>3 DEF TreeInv, SpawnTree
<1>10. StackOrdered'
  <2>1. ASSUME NEW i \in 1..Len(stack'), NEW j \in 1..Len(stack'), i < j
        PROVE  stack'[i].tid <= stack'[j].tid
    <3>1. i \in 1..Len(stack)
      BY <1>4, <1>5, <2>1 DEF Positions
    <3>2. CASE j \in 1..Len(stack)
      BY <1>5, <2>1, <3>1, <3>2 DEF TreeInv, StackOrdered
    <3>3. CASE j = Len(stack) + 1
      <4>1. stack[i].tid \in Positions /\ stack[i].tid < new
        BY <1>1, <1>6, <1>7, <3>1
      <4>2. QED
        BY <1>1, <1>5, <3>1, <3>3, <4>1 DEF Positions
    <3>4. QED
      BY <1>4, <1>5, <3>2, <3>3 DEF Positions
  <2>2. ASSUME NEW v \in Spawned \cup {new}, NEW i \in 1..Len(stack'),
               Parent(v)' < stack'[i].tid
        PROVE  v <= stack'[i].tid
    <3>1. CASE i = Len(stack) + 1
      <4>1. v \in Positions /\ v <= new
        BY <1>1, <1>7 DEF Positions
      <4>2. QED
        BY <1>5, <3>1, <4>1
    <3>2. CASE i \in 1..Len(stack) /\ v \in Spawned
      BY <1>1, <1>2, <1>5, <2>2, <3>2 DEF TreeInv, StackOrdered
    <3>3. CASE i \in 1..Len(stack) /\ v = new
      <4>1. stack[i].tid <= Tid /\ stack[i].tid \in Positions /\ Tid \in Positions
        BY <1>1, <1>4, <1>6, <3>3
      <4>2. Tid < stack[i].tid
        BY <1>3, <1>5, <2>2, <3>3
      <4>3. QED
        BY <4>1, <4>2 DEF Positions
    <3>4. QED
      BY <1>4, <1>5, <3>1, <3>2, <3>3 DEF Positions
  <2>3. QED
    BY <1>1, <2>1, <2>2 DEF StackOrdered
<1>11. ChildrenOrdered'
  <2>1. ASSUME NEW t \in Tids, NEW i \in 1..Len(ChildrenOf(t))
        PROVE  /\ ChildrenOf(t)[i] \in Spawned' /\ Parent(ChildrenOf(t)[i])' = t
               /\ \A k \in 1..Len(stack') : stack'[k].tid # ChildrenOf(t)[i]
    <3>1. /\ ChildrenOf(t)[i] \in Spawned /\ Parent(ChildrenOf(t)[i]) = t
          /\ \A k \in 1..Len(stack) : stack[k].tid # ChildrenOf(t)[i]
      BY <2>1 DEF TreeInv, ChildrenOrdered
    <3>2. ChildrenOf(t)[i] # new
      BY <1>1, <3>1
    <3>3. \A k \in 1..Len(stack') : stack'[k].tid # ChildrenOf(t)[i]
      BY <1>4, <1>5, <3>1, <3>2 DEF Positions
    <3>4. QED
      BY <1>1, <1>2, <3>1, <3>3
  <2>2. \A t \in Tids : \A i, j \in 1..Len(ChildrenOf(t)) :
          i < j => ChildrenOf(t)[i] < ChildrenOf(t)[j]
    BY DEF TreeInv, ChildrenOrdered
  <2>3. QED
    BY <1>1, <1>2, <1>3, <2>1, <2>2 DEF ChildrenOrdered
<1>12. QED
  BY <1>9, <1>10, <1>11 DEF TreeInv

\* A thread ends: it is the youngest of the threads its parent has listed.
LEMMA TreeReturns ==
  ASSUME Inv, TreeInv, NEW parent, ReturnsToFork(parent)
  PROVE  TreeInv'
<1>1. Tids' = Tids /\ Spawned' = Spawned /\ Spawned \subseteq Tids /\ Tids \subseteq Positions
  BY Numbers DEF ReturnsToFork, Returns, Tids, Spawned
<1>2. \A u \in Tids : threads'[u].spawnSite = threads[u].spawnSite /\ Parent(u)' = Parent(u)
  BY DEF ReturnsToFork, Grows, Parent
<1>3. /\ Len(stack) \in Nat /\ Len(stack) > 1
      /\ stack[Len(stack)].tid = Tid /\ stack[Len(stack) - 1].tid = parent
      /\ Tid \in Tids /\ parent \in Tids /\ parent # Tid
      /\ Tid \in Nat /\ parent \in Nat
  BY Numbers, TopTyped DEF ReturnsToFork, Returns, Inv, Tid, Top, Caller, Positions
<1>4. Len(stack') = Len(stack) - 1 /\ \A i \in 1..(Len(stack) - 1) : stack'[i].tid = stack[i].tid
  BY PoppedStack DEF ReturnsToFork, Returns, SameBelow
<1>5. 1 \in Tids /\ 1 \notin Spawned /\ Tids = Spawned \cup {1}
  BY Numbers DEF Tids, Spawned, Positions
<1>6. Tid \in Spawned /\ Parent(Tid) = parent /\ parent < Tid
  <2>1. PICK i \in 2..Len(stack) : i = Len(stack)
    BY <1>3
  <2>2. stack[i].tid # stack[i - 1].tid /\ stack[i].tid = Tid /\ stack[i - 1].tid = parent
    BY <1>3, <2>1
  <2>3. threads[Tid].spawnSite \in PIDs /\ Parent(Tid) = parent
    BY <2>2 DEF Inv, StackInv, Parent
  <2>4. threads[Tid].spawnSite # NoSpawn
    BY <2>3, NoneAssumption DEF PIDs, Positions
  <2>5. Tid \in Spawned
    BY <1>3, <1>5, <2>4 DEF TreeInv, SpawnTree
  <2>6. Parent(Tid) \in 1..(Tid - 1)
    BY <2>5 DEF TreeInv, SpawnTree
  <2>7. QED
    BY <1>1, <1>3, <2>3, <2>5, <2>6 DEF Positions
<1>7. /\ ChildrenOf(parent)' = Append(ChildrenOf(parent), Tid)
      /\ \A u \in Tids : u # parent => ChildrenOf(u)' = ChildrenOf(u)
  BY DEF ReturnsToFork, ChildrenOf
<1>8. SpawnTree'
  <2>1. \A t \in Spawned : threads'[t].spawnSite # NoSpawn /\ Parent(t)' \in 1..(t - 1)
    BY <1>1, <1>2 DEF TreeInv, SpawnTree
  <2>2. \A v, w \in Spawned : v < w /\ Parent(v)' < Parent(w)' => v <= Parent(w)'
    BY <1>1, <1>2 DEF TreeInv, SpawnTree
  <2>3. QED
    BY <1>1, <1>2, <1>5, <2>1, <2>2 DEF TreeInv, SpawnTree
<1>9. StackOrdered'
  <2>1. \A i \in 1..Len(stack') : i \in 1..Len(stack) /\ stack'[i].tid = stack[i].tid
    BY <1>3, <1>4
  <2>2. QED
    BY <1>1, <1>2, <2>1 DEF TreeInv, StackOrdered
<1>10. \A k \in 1..Len(stack') : /\ k \in 1..Len(stack) /\ stack'[k].tid = stack[k].tid
                                 /\ stack'[k].tid # Tid
  <2>1. SUFFICES ASSUME NEW k \in 1..Len(stack')
                 PROVE  /\ k \in 1..Len(stack) /\ stack'[k].tid = stack[k].tid
                        /\ stack'[k].tid # Tid
    OBVIOUS
  <2>2. k \in 1..Len(stack) /\ stack'[k].tid = stack[k].tid /\ stack[k].tid \in Nat
    <3>1. k \in 1..Len(stack) /\ k \in 1..(Len(stack) - 1)
      BY <1>3, <1>4
    <3>2. stack[k].tid \in Tids
      BY <3>1, Numbers
    <3>3. QED
      BY <1>1, <1>4, <3>1, <3>2 DEF Positions
  <2>3. stack[k].tid <= parent
    <3>1. CASE k = Len(stack) - 1
      BY <1>3, <3>1
    <3>2. CASE k # Len(stack) - 1
      <4>1. k < Len(stack) - 1 /\ Len(stack) - 1 \in 1..Len(stack)
        BY <1>3, <1>4, <3>2
      <4>2. QED
        BY <1>3, <2>2, <4>1 DEF TreeInv, StackOrdered
    <3>3. QED
      BY <3>1, <3>2
  <2>4. QED
    BY <1>3, <1>6, <2>2, <2>3
<1>11. ASSUME NEW t \in Tids, NEW i \in 1..Len(ChildrenOf(t))
       PROVE  /\ ChildrenOf(t)[i] \in Spawned
              /\ \A c : c = ChildrenOf(t)[i] => Parent(c)' = t
              /\ \A k \in 1..Len(stack') : stack'[k].tid # ChildrenOf(t)[i]
              /\ t = parent => ChildrenOf(t)[i] < Tid
  <2>1. /\ ChildrenOf(t)[i] \in Spawned /\ Parent(ChildrenOf(t)[i]) = t
        /\ \A k \in 1..Len(stack) : stack[k].tid # ChildrenOf(t)[i]
        /\ ChildrenOf(t)[i] \in Nat
    BY <1>1 DEF TreeInv, ChildrenOrdered, Positions
  <2>2. ASSUME t = parent PROVE ChildrenOf(t)[i] < Tid
    <3>1. PICK k \in 1..Len(stack) : k = Len(stack)
      BY <1>3
    <3>2. Parent(ChildrenOf(t)[i]) < stack[k].tid
      BY <1>3, <1>6, <2>1, <2>2, <3>1
    <3>3. ChildrenOf(t)[i] <= Tid /\ ChildrenOf(t)[i] # Tid
      BY <1>3, <2>1, <3>1, <3>2 DEF TreeInv, StackOrdered
    <3>4. QED
      BY <1>3, <2>1, <3>3
  <2>3. QED
    <3>1. \A c : c = ChildrenOf(t)[i] => Parent(c)' = t
      BY <1>1, <1>2, <2>1
    <3>2. QED
      BY <1>10, <2>1, <2>2, <3>1
<1>12. \A t \in Tids : \A i, j \in 1..Len(ChildrenOf(t)) :
         i < j => ChildrenOf(t)[i] < ChildrenOf(t)[j]
  BY DEF TreeInv, ChildrenOrdered
<1>13. PICK old, children : old = ChildrenOf(parent) /\ children = ChildrenOf(parent)'
  OBVIOUS
<1>14. /\ old \in Seq(Positions) /\ children = Append(old, Tid)
       /\ Len(children) = Len(old) + 1 /\ Len(old) \in Nat
       /\ children[Len(old) + 1] = Tid /\ \A i \in 1..Len(old) : children[i] = old[i]
  <2>1. old \in Seq(Positions) /\ children = Append(old, Tid) /\ Tid \in Positions
    BY <1>1, <1>3, <1>7, <1>13, Numbers
  <2>2. QED
    BY <2>1
<1>15. ASSUME NEW i \in 1..Len(children)
       PROVE  /\ children[i] \in Spawned /\ Parent(children[i])' = parent
              /\ \A k \in 1..Len(stack') : stack'[k].tid # children[i]
              /\ \A j \in 1..Len(children) : i < j => children[i] < children[j]
  <2>1. CASE i \in 1..Len(old)
    <3>1. /\ children[i] \in Spawned /\ Parent(children[i])' = parent
          /\ \A k \in 1..Len(stack') : stack'[k].tid # children[i]
          /\ children[i] < Tid
      BY <1>3, <1>11, <1>13, <1>14, <2>1
    <3>2. \A j \in 1..Len(old) : i < j => children[i] < children[j]
      BY <1>3, <1>12, <1>13, <1>14, <2>1
    <3>3. \A j \in 1..Len(children) : j \in 1..Len(old) \/ children[j] = Tid
      BY <1>14
    <3>4. QED
      BY <3>1, <3>2, <3>3
  <2>2. CASE i = Len(old) + 1
    BY <1>2, <1>3, <1>6, <1>10, <1>14, <2>2
  <2>3. QED
    BY <1>14, <2>1, <2>2
<1>16. ChildrenOrdered'
  <2>1. ASSUME NEW t \in Tids, t # parent PROVE ChildrenOf(t)' = ChildrenOf(t)
    BY <1>7, <2>1
  <2>2. QED
    BY <1>1, <1>11, <1>12, <1>13, <1>15, <2>1 DEF ChildrenOrdered
<1>17. QED
  BY <1>8, <1>9, <1>16 DEF TreeInv

-----------------------------------------------------------------------------
(***************************************************************************)
(* The list of all threads.                                                *)
(***************************************************************************)
\* A reversed sequence, by position.
LEMMA ReversePositions ==
  ASSUME NEW S, NEW s \in Seq(S)
  PROVE  /\ Reverse(s) \in Seq(S) /\ Len(Reverse(s)) = Len(s)
         /\ \A i \in 1..Len(s) : Reverse(s)[i] = s[Len(s) - i + 1]
<1>1. Len(s) \in Nat /\ \A i \in 1..Len(s) : s[i] \in S /\ Len(s) - i + 1 \in 1..Len(s)
  OBVIOUS
<1>2. QED
  BY <1>1 DEF Reverse

\* A concatenation, by position.
LEMMA ConcatPositions ==
  ASSUME NEW S, NEW a \in Seq(S), NEW b \in Seq(S)
  PROVE  /\ a \o b \in Seq(S) /\ Len(a \o b) = Len(a) + Len(b)
         /\ \A i \in 1..Len(a) : (a \o b)[i] = a[i]
         /\ \A i \in 1..Len(b) : (a \o b)[Len(a) + i] = b[i]
OBVIOUS

\* The elements of a sequence are at its positions.
LEMMA PositionOf ==
  ASSUME NEW S, NEW s \in Seq(S), NEW x
  PROVE  x \in ToSet(s) <=> \E i \in 1..Len(s) : x = s[i]
BY DEF ToSet

\* A finished trace has an empty stack: every thread is listed by its parent.
LEMMA AllListed ==
  ASSUME Inv, TreeInv, stack = <<>>, NEW t \in Tids, NEW v
  PROVE  v \in ToSet(ChildrenOf(t)) <=> v \in Spawned /\ Parent(v) = t
<1>1. ChildrenOf(t) \in Seq(Positions) /\ Spawned \subseteq Tids
  BY Numbers
<1>2. ASSUME v \in ToSet(ChildrenOf(t)) PROVE v \in Spawned /\ Parent(v) = t
  BY <1>1, <1>2, PositionOf DEF TreeInv, ChildrenOrdered
<1>3. ASSUME v \in Spawned, Parent(v) = t PROVE v \in ToSet(ChildrenOf(t))
  <2>1. v \in Tids /\ threads[v].spawnSite # NoSpawn
    BY <1>1, <1>3 DEF TreeInv, SpawnTree
  <2>2. ~Starting(v)
    BY DEF Starting
  <2>3. Listed(v)
    BY <2>1, <2>2 DEF Inv, SpawnInv
  <2>4. QED
    BY <1>3, <2>3 DEF Listed, Parent, ChildrenOf
<1>4. QED
  BY <1>2, <1>3

\* The walk lists the youngest thread that waits, and puts its children, the
\* youngest last, above the others: those are younger than all of them.
LEMMA ListFlattens ==
  ASSUME Inv, TreeInv, ListInv, Flatten
  PROVE  ListInv'
<1>1. /\ status = "flattening" /\ status' = "flattening" /\ stack = <<>>
      /\ flatThreads \in Seq(Positions) /\ flattenWorklist \in Seq(Positions)
      /\ flattenWorklist # <<>> /\ UNCHANGED threads
  BY DEF Flatten, Inv, Typed, StackInv
<1>2. PICK n, t, work : /\ n = Len(flatThreads) /\ t = Last(flattenWorklist)
                        /\ work = Len(flattenWorklist)
  OBVIOUS
<1>3. n \in Nat /\ work \in Nat \ {0} /\ t = flattenWorklist[work] /\ work \in 1..work
  BY <1>1, <1>2 DEF Last
<1>4. /\ Tids \subseteq Positions /\ Spawned \subseteq Tids /\ Tids = Spawned \cup {1}
      /\ 1 \notin Spawned /\ Len(threads) \in Nat
  BY Numbers DEF Tids, Spawned, Positions
<1>5. /\ n <= Len(threads) /\ \A i \in 1..n : flatThreads[i] = i
      /\ \A i, j \in 1..work : i < j => flattenWorklist[j] < flattenWorklist[i]
      /\ \A v \in Tids : v \in ToSet(flattenWorklist) <=> n < v /\ (v = 1 \/ Parent(v) <= n)
  BY <1>1, <1>2 DEF ListInv, Waiting
<1>6. \A v : v \in ToSet(flattenWorklist) <=> \E i \in 1..work : v = flattenWorklist[i]
  BY <1>1, <1>2, PositionOf
<1>7. ToSet(flattenWorklist) \subseteq Tids
  BY DEF Inv, FlatInv
<1>8. \A v \in Spawned : Parent(v) \in 1..(v - 1)
  BY DEF TreeInv, SpawnTree
<1>9. t \in Tids /\ t = n + 1
  <2>1. t \in ToSet(flattenWorklist) /\ t \in Tids /\ n < t /\ t \in Nat
    BY <1>3, <1>4, <1>5, <1>6, <1>7 DEF Positions
  <2>2. n + 1 \in Tids
    BY <1>3, <1>4, <2>1 DEF Tids
  <2>3. n + 1 = 1 \/ Parent(n + 1) <= n
    <3>1. CASE n + 1 \in Spawned
      BY <1>3, <1>8, <3>1
    <3>2. CASE n + 1 \notin Spawned
      BY <1>4, <2>2, <3>2
    <3>3. QED
      BY <3>1, <3>2
  <2>4. n + 1 \in ToSet(flattenWorklist)
    BY <1>3, <1>5, <2>2, <2>3
  <2>5. PICK i \in 1..work : n + 1 = flattenWorklist[i]
    BY <1>6, <2>4
  <2>6. CASE i = work
    BY <1>3, <2>1, <2>5, <2>6
  <2>7. CASE i # work
    <3>1. i < work
      BY <1>3, <2>7
    <3>2. t < n + 1
      BY <1>3, <1>5, <2>5, <3>1
    <3>3. QED
      BY <1>3, <2>1, <3>2
  <2>8. QED
    BY <2>6, <2>7
<1>10. PICK rest, back : rest = Front(flattenWorklist) /\ back = Reverse(ChildrenOf(t))
  OBVIOUS
<1>11. /\ rest \in Seq(Positions) /\ Len(rest) = work - 1
       /\ \A i \in 1..(work - 1) : rest[i] = flattenWorklist[i]
  BY <1>1, <1>2, <1>10, FrontOf
<1>12. /\ ChildrenOf(t) \in Seq(Positions) /\ back \in Seq(Positions)
       /\ Len(back) = Len(ChildrenOf(t)) /\ Len(back) \in Nat
       /\ \A i \in 1..Len(back) : /\ Len(back) - i + 1 \in 1..Len(back)
                                  /\ back[i] = ChildrenOf(t)[Len(back) - i + 1]
  <2>1. ChildrenOf(t) \in Seq(Positions)
    BY <1>9, Numbers
  <2>2. QED
    BY <1>10, <2>1, ReversePositions
<1>13. flattenWorklist' = rest \o back /\ flatThreads' = Append(flatThreads, t)
  BY <1>2, <1>10 DEF Flatten, PushChildren, ChildrenOf
<1>14. /\ Len(flattenWorklist') = Len(rest) + Len(back)
       /\ \A i \in 1..Len(rest) : flattenWorklist'[i] = rest[i]
       /\ \A i \in 1..Len(back) : flattenWorklist'[Len(rest) + i] = back[i]
  <2>1. /\ Len(rest \o back) = Len(rest) + Len(back)
        /\ \A i \in 1..Len(rest) : (rest \o back)[i] = rest[i]
        /\ \A i \in 1..Len(back) : (rest \o back)[Len(rest) + i] = back[i]
    <3>1. rest \in Seq(Positions) /\ back \in Seq(Positions)
      BY <1>11, <1>12
    <3>2. QED
      BY <3>1, ConcatPositions
  <2>2. PICK all : all = rest \o back
    OBVIOUS
  <2>3. flattenWorklist' = all
    BY <1>13, <2>2
  <2>4. QED
    BY <2>1, <2>2, <2>3
<1>15. flattenWorklist' \in Seq(Positions)
  BY <1>11, <1>12, <1>13
<1>16. Len(flatThreads') = n + 1 /\ \A i \in 1..(n + 1) : flatThreads'[i] = i
  BY <1>1, <1>2, <1>3, <1>5, <1>9, <1>13
\* What is left of the list: younger than the thread that is listed.
<1>17. ASSUME NEW i \in 1..Len(rest)
       PROVE  /\ rest[i] \in Spawned /\ t < rest[i] /\ Parent(rest[i]) <= n
              /\ \A j \in 1..Len(rest) : i < j => rest[j] < rest[i]
  <2>1. i \in 1..work /\ i < work /\ rest[i] = flattenWorklist[i]
    BY <1>3, <1>11
  <2>2. t < rest[i]
    BY <1>3, <1>5, <2>1
  <2>3. rest[i] \in ToSet(flattenWorklist) /\ rest[i] \in Tids
    BY <1>6, <1>7, <2>1
  <2>4. rest[i] # 1
    BY <1>3, <1>9, <2>2
  <2>5. rest[i] \in Spawned /\ Parent(rest[i]) <= n
    BY <1>4, <1>5, <2>3, <2>4
  <2>6. \A j \in 1..Len(rest) : i < j => rest[j] < rest[i]
    BY <1>3, <1>5, <1>11, <2>1
  <2>7. QED
    BY <2>2, <2>5, <2>6
<1>18. ASSUME NEW i \in 1..Len(back)
       PROVE  /\ back[i] \in Spawned /\ Parent(back[i]) = t
              /\ \A j \in 1..Len(back) : i < j => back[j] < back[i]
  <2>1. back[i] \in Spawned /\ Parent(back[i]) = t
    BY <1>9, <1>12 DEF TreeInv, ChildrenOrdered
  <2>2. ASSUME NEW j \in 1..Len(back), i < j PROVE back[j] < back[i]
    <3>1. Len(back) - j + 1 < Len(back) - i + 1
      BY <1>12, <2>2
    <3>2. \A a, b \in 1..Len(ChildrenOf(t)) : a < b => ChildrenOf(t)[a] < ChildrenOf(t)[b]
      BY <1>9 DEF TreeInv, ChildrenOrdered
    <3>3. QED
      BY <1>12, <3>1, <3>2
  <2>3. QED
    BY <2>1, <2>2
<1>19. ASSUME NEW i \in 1..Len(rest), NEW j \in 1..Len(back)
       PROVE  back[j] < rest[i]
  <2>1. PICK f, c : f = rest[i] /\ c = back[j]
    OBVIOUS
  <2>2. /\ f \in Spawned /\ c \in Spawned /\ f \in Nat /\ c \in Nat
        /\ t < f /\ Parent(f) <= n /\ Parent(c) = t /\ Parent(f) \in Nat
    <3>1. /\ f \in Spawned /\ t < f /\ Parent(f) <= n
          /\ c \in Spawned /\ Parent(c) = t
      BY <1>17, <1>18, <2>1
    <3>2. Parent(f) \in 1..(f - 1) /\ f \in Nat /\ c \in Nat
      BY <1>4, <1>8, <3>1 DEF Positions
    <3>3. QED
      BY <3>1, <3>2
  <2>3. Parent(f) < Parent(c) /\ ~(f <= Parent(c)) /\ f # c
    BY <1>3, <1>9, <2>2
  <2>4. ~(f < c)
    BY <2>2, <2>3 DEF TreeInv, SpawnTree
  <2>5. QED
    BY <2>1, <2>2, <2>3, <2>4
<1>20. ASSUME NEW i \in 1..Len(flattenWorklist')
       PROVE  \/ i \in 1..Len(rest) /\ flattenWorklist'[i] = rest[i]
              \/ \E k \in 1..Len(back) : i = Len(rest) + k /\ flattenWorklist'[i] = back[k]
  <2>1. CASE i \in 1..Len(rest)
    BY <1>14, <2>1
  <2>2. CASE i \notin 1..Len(rest)
    <3>1. i - Len(rest) \in 1..Len(back) /\ i = Len(rest) + (i - Len(rest))
      BY <1>11, <1>12, <1>14, <2>2
    <3>2. QED
      BY <1>14, <3>1
  <2>3. QED
    BY <2>1, <2>2
<1>21. ASSUME NEW i \in 1..Len(flattenWorklist'), NEW j \in 1..Len(flattenWorklist'), i < j
       PROVE  flattenWorklist'[j] < flattenWorklist'[i]
  <2>1. CASE j \in 1..Len(rest)
    <3>1. i \in 1..Len(rest)
      BY <1>11, <1>21, <2>1
    <3>2. QED
      BY <1>14, <1>17, <1>21, <2>1, <3>1
  <2>2. CASE j \notin 1..Len(rest)
    <3>1. PICK k \in 1..Len(back) : j = Len(rest) + k /\ flattenWorklist'[j] = back[k]
      BY <1>20, <2>2
    <3>2. CASE i \in 1..Len(rest)
      BY <1>14, <1>19, <3>1, <3>2
    <3>3. CASE i \notin 1..Len(rest)
      <4>1. PICK m \in 1..Len(back) : i = Len(rest) + m /\ flattenWorklist'[i] = back[m]
        BY <1>20, <3>3
      <4>2. m < k
        BY <1>11, <1>12, <1>21, <3>1, <4>1
      <4>3. QED
        BY <1>18, <3>1, <4>1, <4>2
    <3>4. QED
      BY <3>2, <3>3
  <2>3. QED
    BY <2>1, <2>2
<1>22. ASSUME NEW v \in Tids
       PROVE  v \in ToSet(flattenWorklist') <=> n + 1 < v /\ (v = 1 \/ Parent(v) <= n + 1)
  <2>1. v \in ToSet(flattenWorklist') <=> \E i \in 1..Len(flattenWorklist') : v = flattenWorklist'[i]
    BY <1>15, PositionOf
  <2>2. v \in Nat /\ v # 0 /\ (v # 1 => v \in Spawned /\ Parent(v) \in Nat /\ Parent(v) < v)
    BY <1>4, <1>8 DEF Positions
  <2>3. ASSUME NEW i \in 1..Len(flattenWorklist'), v = flattenWorklist'[i]
        PROVE  n + 1 < v /\ Parent(v) <= n + 1
    <3>1. CASE i \in 1..Len(rest)
      <4>1. v = rest[i]
        BY <1>14, <2>3, <3>1
      <4>2. v # 1 /\ t < v /\ Parent(v) <= n
        BY <1>4, <1>17, <3>1, <4>1
      <4>3. QED
        BY <1>3, <1>9, <2>2, <4>2
    <3>2. CASE i \notin 1..Len(rest)
      <4>1. PICK k \in 1..Len(back) : v = back[k]
        BY <1>20, <2>3, <3>2
      <4>2. v # 1 /\ Parent(v) = t
        BY <1>4, <1>18, <4>1
      <4>3. QED
        BY <1>3, <1>9, <2>2, <4>2
    <3>3. QED
      BY <3>1, <3>2
  <2>4. ASSUME n + 1 < v, v = 1 \/ Parent(v) <= n + 1
        PROVE  \E i \in 1..Len(flattenWorklist') : v = flattenWorklist'[i]
    <3>1. v \in Spawned /\ Parent(v) \in Nat /\ Parent(v) <= n + 1
      BY <1>3, <2>2, <2>4
    <3>2. CASE Parent(v) <= n
      <4>1. v \in ToSet(flattenWorklist)
        BY <1>3, <1>5, <2>2, <2>4, <3>2
      <4>2. PICK i \in 1..work : v = flattenWorklist[i]
        BY <1>6, <4>1
      <4>3. i # work
        <5>1. SUFFICES ASSUME i = work PROVE FALSE
          OBVIOUS
        <5>2. v = t
          BY <1>3, <4>2, <5>1
        <5>3. QED
          BY <1>3, <1>9, <2>4, <5>2
      <4>4. i \in 1..Len(rest) /\ v = rest[i]
        BY <1>3, <1>11, <4>2, <4>3
      <4>5. i \in 1..Len(flattenWorklist') /\ v = flattenWorklist'[i]
        BY <1>11, <1>12, <1>14, <4>4
      <4>6. QED
        BY <4>5
    <3>3. CASE Parent(v) = n + 1
      <4>1. v \in ToSet(ChildrenOf(t))
        BY <1>1, <1>9, <3>1, <3>3, AllListed
      <4>2. PICK c \in 1..Len(back) : v = ChildrenOf(t)[c]
        BY <1>12, <4>1, PositionOf
      <4>3. PICK k \in 1..Len(back) : k = Len(back) - c + 1
        BY <1>12
      <4>4. Len(back) - k + 1 = c /\ v = back[k]
        <5>1. Len(back) - k + 1 = c
          BY <1>12, <4>3
        <5>2. back[k] = ChildrenOf(t)[Len(back) - k + 1]
          BY <1>12
        <5>3. QED
          BY <4>2, <5>1, <5>2
      <4>5. /\ Len(rest) + k \in 1..Len(flattenWorklist')
            /\ v = flattenWorklist'[Len(rest) + k]
        BY <1>11, <1>12, <1>14, <4>4
      <4>6. QED
        BY <4>5
    <3>4. QED
      BY <1>3, <3>1, <3>2, <3>3
  <2>5. QED
    BY <2>1, <2>3, <2>4
<1>23. Tids' = Tids /\ \A v : Parent(v)' = Parent(v)
  BY <1>1 DEF Tids, Parent
<1>24. n + 1 <= Len(threads')
  BY <1>1, <1>4, <1>9 DEF Tids
<1>25. ToSet(flattenWorklist)' = ToSet(flattenWorklist')
  BY DEF ToSet
<1>26. QED
  BY <1>1, <1>16, <1>21, <1>22, <1>23, <1>24, <1>25 DEF ListInv, Waiting

\* The steps of buildTrace.
Building == Staying \/ VisitCall \/ VisitFork \/ ReturnFromCall \/ ReturnFromThread

\* The steps that leave the threads alone.
LEMMA OtherSteps ==
  ASSUME [Next]_vars, ~Building
  PROVE  /\ UNCHANGED threads /\ (stack' = stack \/ stack' = <<>>)
         /\ ReturnFromMain \/ Flatten \/ Finish \/ Abort \/ UNCHANGED vars
<1>1. ReturnFromMain \/ Flatten \/ Finish \/ Abort \/ UNCHANGED vars
  BY DEF Next, Building, Staying, Finished
<1>2. UNCHANGED threads /\ (stack' = stack \/ stack' = <<>>)
  BY <1>1 DEF ReturnFromMain, Flatten, Finish, Abort, vars
<1>3. QED
  BY <1>1, <1>2

LEMMA BuildingStays ==
  ASSUME Inv, Building
  PROVE  status = "building" /\ UNCHANGED <<program, status, flatThreads, flattenWorklist>>
<1>1. CASE Staying
  BY <1>1, StayingAdvances DEF Advances, HasIR, Continue
<1>2. CASE VisitCall
  BY <1>2, VisitCallCalls DEF Calls, HasIR, Continue
<1>3. CASE VisitFork
  BY <1>3, VisitForkForks DEF Forks, HasIR
<1>4. CASE ReturnFromCall \/ ReturnFromThread
  BY <1>4 DEF ReturnFromCall, ReturnFromThread, Ended, Continue
<1>5. QED
  BY <1>1, <1>2, <1>3, <1>4 DEF Building

\* Every step keeps the threads in the order of the walk.
LEMMA TreeNext ==
  ASSUME Inv, TreeInv, [Next]_vars
  PROVE  TreeInv'
<1>1. Len(stack) \in Nat /\ \A i \in 1..Len(stack) : stack[i].tid \in Nat
  BY Numbers DEF Positions
<1>2. \A i, j \in 1..Len(stack) : i < j => stack[i].tid <= stack[j].tid
  BY DEF TreeInv, StackOrdered
<1>3. CASE Staying
  <2>1. PICK evs : Advances(evs)
    BY <1>3, StayingAdvances
  <2>2. /\ Len(stack') = Len(stack)
        /\ \A i \in 1..Len(stack) : stack'[i].tid = stack[i].tid
    BY <2>1, AdvancedStack DEF Advances, SameBelow
  <2>3. /\ Len(threads') = Len(threads) /\ SameChildren
        /\ \A u \in Tids : threads'[u].spawnSite = threads[u].spawnSite
    BY <2>1 DEF Advances, Grows
  <2>4. QED
    BY <1>2, <2>2, <2>3, TreeStays
<1>4. CASE VisitCall
  <2>1. PICK evs, frame : Calls(evs, frame)
    BY <1>4, VisitCallCalls
  <2>2. /\ stack \in Seq(FrameRecords) /\ Len(stack) \in Positions
        /\ stack[Len(stack)].tid = Tid /\ Tid \in Nat
    BY <2>1, TopTyped DEF Calls, Inv, Typed, HasIR, Tid, Top, FrameRecords, Positions
  <2>3. /\ Len(stack') = Len(stack) + 1 /\ stack'[Len(stack) + 1].tid = Tid
        /\ \A i \in 1..Len(stack) : stack'[i].tid = stack[i].tid
    BY <2>1, <2>2 DEF Calls
  <2>4. /\ Len(threads') = Len(threads) /\ SameChildren
        /\ \A u \in Tids : threads'[u].spawnSite = threads[u].spawnSite
    BY <2>1 DEF Calls, Grows
  <2>5. ASSUME NEW i \in 1..Len(stack')
        PROVE  \E j \in 1..Len(stack) : stack'[i].tid = stack[j].tid
    BY <2>2, <2>3 DEF Positions
  <2>6. ASSUME NEW i \in 1..Len(stack'), NEW j \in 1..Len(stack'), i < j
        PROVE  stack'[i].tid <= stack'[j].tid
    <3>1. i \in 1..Len(stack)
      BY <1>1, <2>3, <2>6
    <3>2. CASE j \in 1..Len(stack)
      BY <1>2, <2>3, <2>6, <3>1, <3>2
    <3>3. CASE j = Len(stack) + 1
      <4>1. CASE i = Len(stack)
        BY <2>2, <2>3, <3>3, <4>1
      <4>2. CASE i # Len(stack)
        <5>1. Len(stack) \in 1..Len(stack) /\ i < Len(stack)
          BY <1>1, <2>2, <3>1, <4>2 DEF Positions
        <5>2. stack[i].tid <= stack[Len(stack)].tid
          BY <1>2, <3>1, <5>1
        <5>3. QED
          BY <2>2, <2>3, <3>1, <3>3, <5>2
      <4>3. QED
        BY <4>1, <4>2
    <3>4. QED
      BY <1>1, <2>3, <3>2, <3>3
  <2>7. QED
    BY <2>4, <2>5, <2>6, TreeStays
<1>5. CASE VisitFork
  BY <1>5, VisitForkForks, TreeForks
<1>6. CASE ReturnFromCall
  <2>1. PICK evs : ReturnsToCall(evs)
    BY <1>6, ReturnFromCallReturns
  <2>2. /\ Len(stack') = Len(stack) - 1
        /\ \A i \in 1..(Len(stack) - 1) : stack'[i].tid = stack[i].tid
    BY <2>1, PoppedStack DEF ReturnsToCall, Returns, SameBelow
  <2>3. /\ Len(threads') = Len(threads) /\ SameChildren
        /\ \A u \in Tids : threads'[u].spawnSite = threads[u].spawnSite
    BY <2>1 DEF ReturnsToCall, Returns, Grows
  <2>4. \A i \in 1..Len(stack') : i \in 1..Len(stack) /\ stack'[i].tid = stack[i].tid
    BY <1>1, <2>2
  <2>5. QED
    BY <1>2, <2>3, <2>4, TreeStays
<1>7. CASE ReturnFromThread
  BY <1>7, ReturnFromThreadReturns, TreeReturns
<1>8. CASE ~Building
  <2>1. UNCHANGED threads /\ (stack' = stack \/ stack' = <<>>)
    BY <1>8, OtherSteps
  <2>2. SameChildren
    BY <2>1 DEF SameChildren
  <2>3. CASE stack' = stack
    BY <1>2, <2>1, <2>2, <2>3, TreeStays
  <2>4. CASE stack' = <<>>
    <3>1. \A i \in 1..Len(stack') : FALSE
      BY <2>4
    <3>2. QED
      BY <2>1, <2>2, <3>1, TreeStays
  <2>5. QED
    BY <2>1, <2>3, <2>4
<1>9. QED
  BY <1>3, <1>4, <1>5, <1>6, <1>7, <1>8 DEF Building

\* Every step keeps the list a prefix of the threads in their order.
LEMMA ListNext ==
  ASSUME Inv, TreeInv, ListInv, [Next]_vars
  PROVE  ListInv'
<1>1. CASE Building
  <2>1. status' = "building" /\ flatThreads' = <<>>
    BY <1>1, BuildingStays DEF ListInv
  <2>2. QED
    BY <2>1 DEF ListInv
<1>2. CASE ReturnFromMain
  <2>1. /\ status = "building" /\ status' = "flattening" /\ flattenWorklist' = <<1>>
        /\ flatThreads' = <<>> /\ UNCHANGED threads
    BY <1>2 DEF ReturnFromMain, Ended, ListInv
  <2>2. /\ Tids' = Tids /\ Tids = Spawned \cup {1} /\ Tids \subseteq Positions
        /\ Len(threads) \in Nat
    BY <2>1, Numbers DEF Tids, Spawned, Positions
  <2>3. Len(flatThreads') = 0 /\ Len(flattenWorklist') = 1 /\ ToSet(flattenWorklist') = {1}
    BY <2>1 DEF ToSet
  <2>4. ASSUME NEW v \in Tids
        PROVE  v \in {1} <=> 0 < v /\ (v = 1 \/ Parent(v)' <= 0)
    <3>1. CASE v = 1
      BY <3>1
    <3>2. CASE v \in Spawned
      <4>1. Parent(v)' = Parent(v) /\ Parent(v) \in 1..(v - 1) /\ v # 1
        BY <2>1, <2>2, <3>2, Numbers DEF Parent, TreeInv, SpawnTree, Spawned
      <4>2. ~(Parent(v)' <= 0)
        BY <2>2, <4>1 DEF Positions
      <4>3. QED
        BY <4>1, <4>2
    <3>3. QED
      BY <2>2, <3>1, <3>2
  <2>5. \A i, j \in 1..Len(flattenWorklist') : ~(i < j)
    BY <2>3
  <2>6. \A i \in 1..Len(flatThreads') : FALSE
    BY <2>3
  <2>7. 0 <= Len(threads') /\ ToSet(flattenWorklist)' = ToSet(flattenWorklist')
    BY <2>1, <2>2 DEF ToSet
  <2>8. QED
    BY <2>1, <2>2, <2>3, <2>4, <2>5, <2>6, <2>7 DEF ListInv, Waiting
<1>3. CASE Flatten
  BY <1>3, ListFlattens
<1>4. CASE Finish \/ Abort \/ UNCHANGED vars
  <2>1. /\ UNCHANGED <<threads, flatThreads, flattenWorklist>>
        /\ \/ status' = status
           \/ status' = "aborted"
           \/ status = "flattening" /\ status' = "done" /\ flattenWorklist = <<>>
    BY <1>4 DEF Finish, Abort, vars
  <2>2. Tids' = Tids /\ \A v : Waiting(v)' <=> Waiting(v)
    BY <2>1 DEF Tids, Waiting, Parent
  <2>3. ToSet(flattenWorklist)' = ToSet(flattenWorklist)
    BY <2>1 DEF ToSet
  <2>4. QED
    BY <2>1, <2>2, <2>3 DEF ListInv
<1>5. QED
  BY <1>1, <1>2, <1>3, <1>4, OtherSteps

LEMMA InitOrdered ==
  ASSUME Init
  PROVE  TreeInv /\ ListInv
<1>1. /\ stack = <<Frame(1, program.main, InitialCtx)>> /\ status = "building"
      /\ threads = <<NewThread(NoSpawn, program.main, InitialCtx)>> /\ flatThreads = <<>>
  BY DEF Init
<1>2. /\ Len(threads) = 1 /\ threads[1].spawnSite = NoSpawn
      /\ threads[1].childThreads = <<>> /\ Len(stack) = 1
  BY <1>1 DEF NewThread
<1>3. Tids = {1} /\ Spawned = {} /\ ChildrenOf(1) = <<>>
  BY <1>2 DEF Tids, Spawned, ChildrenOf
<1>4. SpawnTree
  BY <1>2, <1>3 DEF SpawnTree
<1>5. StackOrdered
  <2>1. \A i, j \in 1..Len(stack) : ~(i < j)
    BY <1>2
  <2>2. QED
    BY <1>3, <2>1 DEF StackOrdered
<1>6. ChildrenOrdered
  BY <1>3 DEF ChildrenOrdered
<1>7. ListInv
  BY <1>1 DEF ListInv
<1>8. QED
  BY <1>4, <1>5, <1>6, <1>7 DEF TreeInv

\* When nothing is left to list, every thread is listed.
LEMMA OrderedFlattened ==
  ASSUME Inv, TreeInv, ListInv
  PROVE  FlattenedInThreadOrder
<1>1. SUFFICES ASSUME status = "done"
               PROVE  flatThreads = [i \in 1..Len(threads) |-> i]
  BY DEF FlattenedInThreadOrder
<1>2. PICK n : n = Len(flatThreads)
  OBVIOUS
<1>3. /\ flatThreads \in Seq(Positions) /\ flattenWorklist = <<>> /\ n \in Nat
      /\ n <= Len(threads) /\ \A i \in 1..n : flatThreads[i] = i
      /\ \A v \in Tids : ~(n < v /\ (v = 1 \/ Parent(v) <= n))
  <2>1. ToSet(<<>>) = {}
    BY DEF ToSet
  <2>2. QED
    BY <1>1, <1>2, <2>1 DEF ListInv, Waiting, Inv, Typed
<1>4. Len(threads) \in Nat /\ Tids = Spawned \cup {1}
  BY Numbers DEF Tids, Spawned, Positions
<1>5. n = Len(threads)
  <2>1. SUFFICES ASSUME n < Len(threads) PROVE FALSE
    BY <1>3, <1>4
  <2>2. n + 1 \in Tids /\ n < n + 1
    BY <1>3, <1>4, <2>1 DEF Tids
  <2>3. CASE n + 1 = 1
    BY <1>3, <2>2, <2>3
  <2>4. CASE n + 1 \in Spawned
    <3>1. Parent(n + 1) \in 1..((n + 1) - 1)
      BY <2>4 DEF TreeInv, SpawnTree
    <3>2. Parent(n + 1) <= n
      BY <1>3, <3>1
    <3>3. QED
      BY <1>3, <2>2, <3>2
  <2>5. QED
    BY <1>4, <2>2, <2>3, <2>4
<1>6. flatThreads = [i \in 1..n |-> flatThreads[i]]
  BY <1>2, <1>3
<1>7. QED
  BY <1>3, <1>5, <1>6

\* The list of all threads of a finished trace is in the order of their IDs:
\* ProgramTrace walks the children of a thread depth first, as buildTrace
\* spawned them, so the first fork of the list is the first fork of the program.
THEOREM ThreadsFlattenInOrder == Spec => []FlattenedInThreadOrder
<1> DEFINE Ordered == Inv /\ TreeInv /\ ListInv
<1>1. Init => Ordered
  BY InitInv, InitOrdered
<1>2. Ordered /\ [Next]_vars => Ordered'
  BY NextKeeps, TreeNext, ListNext
<1>3. Ordered => FlattenedInThreadOrder
  BY OrderedFlattened
<1> HIDE DEF Ordered
<1>4. QED
  BY <1>1, <1>2, <1>3, PTL DEF Spec

-----------------------------------------------------------------------------
(***************************************************************************)
(* The origins a context remembers.                                        *)
(***************************************************************************)
Origins(t) == threads[t].einfo.origins

\* The context of a thread names the last spawn sites above it, those of its
\* parent and its own ...
ThreadOrigins(t) ==
  Origins(t) = IF threads[t].spawnSite = NoSpawn THEN <<>>
               ELSE LastK(Append(Origins(Parent(t)), EventAt(threads[t].spawnSite).ir.inst))

\* ... and so does that of each event and each activation of the thread.
EventOrigins(t) ==
  \A i \in 1..Len(threads[t].events) : threads[t].events[i].ctx.origins = Origins(t)

FrameOrigins == \A i \in 1..Len(stack) : stack[i].ctx.origins = Origins(stack[i].tid)

OriginsInv ==
  /\ \A t \in Tids : ThreadOrigins(t) /\ EventOrigins(t)
  /\ FrameOrigins

\* A step that changes no origins of a thread keeps those of all that is built.
LEMMA OriginsGrow ==
  ASSUME Inv, TreeInv, OriginsInv, NEW t \in Tids, NEW evs \in Seq(EventRecords),
         Grows(t, evs), \A k \in 1..Len(evs) : evs[k].ctx.origins = Origins(t),
         \A u \in Tids : Origins(u)' = Origins(u),
         NEW u \in Tids
  PROVE  ThreadOrigins(u)' /\ EventOrigins(u)'
<1>1. /\ Typed /\ SpawnInv /\ ThreadOrigins(u) /\ EventOrigins(u)
      /\ threads \in Seq(ThreadRecords)
  BY DEF Inv, Typed, OriginsInv
<1>2. PICK site : site = threads[u].spawnSite
  OBVIOUS
<1>3. threads'[u].spawnSite = site
  BY <1>2 DEF Grows
<1>4. ThreadOrigins(u)'
  <2>1. CASE site = NoSpawn
    BY <1>1, <1>2, <1>3, <2>1 DEF ThreadOrigins
  <2>2. CASE site # NoSpawn
    <3>1. site \in EventPIDs /\ site[1] \in Tids
      BY <1>1, <1>2, <2>2, SiteOfThread
    <3>2. EventAt(site)' = EventAt(site)
      BY <1>1, <3>1, EventsGrow
    <3>3. Origins(u) = LastK(Append(Origins(site[1]), EventAt(site).ir.inst))
      BY <1>1, <1>2, <2>2 DEF ThreadOrigins, Parent
    <3>4. Origins(site[1])' = Origins(site[1])
      BY <3>1
    <3>5. Origins(u)' = LastK(Append(Origins(site[1])', EventAt(site)'.ir.inst))
      BY <3>2, <3>3, <3>4
    <3>6. QED
      BY <1>3, <2>2, <3>5 DEF ThreadOrigins, Parent, Origins, EventAt
  <2>3. QED
    BY <2>1, <2>2
<1>5. EventOrigins(u)'
  <2>1. SUFFICES ASSUME NEW i \in 1..Len(threads'[u].events)
                 PROVE  threads'[u].events[i].ctx.origins = Origins(u)
    BY DEF EventOrigins
  <2>2. CASE u # t
    BY <1>1, <2>1, <2>2 DEF Grows, EventOrigins
  <2>3. CASE u = t
    <3>1. PICK old : old = threads[t].events
      OBVIOUS
    <3>2. old \in Seq(EventRecords)
      BY <1>1, <3>1, ThreadTyped DEF Tids
    <3>3. threads'[t].events = old \o evs
      BY <3>1 DEF Grows
    <3>4. i \in 1..Len(old \o evs) /\ threads'[u].events[i] = (old \o evs)[i]
      BY <2>1, <2>3, <3>3
    <3>5. /\ Len(old \o evs) = Len(old) + Len(evs)
          /\ \A j \in 1..Len(old) : (old \o evs)[j] = old[j]
          /\ \A k \in 1..Len(evs) : (old \o evs)[Len(old) + k] = evs[k]
      BY <3>2, ConcatPositions
    <3>6. CASE i \in 1..Len(old)
      BY <1>1, <2>3, <3>1, <3>4, <3>5, <3>6 DEF EventOrigins
    <3>7. CASE i \notin 1..Len(old)
      <4>1. i - Len(old) \in 1..Len(evs) /\ i = Len(old) + (i - Len(old))
        BY <3>2, <3>4, <3>5, <3>7
      <4>2. PICK k \in 1..Len(evs) : i = Len(old) + k
        BY <4>1
      <4>3. QED
        BY <2>3, <3>4, <3>5, <4>2
    <3>8. QED
      BY <3>6, <3>7
  <2>4. QED
    BY <2>2, <2>3
<1>6. QED
  BY <1>4, <1>5

\* The frames that are left, or that stay below a new one, name what they named.
LEMMA FramesStay ==
  ASSUME Inv, OriginsInv, NEW n \in 0..Len(stack), SameBelow(n),
         \A u \in Tids : Origins(u)' = Origins(u)
  PROVE  \A i \in 1..n : stack'[i].ctx.origins = threads'[stack'[i].tid].einfo.origins
<1>1. SUFFICES ASSUME NEW i \in 1..n
               PROVE  stack'[i].ctx.origins = threads'[stack'[i].tid].einfo.origins
  OBVIOUS
<1>2. i \in 1..Len(stack) /\ stack[i].tid \in Tids
  BY Numbers
<1>3. PICK u \in Tids : u = stack[i].tid
  BY <1>2
<1>4. stack[i].ctx.origins = Origins(u)
  BY <1>2, <1>3 DEF OriginsInv, FrameOrigins
<1>5. stack'[i].tid = u /\ stack'[i].ctx = stack[i].ctx
  BY <1>1, <1>3 DEF SameBelow
<1>6. Origins(u)' = threads'[u].einfo.origins /\ Origins(u)' = Origins(u)
  BY DEF Origins
<1>7. QED
  BY <1>4, <1>5, <1>6

\* The running activation has the context of its thread.
LEMMA TopOrigins ==
  ASSUME Inv, OriginsInv, status = "building"
  PROVE  Top.ctx.origins = Origins(Tid) /\ Thread.einfo.origins = Origins(Tid)
<1>1. Len(stack) \in 1..Len(stack)
  BY TopTyped DEF Inv, Positions
<1>2. QED
  BY <1>1 DEF OriginsInv, FrameOrigins, Top, Tid, Thread, Origins

\* Every step keeps the origins.
LEMMA OriginsNext ==
  ASSUME Inv, TreeInv, OriginsInv, [Next]_vars
  PROVE  OriginsInv'
<1>1. Len(stack) \in Nat
  BY Numbers
<1>2. ASSUME status = "building" PROVE Tid \in Tids /\ Thread = threads[Tid]
  BY <1>2, TopTyped DEF Inv, Thread
<1>3. CASE Staying
  <2>1. PICK evs : Advances(evs)
    BY <1>3, StayingAdvances
  <2>2. status = "building" /\ Tid \in Tids /\ Thread = threads[Tid]
    BY <1>2, <2>1 DEF Advances, HasIR
  <2>3. \A u \in Tids : Origins(u)' = Origins(u)
    BY <2>1, <2>2 DEF Advances, Informed, Origins
  <2>4. \A k \in 1..Len(evs) : evs[k].ctx.origins = Origins(Tid)
    BY <2>1, <2>2, TopOrigins DEF Advances
  <2>5. \A u \in Tids : ThreadOrigins(u)' /\ EventOrigins(u)'
    BY <2>1, <2>2, <2>3, <2>4, OriginsGrow DEF Advances
  <2>6. Len(stack') = Len(stack) /\ SameBelow(Len(stack)) /\ Len(stack) \in 0..Len(stack)
    BY <1>1, <2>1, AdvancedStack DEF Advances
  <2>7. FrameOrigins'
    BY <2>3, <2>6, FramesStay DEF FrameOrigins, Origins
  <2>8. Tids' = Tids
    BY <2>1 DEF Advances, Tids
  <2>9. QED
    BY <2>5, <2>7, <2>8 DEF OriginsInv
<1>4. CASE VisitCall
  <2>1. PICK evs, frame : Calls(evs, frame)
    BY <1>4, VisitCallCalls
  <2>2. status = "building" /\ Tid \in Tids /\ Thread = threads[Tid]
    BY <1>2, <2>1 DEF Calls, HasIR
  <2>3. frame.ctx.origins = Origins(Tid) /\ Thread.einfo.origins = Origins(Tid)
    BY <2>1, <2>2, TopOrigins DEF Calls
  <2>4. \A u \in Tids : Origins(u)' = Origins(u)
    BY <2>1, <2>3 DEF Calls, Informed, Origins
  <2>5. \A k \in 1..Len(evs) : evs[k].ctx.origins = Origins(Tid)
    BY <2>1, <2>3 DEF Calls
  <2>6. \A u \in Tids : ThreadOrigins(u)' /\ EventOrigins(u)'
    BY <2>1, <2>2, <2>4, <2>5, OriginsGrow DEF Calls
  <2>7. /\ Len(stack') = Len(stack) + 1 /\ stack'[Len(stack) + 1] = frame
        /\ \A i \in 1..Len(stack) : stack'[i] = stack[i]
    BY <2>1 DEF Calls, Inv, Typed
  <2>8. \A i \in 1..Len(stack) : stack'[i].ctx.origins = threads'[stack'[i].tid].einfo.origins
    <3>1. SameBelow(Len(stack))
      BY <1>1, <2>7 DEF SameBelow
    <3>2. QED
      BY <1>1, <2>4, <3>1, FramesStay
  <2>9. stack'[Len(stack) + 1].ctx.origins = threads'[stack'[Len(stack) + 1].tid].einfo.origins
    BY <2>1, <2>2, <2>3, <2>4, <2>7 DEF Calls, Origins
  <2>10. FrameOrigins'
    BY <1>1, <2>7, <2>8, <2>9 DEF FrameOrigins, Origins
  <2>11. Tids' = Tids
    BY <2>1 DEF Calls, Tids
  <2>12. QED
    BY <2>6, <2>10, <2>11 DEF OriginsInv
<1>5. CASE VisitFork
  <2>1. PICK evs, frame, new : Forks(evs, frame, new)
    BY <1>5, VisitForkForks
  <2>2. status = "building" /\ Tid \in Tids /\ Thread = threads[Tid]
    BY <1>2, <2>1 DEF Forks, HasIR
  <2>3. \A u \in Tids : Origins(u)' = Origins(u)
    BY <2>1, <2>2 DEF Forks, Informed, Origins
  <2>4. \A k \in 1..Len(evs) : evs[k].ctx.origins = Origins(Tid)
    BY <2>1, <2>2, TopOrigins DEF Forks
  <2>5. \A u \in Tids : ThreadOrigins(u)' /\ EventOrigins(u)'
    BY <2>1, <2>2, <2>3, <2>4, OriginsGrow DEF Forks
  <2>6. /\ Len(stack') = Len(stack) + 1 /\ stack'[Len(stack) + 1] = frame
        /\ \A i \in 1..Len(stack) : stack'[i] = stack[i]
    BY <2>1 DEF Forks, Inv, Typed
  <2>7. \A i \in 1..Len(stack) : stack'[i].ctx.origins = threads'[stack'[i].tid].einfo.origins
    <3>1. SameBelow(Len(stack))
      BY <1>1, <2>6 DEF SameBelow
    <3>2. QED
      BY <1>1, <2>3, <3>1, FramesStay
  <2>8. stack'[Len(stack) + 1].ctx.origins = threads'[stack'[Len(stack) + 1].tid].einfo.origins
    BY <2>1, <2>6 DEF Forks
  <2>9. FrameOrigins'
    BY <1>1, <2>6, <2>7, <2>8 DEF FrameOrigins, Origins
  <2>10. Tids' = Tids \cup {new} /\ new \notin Tids /\ new \in 1..Len(threads')
    BY <2>1, Numbers DEF Forks, Tids, Positions
  <2>11. EventOrigins(new)'
    <3>1. threads'[new].events = <<>>
      BY <2>1, <2>10 DEF Forks, Grows
    <3>2. QED
      BY <3>1 DEF EventOrigins
  <2>12. ThreadOrigins(new)'
    <3>1. PICK site : site = <<Tid, Len(threads[Tid].events) + 1>>
      OBVIOUS
    <3>2. EventAt(site)' = evs[1] /\ site[1] = Tid
      <4>1. 1 \in 1..Len(evs)
        BY <2>1 DEF Forks
      <4>2. ASSUME NEW t \in Tids, Grows(t, evs), NEW k \in 1..Len(evs),
                   site = <<t, Len(threads[t].events) + k>>
            PROVE  EventAt(site)' = evs[k]
        BY <2>1, <4>2, EventsGrow DEF Inv, Forks
      <4>3. QED
        BY <2>1, <2>2, <3>1, <4>1, <4>2 DEF Forks
    <3>3. threads'[new].spawnSite = site /\ site # NoSpawn
      BY <2>1, <3>1 DEF Forks
    <3>4. PICK t \in Tids : t = Tid
      BY <2>2
    <3>5. threads'[new].einfo.origins = LastK(Append(Origins(t), IRNow.inst))
      BY <2>1, <2>2, <3>4, TopOrigins DEF Forks
    <3>6. EventAt(site)'.ir.inst = IRNow.inst /\ Origins(t)' = Origins(t) /\ site[1] = t
      BY <2>1, <2>3, <3>2, <3>4 DEF Forks
    <3>7. Origins(new)' = LastK(Append(Origins(site[1])', EventAt(site)'.ir.inst))
      BY <3>5, <3>6 DEF Origins
    <3>8. QED
      BY <3>3, <3>7 DEF ThreadOrigins, Parent, Origins, EventAt
  <2>13. QED
    BY <2>5, <2>9, <2>10, <2>11, <2>12 DEF OriginsInv
<1>6. CASE ReturnFromCall
  <2>1. PICK evs : ReturnsToCall(evs)
    BY <1>6, ReturnFromCallReturns
  <2>2. status = "building" /\ Tid \in Tids /\ Thread = threads[Tid]
    BY <1>2, <2>1 DEF ReturnsToCall, Returns
  <2>3. \A u \in Tids : Origins(u)' = Origins(u)
    BY <2>1, <2>2 DEF ReturnsToCall, Returns, Informed, Origins
  <2>4. \A k \in 1..Len(evs) : evs[k].ctx.origins = Origins(Tid)
    BY <2>1, <2>2, TopOrigins DEF ReturnsToCall
  <2>5. \A u \in Tids : ThreadOrigins(u)' /\ EventOrigins(u)'
    BY <2>1, <2>2, <2>3, <2>4, OriginsGrow DEF ReturnsToCall
  <2>6. /\ Len(stack') = Len(stack) - 1 /\ SameBelow(Len(stack) - 1)
        /\ Len(stack) - 1 \in 0..Len(stack)
    BY <1>1, <2>1, PoppedStack DEF ReturnsToCall, Returns
  <2>7. FrameOrigins'
    BY <2>3, <2>6, FramesStay DEF FrameOrigins, Origins
  <2>8. Tids' = Tids
    BY <2>1 DEF ReturnsToCall, Returns, Tids
  <2>9. QED
    BY <2>5, <2>7, <2>8 DEF OriginsInv
<1>7. CASE ReturnFromThread
  <2>1. PICK parent : ReturnsToFork(parent)
    BY <1>7, ReturnFromThreadReturns
  <2>2. /\ status = "building" /\ Tid \in Tids /\ Thread = threads[Tid]
        /\ parent \in Tids /\ Grows(parent, <<>>)
    BY <1>2, <2>1 DEF ReturnsToFork, Returns
  <2>3. \A u \in Tids : Origins(u)' = Origins(u)
    BY <2>1, <2>2 DEF ReturnsToFork, Returns, Informed, Origins
  <2>4. PICK evs : evs = <<>>
    OBVIOUS
  <2>5. evs \in Seq(EventRecords) /\ Grows(parent, evs) /\ \A k \in 1..Len(evs) : FALSE
    BY <2>2, <2>4
  <2>6. \A u \in Tids : ThreadOrigins(u)' /\ EventOrigins(u)'
    BY <2>2, <2>3, <2>5, OriginsGrow
  <2>7. /\ Len(stack') = Len(stack) - 1 /\ SameBelow(Len(stack) - 1)
        /\ Len(stack) - 1 \in 0..Len(stack)
    BY <1>1, <2>1, PoppedStack DEF ReturnsToFork, Returns
  <2>8. FrameOrigins'
    BY <2>3, <2>7, FramesStay DEF FrameOrigins, Origins
  <2>9. Tids' = Tids
    BY <2>1 DEF ReturnsToFork, Returns, Tids
  <2>10. QED
    BY <2>6, <2>8, <2>9 DEF OriginsInv
<1>8. CASE ~Building
  <2>1. UNCHANGED threads /\ (stack' = stack \/ stack' = <<>>)
    BY <1>8, OtherSteps
  <2>2. Tids' = Tids /\ \A t \in Tids : ThreadOrigins(t)' /\ EventOrigins(t)'
    BY <2>1 DEF OriginsInv, Tids, ThreadOrigins, EventOrigins, Origins, Parent, EventAt
  <2>3. FrameOrigins'
    BY <2>1 DEF OriginsInv, FrameOrigins, Origins
  <2>4. QED
    BY <2>2, <2>3 DEF OriginsInv
<1>9. QED
  BY <1>3, <1>4, <1>5, <1>6, <1>7, <1>8 DEF Building

LEMMA InitOrigins ==
  ASSUME Init
  PROVE  OriginsInv
<1>1. /\ stack = <<Frame(1, program.main, InitialCtx)>>
      /\ threads = <<NewThread(NoSpawn, program.main, InitialCtx)>>
  BY DEF Init
<1>2. /\ Len(threads) = 1 /\ threads[1].spawnSite = NoSpawn /\ threads[1].events = <<>>
      /\ threads[1].einfo = InitialCtx /\ Len(stack) = 1
      /\ stack[1].tid = 1 /\ stack[1].ctx = InitialCtx
  BY <1>1 DEF NewThread, Frame
<1>3. Origins(1) = <<>> /\ InitialCtx.origins = <<>> /\ Tids = {1}
  BY <1>2 DEF Origins, InitialCtx, Tids
<1>4. ThreadOrigins(1) /\ EventOrigins(1)
  BY <1>2, <1>3 DEF ThreadOrigins, EventOrigins
<1>5. FrameOrigins
  BY <1>2, <1>3 DEF FrameOrigins
<1>6. QED
  BY <1>3, <1>4, <1>5 DEF OriginsInv

-----------------------------------------------------------------------------
(***************************************************************************)
(* The path of spawns above a thread.  SpawnPath is a recursive function:  *)
(* that there is one, and what it is, follows from the order of threads,   *)
(* by the least thread that would contradict it.                           *)
(***************************************************************************)
\* A set of numbers that is not empty has a least one.
LEMMA LeastOf ==
  ASSUME NEW T \in SUBSET Nat, T # {}
  PROVE  \E x \in T : \A y \in T : x <= y
<1>1. PICK R : R = OpToRel(<, Nat)
  OBVIOUS
<1>2. IsWellFoundedOn(R, Nat)
  BY <1>1, NatLessThanWellFounded
<1>3. PICK x \in T : \A y \in T : ~ (<<y, x>> \in R)
  BY <1>2, WFMin
<1>4. \A y \in T : ~(y < x)
  BY <1>1, <1>3 DEF OpToRel
<1>5. QED
  BY <1>4

\* Forgetting spawn sites twice forgets no more than once.
LEMMA LastKAppend ==
  ASSUME NEW S, NEW s \in Seq(S), NEW x \in S
  PROVE  LastK(Append(LastK(s), x)) = LastK(Append(s, x))
<1>1. PICK long : long = Append(s, x)
  OBVIOUS
<1>2. /\ long \in Seq(S) /\ Len(long) = Len(s) + 1 /\ Len(s) \in Nat
      /\ long[Len(s) + 1] = x /\ \A i \in 1..Len(s) : long[i] = s[i]
  BY <1>1
<1>3. OriginK \in Nat /\ OriginK > 0
  BY OriginKAssumption
<1>4. CASE ~(Len(s) > OriginK)
  <2>1. LastK(s) = SubSeq(s, 1, Len(s))
    BY <1>4 DEF LastK
  <2>2. SubSeq(s, 1, Len(s)) = s
    OBVIOUS
  <2>3. QED
    BY <2>1, <2>2
<1>5. CASE Len(s) > OriginK
  <2>1. PICK short : short = LastK(s)
    OBVIOUS
  <2>2. PICK from : from = Len(s) - OriginK
    OBVIOUS
  <2>3. from \in Nat /\ from + OriginK = Len(s) /\ from >= 1
    BY <1>2, <1>3, <1>5, <2>2
  <2>4. short = SubSeq(s, from + 1, Len(s))
    BY <1>2, <1>3, <1>5, <2>1, <2>2 DEF LastK
  <2>5. /\ short \in Seq(S) /\ Len(short) = OriginK
        /\ \A i \in 1..OriginK : short[i] = s[from + i]
    BY <1>2, <1>3, <2>3, <2>4
  <2>6. PICK next : next = Append(short, x)
    OBVIOUS
  <2>7. /\ next \in Seq(S) /\ Len(next) = OriginK + 1 /\ next[OriginK + 1] = x
        /\ \A i \in 1..OriginK : next[i] = s[from + i]
    BY <1>3, <2>5, <2>6
  <2>8. LastK(next) = SubSeq(next, 2, OriginK + 1)
    BY <1>3, <2>7 DEF LastK
  <2>9. LastK(long) = SubSeq(long, from + 2, from + OriginK + 1)
    <3>1. /\ Len(long) > OriginK /\ Len(long) - OriginK + 1 = from + 2
          /\ Len(long) = from + OriginK + 1
      BY <1>2, <1>3, <1>5, <2>3
    <3>2. LastK(long) = SubSeq(long, Len(long) - OriginK + 1, Len(long))
      BY <3>1 DEF LastK
    <3>3. QED
      BY <3>1, <3>2
  <2>10. /\ SubSeq(next, 2, OriginK + 1) \in Seq(S)
         /\ Len(SubSeq(next, 2, OriginK + 1)) = OriginK
         /\ \A i \in 1..OriginK : SubSeq(next, 2, OriginK + 1)[i] = next[i + 1]
    BY <1>3, <2>7
  <2>11. /\ SubSeq(long, from + 2, from + OriginK + 1) \in Seq(S)
         /\ Len(SubSeq(long, from + 2, from + OriginK + 1)) = OriginK
         /\ \A i \in 1..OriginK :
              SubSeq(long, from + 2, from + OriginK + 1)[i] = long[from + i + 1]
    BY <1>2, <1>3, <2>3
  <2>12. \A i \in 1..OriginK : next[i + 1] = long[from + i + 1]
    <3>1. SUFFICES ASSUME NEW i \in 1..OriginK
                   PROVE  next[i + 1] = long[from + i + 1]
      OBVIOUS
    <3>2. CASE i = OriginK
      BY <1>2, <1>3, <2>3, <2>7, <3>2
    <3>3. CASE i # OriginK
      <4>1. i + 1 \in 1..OriginK /\ from + (i + 1) \in 1..Len(s) /\ from + (i + 1) = from + i + 1
        BY <1>3, <2>3, <3>3
      <4>2. QED
        BY <1>2, <2>7, <4>1
    <3>4. QED
      BY <3>2, <3>3
  <2>13. SubSeq(next, 2, OriginK + 1) = SubSeq(long, from + 2, from + OriginK + 1)
    <3>1. PICK a, b : /\ a = SubSeq(next, 2, OriginK + 1)
                      /\ b = SubSeq(long, from + 2, from + OriginK + 1)
      OBVIOUS
    <3>2. /\ a \in Seq(S) /\ b \in Seq(S) /\ Len(a) = OriginK /\ Len(b) = OriginK
          /\ \A i \in 1..OriginK : a[i] = b[i]
      BY <2>10, <2>11, <2>12, <3>1
    <3>3. a = b
      BY <3>2
    <3>4. QED
      BY <3>1, <3>3
  <2>14. QED
    BY <1>1, <2>1, <2>6, <2>8, <2>9, <2>13
<1>6. QED
  BY <1>4, <1>5

\* One site of the path.
PathStep(path, t) ==
  IF threads[t].spawnSite = NoSpawn THEN <<>>
  ELSE Append(path[threads[t].spawnSite[1]], EventAt(threads[t].spawnSite).ir.inst)

\* The paths of the first threads.
PathsUpTo(n, path) == path = [t \in 1..n |-> PathStep(path, t)]

LEMMA PathsExist ==
  ASSUME Inv, TreeInv, NEW n \in 0..Len(threads)
  PROVE  \E path : PathsUpTo(n, path)
<1>1. Len(threads) \in Nat
  BY Numbers
<1>2. PICK Bad : Bad = {m \in 0..Len(threads) : ~ \E path : PathsUpTo(m, path)}
  OBVIOUS
<1>3. SUFFICES ASSUME Bad # {} PROVE FALSE
  BY <1>2
<1>4. PICK m \in Bad : \A k \in Bad : m <= k
  <2>1. Bad \in SUBSET Nat
    BY <1>1, <1>2
  <2>2. QED
    BY <1>3, <2>1, LeastOf
<1>5. m \in 0..Len(threads) /\ ~ \E path : PathsUpTo(m, path)
  BY <1>2, <1>4
<1>6. m # 0
  <2>1. PICK path : path = [t \in 1..0 |-> <<>>]
    OBVIOUS
  <2>2. PathsUpTo(0, path)
    BY <2>1 DEF PathsUpTo
  <2>3. QED
    BY <1>5, <2>2
<1>7. m - 1 \in 0..Len(threads) /\ m - 1 \notin Bad /\ m \in Nat
  BY <1>1, <1>4, <1>5, <1>6
<1>8. PICK path : PathsUpTo(m - 1, path)
  BY <1>2, <1>7
<1>9. PICK longer : longer = [t \in 1..m |-> IF t = m THEN PathStep(path, m) ELSE path[t]]
  OBVIOUS
<1>10. ASSUME NEW t \in 1..m PROVE longer[t] = PathStep(longer, t)
  <2>1. PathStep(longer, t) = PathStep(path, t)
    <3>1. CASE threads[t].spawnSite = NoSpawn
      BY <3>1 DEF PathStep
    <3>2. CASE threads[t].spawnSite # NoSpawn
      <4>1. t \in Tids /\ Tids = Spawned \cup {1}
        BY <1>1, <1>5, Numbers DEF Tids, Spawned
      <4>2. t \in Spawned
        BY <3>2, <4>1 DEF TreeInv, SpawnTree
      <4>3. threads[t].spawnSite[1] \in 1..(t - 1)
        BY <4>2 DEF TreeInv, SpawnTree, Parent
      <4>4. threads[t].spawnSite[1] \in 1..m /\ threads[t].spawnSite[1] # m
        BY <1>7, <4>3
      <4>5. longer[threads[t].spawnSite[1]] = path[threads[t].spawnSite[1]]
        BY <1>9, <4>4
      <4>6. QED
        BY <4>5 DEF PathStep
    <3>3. QED
      BY <3>1, <3>2
  <2>2. CASE t = m
    BY <1>9, <2>1, <2>2
  <2>3. CASE t # m
    <3>1. t \in 1..(m - 1)
      BY <1>7, <2>3
    <3>2. path[t] = PathStep(path, t)
      BY <1>8, <3>1 DEF PathsUpTo
    <3>3. QED
      BY <1>9, <2>1, <2>3, <3>2
  <2>4. QED
    BY <2>2, <2>3
<1>11. longer = [t \in 1..m |-> PathStep(longer, t)]
  BY <1>9, <1>10
<1>12. QED
  BY <1>5, <1>11 DEF PathsUpTo

\* The path of a thread is that of its parent and its own spawn site.
LEMMA SpawnPathIs ==
  ASSUME Inv, TreeInv
  PROVE  \A t \in Tids : SpawnPath[t] = PathStep(SpawnPath, t)
<1>1. DOMAIN threads = Tids /\ Len(threads) \in 0..Len(threads)
  BY Numbers DEF Inv, Typed, Tids
<1>2. PICK path : PathsUpTo(Len(threads), path)
  BY <1>1, PathsExist
<1>3. path = [t \in DOMAIN threads |-> PathStep(path, t)]
  BY <1>1, <1>2 DEF PathsUpTo, Tids
<1>4. SpawnPath = [t \in DOMAIN threads |-> PathStep(SpawnPath, t)]
  BY <1>3 DEF SpawnPath, PathStep
<1>5. QED
  BY <1>1, <1>4

\* What a context remembers of the path of its thread: the last OriginK sites.
LEMMA OriginsOfPath ==
  ASSUME Inv, TreeInv, OriginsInv
  PROVE  \A t \in Tids : SpawnPath[t] \in Seq(Insts) /\ Origins(t) = LastK(SpawnPath[t])
<1>1. PICK Bad : Bad = {t \in Tids : ~(/\ SpawnPath[t] \in Seq(Insts)
                                       /\ Origins(t) = LastK(SpawnPath[t]))}
  OBVIOUS
<1>2. SUFFICES ASSUME Bad # {} PROVE FALSE
  BY <1>1
<1>3. Tids \subseteq Nat
  BY Numbers DEF Positions
<1>4. PICK t \in Bad : \A u \in Bad : t <= u
  <2>1. Bad \in SUBSET Nat
    BY <1>1, <1>3
  <2>2. QED
    BY <1>2, <2>1, LeastOf
<1>5. t \in Tids /\ t \in Nat
  BY <1>1, <1>3, <1>4
<1>6. PICK site : site = threads[t].spawnSite
  OBVIOUS
<1>7. CASE site = NoSpawn
  <2>1. SpawnPath[t] = <<>> /\ Origins(t) = <<>>
    BY <1>5, <1>6, <1>7, SpawnPathIs DEF PathStep, OriginsInv, ThreadOrigins
  <2>2. LastK(<<>>) = <<>>
    <3>1. ~(Len(<<>>) > OriginK)
      BY OriginKAssumption
    <3>2. QED
      BY <3>1 DEF LastK
  <2>3. SpawnPath[t] \in Seq(Insts)
    BY <2>1
  <2>4. Origins(t) = LastK(SpawnPath[t])
    BY <2>1, <2>2
  <2>5. t \notin Bad
    BY <1>1, <2>3, <2>4
  <2>6. QED
    BY <1>4, <2>5
<1>8. CASE site # NoSpawn
  <2>1. PICK parent, inst : parent = site[1] /\ inst = EventAt(site).ir.inst
    OBVIOUS
  <2>2. parent \in Tids /\ parent < t
    <3>1. Tids = Spawned \cup {1} /\ Spawned \subseteq Tids
      BY Numbers DEF Tids, Spawned, Positions
    <3>2. t \in Spawned
      BY <1>5, <1>6, <1>8, <3>1 DEF TreeInv, SpawnTree
    <3>3. parent \in 1..(t - 1)
      BY <1>6, <2>1, <3>2 DEF TreeInv, SpawnTree, Parent
    <3>4. QED
      BY <1>5, <3>3 DEF Tids
  <2>3. inst \in Insts
    <3>1. site \in ForkEvents
      BY <1>5, <1>6, <1>8 DEF Inv, SpawnInv
    <3>2. EventAt(site) \in EventRecords
      BY <3>1, EventAtTyped DEF Inv, ForkEvents
    <3>3. EventAt(site).ir \in IRs \cup TaskJoinIRs
      BY <3>2 DEF EventRecords
    <3>4. \A ir \in IRs \cup TaskJoinIRs : ir.inst \in Insts
      BY DEF Insts, TaskJoinIRs, ForkIRs
    <3>5. QED
      BY <2>1, <3>3, <3>4
  <2>4. parent \notin Bad
    BY <1>3, <1>4, <1>5, <2>2
  <2>5. SpawnPath[parent] \in Seq(Insts) /\ Origins(parent) = LastK(SpawnPath[parent])
    BY <1>1, <2>2, <2>4
  <2>6. SpawnPath[t] = Append(SpawnPath[parent], inst)
    BY <1>5, <1>6, <1>8, <2>1, SpawnPathIs DEF PathStep
  <2>7. Origins(t) = LastK(Append(Origins(parent), inst))
    BY <1>5, <1>6, <1>8, <2>1 DEF OriginsInv, ThreadOrigins, Parent
  <2>8. Origins(t) = LastK(SpawnPath[t])
    BY <2>3, <2>5, <2>6, <2>7, LastKAppend
  <2>9. SpawnPath[t] \in Seq(Insts)
    BY <2>3, <2>5, <2>6
  <2>10. t \notin Bad
    BY <1>1, <2>8, <2>9
  <2>11. QED
    BY <1>4, <2>10
<1>9. QED
  BY <1>7, <1>8

\* So the context of every event names the last spawn sites above its thread.
LEMMA OriginsNamed ==
  ASSUME Inv, TreeInv, OriginsInv
  PROVE  OriginsNameThread
<1>1. \A t \in Tids : SpawnPath[t] \in Seq(Insts) /\ Origins(t) = LastK(SpawnPath[t])
  BY OriginsOfPath
<1>2. SUFFICES ASSUME NEW n \in EventPIDs
               PROVE  EventAt(n).ctx.origins = LastK(SpawnPath[n[1]])
  BY DEF OriginsNameThread
<1>3. n[1] \in Tids /\ n[2] \in 1..Len(threads[n[1]].events)
  <2>1. n[1] \in DOMAIN threads /\ n[2] \in DOMAIN threads[n[1]].events
    BY EventPIDsAre
  <2>2. n[1] \in Tids /\ threads \in Seq(ThreadRecords)
    BY <2>1 DEF Inv, Typed, Tids
  <2>3. QED
    BY <2>1, <2>2, ThreadTyped DEF Tids
<1>4. EventAt(n).ctx.origins = Origins(n[1])
  BY <1>3 DEF OriginsInv, EventOrigins, EventAt
<1>5. QED
  BY <1>1, <1>3, <1>4

\* Every event of a finished trace names the last spawn sites above its thread,
\* although the events of a thread share its event info, which buildTrace never
\* goes back to after a call or a fork: a call evolves the context of its
\* caller, and no call is an origin.
THEOREM EventsNameTheirOrigins == Spec => []OriginsNameThread
<1> DEFINE Named == Inv /\ TreeInv /\ OriginsInv
<1>1. Init => Named
  BY InitInv, InitOrdered, InitOrigins
<1>2. Named /\ [Next]_vars => Named'
  BY NextKeeps, TreeNext, OriginsNext
<1>3. Named => OriginsNameThread
  BY OriginsNamed
<1> HIDE DEF Named
<1>4. QED
  BY <1>1, <1>2, <1>3, PTL DEF Spec

-----------------------------------------------------------------------------
(***************************************************************************)
(* The call stack that a run of events leaves.  It is a recursive function *)
(* too: IsAfter says of a function that it is the one, on the first n      *)
(* events.                                                                 *)
(***************************************************************************)
IsAfter(events, n, after) ==
  after = [i \in 0..n |-> IF i = 0 THEN <<>> ELSE CallStackStep(after[i - 1], events[i])]

\* Two runs that begin with the same n events.
BeginAlike(e, f, n) == \A i \in 1..n : e[i] = f[i]

\* What one event does to it.
LEMMA StepTyped ==
  ASSUME NEW calls \in Seq(Insts), NEW e \in EventRecords
  PROVE  /\ CallStackStep(calls, e) \in Seq(Insts)
         /\ e.type = "EnterCall" => CallStackStep(calls, e) = Append(calls, e.ir.inst)
         /\ e.type = "LeaveCall" /\ calls # <<>> /\ Last(calls) = e.ir.inst =>
              CallStackStep(calls, e) = Front(calls)
         /\ e.type \notin {"EnterCall", "LeaveCall"} => CallStackStep(calls, e) = calls
<1>1. e.ir.inst \in Insts /\ NoInst \in Insts
  <2>1. e.ir \in IRs \cup TaskJoinIRs
    BY DEF EventRecords
  <2>2. \A ir \in IRs \cup TaskJoinIRs : ir.inst \in Insts
    BY DEF Insts, TaskJoinIRs, ForkIRs
  <2>3. QED
    BY <2>1, <2>2 DEF Insts
<1>2. CASE e.type = "EnterCall"
  <2>1. CallStackStep(calls, e) = Append(calls, e.ir.inst)
    BY <1>2 DEF CallStackStep
  <2>2. Append(calls, e.ir.inst) \in Seq(Insts)
    BY <1>1
  <2>3. QED
    BY <1>2, <2>1, <2>2
<1>3. CASE e.type = "LeaveCall"
  <2>1. CallStackStep(calls, e) = IF calls # <<>> /\ Last(calls) = e.ir.inst
                                  THEN Front(calls) ELSE Append(calls, NoInst)
    BY <1>3 DEF CallStackStep
  <2>2. Append(calls, NoInst) \in Seq(Insts)
    BY <1>1
  <2>3. calls # <<>> => Front(calls) \in Seq(Insts)
    BY FrontOf
  <2>4. QED
    BY <1>3, <2>1, <2>2, <2>3
<1>4. CASE e.type \notin {"EnterCall", "LeaveCall"}
  <2>1. CallStackStep(calls, e) = calls
    BY <1>4 DEF CallStackStep
  <2>2. QED
    BY <1>4, <2>1
<1>5. QED
  BY <1>2, <1>3, <1>4

LEMMA AppendedCall ==
  ASSUME NEW S, NEW calls \in Seq(S), NEW inst \in S
  PROVE  /\ Append(calls, inst) \in Seq(S) /\ Append(calls, inst) # <<>>
         /\ Last(Append(calls, inst)) = inst /\ Front(Append(calls, inst)) = calls
<1>1. PICK more : more = Append(calls, inst)
  OBVIOUS
<1>2. /\ more \in Seq(S) /\ Len(more) = Len(calls) + 1 /\ Len(calls) \in Nat
      /\ more[Len(calls) + 1] = inst /\ \A i \in 1..Len(calls) : more[i] = calls[i]
  BY <1>1
<1>3. more # <<>>
  BY <1>2
<1>4. Last(more) = inst
  BY <1>2 DEF Last
<1>5. PICK front : front = Front(more)
  OBVIOUS
<1>6. /\ front \in Seq(S) /\ Len(front) = Len(calls)
      /\ \A i \in 1..Len(calls) : front[i] = calls[i]
  BY <1>2, <1>3, <1>5, FrontOf
<1>7. front = calls
  BY <1>6
<1>8. QED
  BY <1>1, <1>2, <1>3, <1>4, <1>5, <1>7

\* It is the same for runs that begin alike.
LEMMA AfterUnique ==
  ASSUME NEW e, NEW f, NEW n \in Nat, NEW m \in Nat, n <= m, NEW a, NEW b,
         IsAfter(e, n, a), IsAfter(f, m, b), BeginAlike(e, f, n)
  PROVE  \A i \in 0..n : a[i] = b[i]
<1>1. PICK Bad : Bad = {i \in 0..n : a[i] # b[i]}
  OBVIOUS
<1>2. SUFFICES ASSUME Bad # {} PROVE FALSE
  BY <1>1
<1>3. PICK i \in Bad : \A j \in Bad : i <= j
  <2>1. Bad \in SUBSET Nat
    BY <1>1
  <2>2. QED
    BY <1>2, <2>1, LeastOf
<1>4. i \in 0..n /\ i \in 0..m /\ a[i] # b[i]
  BY <1>1, <1>3
<1>5. a[0] = <<>> /\ b[0] = <<>>
  <2>1. 0 \in 0..n /\ 0 \in 0..m
    OBVIOUS
  <2>2. QED
    BY <2>1 DEF IsAfter
<1>6. i # 0
  BY <1>4, <1>5
<1>7. i - 1 \in 0..n /\ i - 1 \notin Bad /\ i \in 1..n
  BY <1>3, <1>4, <1>6
<1>8. a[i - 1] = b[i - 1] /\ e[i] = f[i]
  BY <1>1, <1>7 DEF BeginAlike
<1>9. a[i] = CallStackStep(a[i - 1], e[i]) /\ b[i] = CallStackStep(b[i - 1], f[i])
  BY <1>4, <1>6 DEF IsAfter
<1>10. QED
  BY <1>4, <1>8, <1>9

\* There is one.
LEMMA AfterExists ==
  ASSUME NEW e, NEW n \in Nat
  PROVE  \E a : IsAfter(e, n, a)
<1>1. PICK Bad : Bad = {m \in Nat : ~ \E a : IsAfter(e, m, a)}
  OBVIOUS
<1>2. SUFFICES ASSUME Bad # {} PROVE FALSE
  BY <1>1
<1>3. PICK m \in Bad : \A k \in Bad : m <= k
  BY <1>1, <1>2, LeastOf
<1>4. m \in Nat /\ ~ \E a : IsAfter(e, m, a)
  BY <1>1, <1>3
<1>5. m # 0
  <2>1. PICK a : a = [i \in 0..0 |-> <<>>]
    OBVIOUS
  <2>2. IsAfter(e, 0, a)
    BY <2>1 DEF IsAfter
  <2>3. QED
    BY <1>4, <2>2
<1>6. m - 1 \in Nat /\ m - 1 \notin Bad
  BY <1>3, <1>4, <1>5
<1>7. PICK a : IsAfter(e, m - 1, a)
  BY <1>1, <1>6
<1>8. PICK b : b = [i \in 0..m |-> IF i = m THEN CallStackStep(a[m - 1], e[m]) ELSE a[i]]
  OBVIOUS
<1>9. ASSUME NEW i \in 0..m
      PROVE  b[i] = IF i = 0 THEN <<>> ELSE CallStackStep(b[i - 1], e[i])
  <2>1. CASE i = m
    <3>1. m - 1 \in 0..m /\ m - 1 # m
      BY <1>4, <1>5
    <3>2. b[m - 1] = a[m - 1]
      BY <1>8, <3>1
    <3>3. QED
      BY <1>5, <1>8, <2>1, <3>2
  <2>2. CASE i # m
    <3>1. i \in 0..(m - 1)
      BY <1>4, <2>2
    <3>2. a[i] = IF i = 0 THEN <<>> ELSE CallStackStep(a[i - 1], e[i])
      BY <1>7, <3>1 DEF IsAfter
    <3>3. b[i] = a[i]
      BY <1>8, <2>2
    <3>4. ASSUME i # 0 PROVE b[i - 1] = a[i - 1]
      <4>1. i - 1 \in 0..m /\ i - 1 # m
        BY <1>4, <3>1, <3>4
      <4>2. QED
        BY <1>8, <4>1
    <3>5. QED
      BY <3>2, <3>3, <3>4
  <2>3. QED
    BY <2>1, <2>2
<1>10. b = [i \in 0..m |-> IF i = 0 THEN <<>> ELSE CallStackStep(b[i - 1], e[i])]
  BY <1>8, <1>9
<1>11. QED
  BY <1>4, <1>10 DEF IsAfter

LEMMA CallStackIs ==
  ASSUME NEW e \in Seq(EventRecords), NEW a, IsAfter(e, Len(e), a)
  PROVE  CallStackAfter(e) = a[Len(e)]
<1>1. PICK n : n = Len(e)
  OBVIOUS
<1>2. n \in Nat
  BY <1>1
<1>3. PICK b : b = CHOOSE after : IsAfter(e, n, after)
  OBVIOUS
<1>4. IsAfter(e, n, b)
  BY <1>2, <1>3, AfterExists
<1>5. CallStackAfter(e) = b[n]
  BY <1>1, <1>3 DEF CallStackAfter, IsAfter
<1>6. a[n] = b[n]
  <2>1. n \in 0..n /\ n <= n /\ IsAfter(e, n, a) /\ BeginAlike(e, e, n)
    BY <1>1, <1>2 DEF BeginAlike
  <2>2. QED
    BY <1>2, <1>4, <2>1, AfterUnique
<1>7. QED
  BY <1>1, <1>5, <1>6

\* A call stack is one of call sites, or NoInst where an event leaves no call.
LEMMA CallStackTyped ==
  ASSUME NEW e \in Seq(EventRecords)
  PROVE  CallStackAfter(e) \in Seq(Insts)
<1>1. PICK n \in Nat : n = Len(e)
  OBVIOUS
<1>2. PICK a : IsAfter(e, n, a)
  BY AfterExists
<1>3. PICK Bad : Bad = {i \in 0..n : a[i] \notin Seq(Insts)}
  OBVIOUS
<1>4. Bad = {}
  <2>1. SUFFICES ASSUME Bad # {} PROVE FALSE
    OBVIOUS
  <2>2. PICK i \in Bad : \A j \in Bad : i <= j
    <3>1. Bad \in SUBSET Nat
      BY <1>3
    <3>2. QED
      BY <2>1, <3>1, LeastOf
  <2>3. i \in 0..n /\ a[i] \notin Seq(Insts)
    BY <1>3, <2>2
  <2>4. i # 0
    <3>1. 0 \in 0..n /\ <<>> \in Seq(Insts)
      OBVIOUS
    <3>2. a[0] = <<>>
      BY <1>2, <3>1 DEF IsAfter
    <3>3. QED
      BY <2>3, <3>1, <3>2
  <2>5. i - 1 \in 0..n /\ i - 1 \notin Bad /\ i \in 1..n
    BY <2>2, <2>3, <2>4
  <2>6. PICK calls : calls = a[i - 1]
    OBVIOUS
  <2>7. calls \in Seq(Insts) /\ a[i] = CallStackStep(calls, e[i])
    BY <1>2, <1>3, <2>3, <2>4, <2>5, <2>6 DEF IsAfter
  <2>8. e[i] \in EventRecords
    BY <1>1, <2>5
  <2>9. CallStackStep(calls, e[i]) \in Seq(Insts)
    BY <2>7, <2>8, StepTyped
  <2>10. QED
    BY <2>3, <2>7, <2>9
<1>5. n \in 0..n
  OBVIOUS
<1>6. CallStackAfter(e) = a[n]
  BY <1>1, <1>2, CallStackIs
<1>7. QED
  BY <1>3, <1>4, <1>5, <1>6

\* The stack after more events begins with the stack after the first ones.
LEMMA CallStackGoesOn ==
  ASSUME NEW e \in Seq(EventRecords), NEW f \in Seq(EventRecords)
  PROVE  \E b : /\ b[0] = CallStackAfter(e) /\ CallStackAfter(e \o f) = b[Len(f)]
                /\ \A k \in 1..Len(f) : b[k] = CallStackStep(b[k - 1], f[k])
<1>1. PICK long : long = e \o f
  OBVIOUS
<1>2. PICK n \in Nat, m \in Nat : n = Len(e) /\ m = Len(f)
  OBVIOUS
<1>3. /\ long \in Seq(EventRecords) /\ Len(long) = n + m
      /\ \A i \in 1..n : long[i] = e[i]
      /\ \A k \in 1..m : long[n + k] = f[k]
  BY <1>1, <1>2, ConcatPositions
<1>4. PICK a : IsAfter(e, n, a)
  BY AfterExists
<1>5. PICK all \in Nat : all = n + m
  OBVIOUS
<1>6. PICK c : IsAfter(long, all, c)
  BY AfterExists
<1>7. a[n] = c[n]
  <2>1. BeginAlike(e, long, n)
    BY <1>3 DEF BeginAlike
  <2>2. n <= all /\ n \in 0..n /\ n \in Nat /\ all \in Nat
    BY <1>5
  <2>3. \A i \in 0..n : a[i] = c[i]
    BY <1>4, <1>6, <2>1, <2>2, AfterUnique
  <2>4. QED
    BY <2>2, <2>3
<1>8. CallStackAfter(e) = a[n] /\ CallStackAfter(long) = c[n + m]
  BY <1>2, <1>3, <1>4, <1>5, <1>6, CallStackIs
<1>9. PICK b : b = [k \in 0..m |-> c[n + k]]
  OBVIOUS
<1>10. b[0] = c[n] /\ b[m] = c[n + m]
  BY <1>9
<1>11. ASSUME NEW k \in 1..m PROVE b[k] = CallStackStep(b[k - 1], f[k])
  <2>1. k \in 0..m /\ k - 1 \in 0..m /\ n + k \in 0..(n + m) /\ n + k # 0
        /\ (n + k) - 1 = n + (k - 1)
    OBVIOUS
  <2>2. c[n + k] = CallStackStep(c[(n + k) - 1], long[n + k])
    BY <1>5, <1>6, <2>1 DEF IsAfter
  <2>3. b[k] = c[n + k] /\ b[k - 1] = c[n + (k - 1)]
    <3>1. \A j \in 0..m : b[j] = c[n + j]
      BY <1>9
    <3>2. QED
      BY <2>1, <3>1
  <2>4. long[n + k] = f[k]
    BY <1>3
  <2>5. QED
    BY <2>1, <2>2, <2>3, <2>4
<1>12. QED
  BY <1>1, <1>2, <1>7, <1>8, <1>10, <1>11

\* The stack after one more event.
LEMMA CallStackAppend ==
  ASSUME NEW e \in Seq(EventRecords), NEW f \in Seq(EventRecords), Len(f) = 1
  PROVE  CallStackAfter(e \o f) = CallStackStep(CallStackAfter(e), f[1])
<1>1. PICK b : /\ b[0] = CallStackAfter(e) /\ CallStackAfter(e \o f) = b[Len(f)]
               /\ \A k \in 1..Len(f) : b[k] = CallStackStep(b[k - 1], f[k])
  BY CallStackGoesOn
<1>2. 1 \in 1..Len(f) /\ 1 - 1 = 0
  OBVIOUS
<1>3. b[1] = CallStackStep(b[0], f[1])
  BY <1>1, <1>2
<1>4. QED
  BY <1>1, <1>3

LEMMA CallStackOfNothing == CallStackAfter(<<>>) = <<>>
<1>1. PICK e : e = <<>>
  OBVIOUS
<1>2. e \in Seq(EventRecords) /\ Len(e) = 0
  BY <1>1
<1>3. PICK a : IsAfter(e, 0, a)
  BY AfterExists
<1>4. CallStackAfter(e) = a[0]
  BY <1>2, <1>3, CallStackIs
<1>5. a[0] = <<>>
  <2>1. 0 \in 0..0
    OBVIOUS
  <2>2. QED
    BY <1>3, <2>1 DEF IsAfter
<1>6. QED
  BY <1>1, <1>4, <1>5

\* A call that is cut off, and the events that are of no call, leave the stack.
LEMMA CallStackKept ==
  ASSUME NEW e \in Seq(EventRecords), NEW f \in Seq(EventRecords), CallsCutOff(f)
  PROVE  CallStackAfter(e \o f) = CallStackAfter(e)
<1>1. PICK b : /\ b[0] = CallStackAfter(e) /\ CallStackAfter(e \o f) = b[Len(f)]
               /\ \A k \in 1..Len(f) : b[k] = CallStackStep(b[k - 1], f[k])
  BY CallStackGoesOn
<1>2. PICK n \in Nat : n = Len(f)
  OBVIOUS
<1>3. b[0] \in Seq(Insts)
  BY <1>1, CallStackTyped
<1>4. \A k \in 1..n : f[k] \in EventRecords
  BY <1>2
<1>5. CASE \A k \in 1..Len(f) : f[k].type \notin {"EnterCall", "LeaveCall"}
  <2>1. PICK Bad : Bad = {k \in 0..n : b[k] # b[0]}
    OBVIOUS
  <2>2. Bad = {}
    <3>1. SUFFICES ASSUME Bad # {} PROVE FALSE
      OBVIOUS
    <3>2. PICK k \in Bad : \A j \in Bad : k <= j
      <4>1. Bad \in SUBSET Nat
        BY <2>1
      <4>2. QED
        BY <3>1, <4>1, LeastOf
    <3>3. k \in 0..n /\ b[k] # b[0]
      BY <2>1, <3>2
    <3>4. k # 0
      BY <3>3
    <3>5. k - 1 \in 0..n /\ k - 1 \notin Bad /\ k \in 1..n
      BY <3>2, <3>3, <3>4
    <3>6. b[k - 1] = b[0] /\ b[k] = CallStackStep(b[k - 1], f[k])
      BY <1>1, <1>2, <2>1, <3>5
    <3>7. CallStackStep(b[0], f[k]) = b[0]
      <4>1. f[k] \in EventRecords /\ f[k].type \notin {"EnterCall", "LeaveCall"}
        BY <1>2, <1>4, <1>5, <3>5
      <4>2. QED
        BY <1>3, <4>1, StepTyped
    <3>8. QED
      BY <3>3, <3>6, <3>7
  <2>3. n \in 0..n
    OBVIOUS
  <2>4. QED
    BY <1>1, <1>2, <2>1, <2>2, <2>3
<1>6. CASE /\ Len(f) = 2 /\ f[1].type = "EnterCall" /\ f[2].type = "LeaveCall"
           /\ f[1].ir = f[2].ir
  <2>1. 1 \in 1..n /\ 2 \in 1..n /\ 1 - 1 = 0 /\ 2 - 1 = 1
    BY <1>2, <1>6
  <2>2. b[1] = CallStackStep(b[0], f[1]) /\ b[2] = CallStackStep(b[1], f[2])
    BY <1>1, <1>2, <2>1
  <2>3. PICK calls, inst : calls = b[0] /\ inst = f[1].ir.inst
    OBVIOUS
  <2>4. calls \in Seq(Insts) /\ inst \in Insts
    <3>1. f[1].ir \in IRs \cup TaskJoinIRs
      BY <1>4, <2>1 DEF EventRecords
    <3>2. \A ir \in IRs \cup TaskJoinIRs : ir.inst \in Insts
      BY DEF Insts, TaskJoinIRs, ForkIRs
    <3>3. QED
      BY <1>3, <2>3, <3>1, <3>2
  <2>5. PICK more : more = Append(calls, inst)
    OBVIOUS
  <2>6. b[1] = more
    BY <1>3, <1>4, <1>6, <2>1, <2>2, <2>3, <2>5, StepTyped
  <2>7. /\ more \in Seq(Insts) /\ more # <<>> /\ Last(more) = inst /\ Front(more) = calls
    BY <2>4, <2>5, AppendedCall
  <2>8. CallStackStep(more, f[2]) = Front(more)
    BY <1>4, <1>6, <2>1, <2>3, <2>7, StepTyped
  <2>9. QED
    BY <1>1, <1>6, <2>2, <2>3, <2>6, <2>7, <2>8
<1>7. QED
  BY <1>5, <1>6 DEF CallsCutOff

-----------------------------------------------------------------------------
(***************************************************************************)
(* The calls of a thread are those of its frames that wait for a callee:   *)
(* one for each frame but the last, and none once its frames are gone.     *)
(***************************************************************************)
CallsOf(t) == CallStackAfter(threads[t].events)

\* The call that the i-th frame of the stack waits at.
CallAt(i) == IRAt(stack[i]).inst

\* The frames of a thread are the lo-th to the hi-th of the stack.
FramesOf(t, lo, hi) == \A i \in 1..Len(stack) : stack[i].tid = t <=> lo <= i /\ i <= hi

CallsOpen(t) ==
  /\ (\A i \in 1..Len(stack) : stack[i].tid # t) => CallsOf(t) = <<>>
  /\ \A lo, hi \in 1..Len(stack) : lo <= hi /\ FramesOf(t, lo, hi) =>
       CallsOf(t) = [i \in 1..(hi - lo) |-> CallAt(lo + i - 1)]

CallsInv == \A t \in Tids : CallsOpen(t)

\* A thread whose calls and whose frames stay, but for the position of the last.
LEMMA CallsStay ==
  ASSUME Inv, program' = program, Len(stack') \in Nat,
         NEW t \in Tids, CallsOpen(t), CallsOf(t)' = CallsOf(t),
         NEW n \in 0..Len(stack), n <= Len(stack'), SameBelow(n),
         \A i \in 1..Len(stack) : i > n => stack[i].tid # t,
         \A i \in 1..Len(stack') : i > n => stack'[i].tid # t
  PROVE  CallsOpen(t)'
<1>1. Len(stack) \in Nat /\ n \in Nat
  BY Numbers
<1>2. /\ \A i \in 1..Len(stack) : stack[i].tid = t => i \in 1..n
      /\ \A i \in 1..Len(stack') : stack'[i].tid = t => i \in 1..n
  BY <1>1
<1>3. /\ \A i \in 1..n : stack'[i].tid = stack[i].tid
      /\ \A i \in 1..(n - 1) : stack'[i] = stack[i]
      /\ \A i \in 1..n : i \in 1..Len(stack) /\ i \in 1..Len(stack')
  BY <1>1 DEF SameBelow
<1>4. ASSUME \A i \in 1..Len(stack') : stack'[i].tid # t
      PROVE  CallsOf(t)' = <<>>
  <2>1. \A i \in 1..Len(stack) : stack[i].tid # t
    BY <1>2, <1>3, <1>4
  <2>2. QED
    BY <2>1 DEF CallsOpen
<1>5. ASSUME NEW lo \in 1..Len(stack'), NEW hi \in 1..Len(stack'), lo <= hi,
             FramesOf(t, lo, hi)'
      PROVE  CallsOf(t)' = [i \in 1..(hi - lo) |-> CallAt(lo + i - 1)']
  <2>1. \A i \in 1..Len(stack') : stack'[i].tid = t <=> lo <= i /\ i <= hi
    BY <1>5 DEF FramesOf
  <2>2. stack'[hi].tid = t /\ hi \in Nat /\ lo \in Nat
    BY <1>5, <2>1
  <2>3. hi \in 1..n /\ lo \in 1..n
    BY <1>2, <1>5, <2>2
  <2>4. FramesOf(t, lo, hi)
    BY <1>2, <1>3, <2>1, <2>3 DEF FramesOf
  <2>5. lo \in 1..Len(stack) /\ hi \in 1..Len(stack)
    BY <1>3, <2>3
  <2>6. CallsOf(t) = [i \in 1..(hi - lo) |-> CallAt(lo + i - 1)]
    BY <1>5, <2>4, <2>5 DEF CallsOpen
  <2>7. ASSUME NEW i \in 1..(hi - lo)
        PROVE  CallAt(lo + i - 1)' = CallAt(lo + i - 1)
    <3>1. lo + i - 1 \in 1..(n - 1)
      BY <1>1, <2>3, <2>7
    <3>2. stack'[lo + i - 1] = stack[lo + i - 1]
      BY <1>3, <3>1
    <3>3. QED
      BY <3>2 DEF CallAt, IRAt
  <2>8. QED
    BY <2>6, <2>7
<1>6. QED
  BY <1>4, <1>5 DEF CallsOpen

\* What a step appends to the events of a thread is what it does to its calls.
LEMMA CallsGrow ==
  ASSUME Inv, NEW t \in Tids, NEW evs \in Seq(EventRecords), Grows(t, evs)
  PROVE  /\ CallsOf(t) \in Seq(Insts)
         /\ \A u \in Tids : u # t => CallsOf(u)' = CallsOf(u)
         /\ CallsCutOff(evs) => CallsOf(t)' = CallsOf(t)
         /\ Len(evs) = 1 => CallsOf(t)' = CallStackStep(CallsOf(t), evs[1])
<1>1. threads[t].events \in Seq(EventRecords)
  BY ThreadTyped DEF Inv, Typed, Tids
<1>2. PICK old : old = threads[t].events
  OBVIOUS
<1>3. /\ CallsOf(t) = CallStackAfter(old) /\ CallsOf(t)' = CallStackAfter(old \o evs)
      /\ \A u \in Tids : u # t => CallsOf(u)' = CallsOf(u)
  BY <1>2 DEF Grows, CallsOf
<1>4. CallsOf(t) \in Seq(Insts)
  BY <1>1, <1>2, <1>3, CallStackTyped
<1>5. ASSUME CallsCutOff(evs) PROVE CallsOf(t)' = CallsOf(t)
  BY <1>1, <1>2, <1>3, <1>5, CallStackKept
<1>6. ASSUME Len(evs) = 1 PROVE CallsOf(t)' = CallStackStep(CallsOf(t), evs[1])
  BY <1>1, <1>2, <1>3, <1>6, CallStackAppend
<1>7. QED
  BY <1>3, <1>4, <1>5, <1>6

LEMMA InitCalls == Init => CallsInv
<1>1. SUFFICES ASSUME Init PROVE CallsInv
  OBVIOUS
<1>2. PICK frame, main : /\ stack = <<frame>> /\ threads = <<main>> /\ frame.tid = 1
                         /\ main.events = <<>>
  <2>1. PICK frame, main : /\ frame = Frame(1, program.main, InitialCtx)
                           /\ main = NewThread(NoSpawn, program.main, InitialCtx)
    OBVIOUS
  <2>2. stack = <<frame>> /\ threads = <<main>>
    BY <1>1, <2>1 DEF Init
  <2>3. frame.tid = 1 /\ main.events = <<>>
    BY <2>1 DEF Frame, NewThread
  <2>4. QED
    BY <2>2, <2>3
<1>3. Len(stack) = 1 /\ Tids = {1}
  BY <1>2 DEF Tids
<1>4. CallsOf(1) = <<>>
  BY <1>2, CallStackOfNothing DEF CallsOf
<1>5. ASSUME NEW lo \in 1..Len(stack), NEW hi \in 1..Len(stack)
      PROVE  [i \in 1..(hi - lo) |-> CallAt(lo + i - 1)] = <<>>
  <2>1. 1..(hi - lo) = {}
    BY <1>3
  <2>2. QED
    BY <2>1
<1>6. CallsOpen(1)
  BY <1>4, <1>5 DEF CallsOpen
<1>7. QED
  BY <1>3, <1>6 DEF CallsInv

\* A call opens one.
LEMMA CallOpens ==
  ASSUME Inv, CallsInv, NEW evs, NEW frame, Calls(evs, frame)
  PROVE  CallsInv'
<1>1. /\ Tid \in Tids /\ stack \in Seq(FrameRecords) /\ program' = program
      /\ IRNow \in IRs /\ stack[Len(stack)].tid = Tid
  BY TopTyped, IRTyped DEF Calls, HasIR, Continue, Inv, Typed, Top, Tid
<1>2. PICK t \in Tids, n \in Nat : t = Tid /\ n = Len(stack)
  BY <1>1
<1>3. /\ Len(stack') = n + 1 /\ stack'[n + 1].tid = t
      /\ \A i \in 1..n : stack'[i] = stack[i]
  BY <1>1, <1>2 DEF Calls
<1>4. /\ evs \in Seq(EventRecords) /\ Grows(t, evs) /\ Len(evs) = 1
      /\ evs[1].type = "EnterCall" /\ evs[1].ir = IRNow /\ evs[1] \in EventRecords
  <2>1. evs \in Seq(EventRecords) /\ Len(evs) = 1 /\ 1 \in 1..Len(evs)
    BY DEF Calls
  <2>2. evs[1] \in EventRecords
    BY <2>1
  <2>3. QED
    BY <1>2, <2>1, <2>2 DEF Calls
<1>5. PICK inst \in Insts : inst = IRNow.inst
  BY <1>1 DEF Insts
<1>6. CallsOf(t) \in Seq(Insts) /\ CallsOf(t)' = Append(CallsOf(t), inst)
  <2>1. CallsOf(t) \in Seq(Insts) /\ CallsOf(t)' = CallStackStep(CallsOf(t), evs[1])
    BY <1>4, CallsGrow
  <2>2. CallStackStep(CallsOf(t), evs[1]) = Append(CallsOf(t), evs[1].ir.inst)
    BY <1>4, <2>1, StepTyped
  <2>3. QED
    BY <1>4, <1>5, <2>1, <2>2
<1>7. CallsOpen(t)'
  <2>1. ASSUME \A i \in 1..Len(stack') : stack'[i].tid # t PROVE FALSE
    BY <1>3, <2>1
  <2>2. ASSUME NEW lo \in 1..Len(stack'), NEW hi \in 1..Len(stack'), lo <= hi,
               FramesOf(t, lo, hi)'
        PROVE  CallsOf(t)' = [i \in 1..(hi - lo) |-> CallAt(lo + i - 1)']
    <3>1. \A i \in 1..(n + 1) : stack'[i].tid = t <=> lo <= i /\ i <= hi
      BY <1>3, <2>2 DEF FramesOf
    <3>2. n \in 1..n
      BY <1>2, TopTyped DEF Calls, HasIR, Inv, Positions
    <3>3. hi = n + 1
      BY <1>3, <2>2, <3>1
    <3>4. stack'[n].tid = t
      BY <1>1, <1>2, <1>3, <3>2
    <3>5. lo \in 1..n
      BY <1>3, <2>2, <3>1, <3>2, <3>4
    <3>6. FramesOf(t, lo, n)
      <4>1. \A i \in 1..n : stack[i].tid = t <=> lo <= i /\ i <= n
        BY <1>3, <3>1, <3>3
      <4>2. QED
        BY <1>2, <4>1 DEF FramesOf
    <3>7. CallsOf(t) = [i \in 1..(n - lo) |-> CallAt(lo + i - 1)]
      BY <1>2, <3>2, <3>5, <3>6 DEF CallsInv, CallsOpen
    <3>8. \A i \in 1..n : CallAt(i)' = CallAt(i)
      BY <1>1, <1>3 DEF CallAt, IRAt
    <3>9. CallAt(n) = inst
      BY <1>2, <1>5 DEF CallAt, IRNow, Top
    <3>10. PICK k \in Nat : k = n - lo
      BY <3>5
    <3>11. Len(CallsOf(t)) = k
      BY <1>6, <3>7, <3>10
    <3>12. PICK new : new = Append(CallsOf(t), inst)
      OBVIOUS
    <3>13. /\ new = [i \in 1..(k + 1) |-> new[i]] /\ new[k + 1] = inst
           /\ \A i \in 1..k : new[i] = CallsOf(t)[i]
      <4>1. PICK old \in Seq(Insts) : old = CallsOf(t) /\ Len(old) = k
        BY <1>6, <3>11
      <4>2. new = Append(old, inst)
        BY <3>12, <4>1
      <4>3. /\ new \in Seq(Insts) /\ Len(new) = k + 1 /\ new[k + 1] = inst
            /\ \A i \in 1..k : new[i] = old[i]
        BY <4>1, <4>2
      <4>4. new = [i \in 1..(k + 1) |-> new[i]]
        BY <4>3
      <4>5. QED
        BY <4>1, <4>3, <4>4
    <3>14. ASSUME NEW i \in 1..(k + 1) PROVE new[i] = CallAt(lo + i - 1)'
      <4>1. lo + i - 1 \in 1..n
        BY <3>5, <3>10
      <4>2. CallAt(lo + i - 1)' = CallAt(lo + i - 1)
        BY <3>8, <4>1
      <4>3. CASE i = k + 1
        <5>1. lo + i - 1 = n
          BY <3>5, <3>10, <4>3
        <5>2. QED
          BY <3>9, <3>13, <4>2, <4>3, <5>1
      <4>4. CASE i # k + 1
        <5>1. i \in 1..k
          BY <4>4
        <5>2. QED
          BY <3>7, <3>10, <3>13, <4>2, <5>1
      <4>5. QED
        BY <4>3, <4>4
    <3>15. k + 1 = hi - lo
      BY <3>3, <3>5, <3>10
    <3>16. QED
      BY <1>6, <3>12, <3>13, <3>14, <3>15
  <2>3. QED
    BY <2>1, <2>2 DEF CallsOpen
<1>8. ASSUME NEW u \in Tids, u # t PROVE CallsOpen(u)'
  <2>1. CallsOpen(u) /\ CallsOf(u)' = CallsOf(u)
    BY <1>4, <1>8, CallsGrow DEF CallsInv
  <2>2. SameBelow(n) /\ n \in 0..Len(stack) /\ n <= Len(stack') /\ Len(stack') \in Nat
    BY <1>2, <1>3 DEF SameBelow
  <2>3. \A i \in 1..Len(stack') : i > n => stack'[i].tid # u
    BY <1>3, <1>8
  <2>4. \A i \in 1..Len(stack) : i > n => stack[i].tid # u
    BY <1>2
  <2>5. QED
    BY <1>1, <2>1, <2>2, <2>3, <2>4, CallsStay
<1>9. Tids' = Tids
  BY DEF Calls, Tids
<1>10. QED
  BY <1>7, <1>8, <1>9 DEF CallsInv

\* A fork opens none, neither of its thread nor of the new one.
LEMMA ForkOpensNone ==
  ASSUME Inv, CallsInv, NEW evs, NEW frame, NEW new, Forks(evs, frame, new)
  PROVE  CallsInv'
<1>1. /\ Tid \in Tids /\ stack \in Seq(FrameRecords) /\ program' = program
      /\ Len(threads) \in Nat
  BY TopTyped, Numbers DEF Forks, HasIR, Inv, Typed, Positions
<1>2. PICK n \in Nat : n = Len(stack)
  BY <1>1
<1>3. /\ Len(stack') = n + 1 /\ stack'[n + 1].tid = new
      /\ \A i \in 1..n : stack'[i] = stack[i]
  BY <1>1, <1>2 DEF Forks
<1>4. /\ evs \in Seq(EventRecords) /\ Grows(Tid, evs) /\ Len(evs) = 1
      /\ evs[1].type = "Fork" /\ CallsCutOff(evs)
  BY DEF Forks, CallsCutOff
<1>5. /\ new \notin Tids /\ new = Len(threads) + 1 /\ Tids' = Tids \cup {new}
      /\ new \in 1..Len(threads')
  BY <1>1 DEF Forks, Tids
<1>6. ASSUME NEW u \in Tids PROVE CallsOpen(u)'
  <2>1. CallsOpen(u) /\ CallsOf(u)' = CallsOf(u)
    BY <1>1, <1>4, CallsGrow DEF CallsInv
  <2>2. SameBelow(n) /\ n \in 0..Len(stack) /\ n <= Len(stack') /\ Len(stack') \in Nat
    BY <1>2, <1>3 DEF SameBelow
  <2>3. \A i \in 1..Len(stack') : i > n => stack'[i].tid # u
    BY <1>3, <1>5
  <2>4. \A i \in 1..Len(stack) : i > n => stack[i].tid # u
    BY <1>2
  <2>5. QED
    BY <1>1, <2>1, <2>2, <2>3, <2>4, CallsStay
<1>7. CallsOpen(new)'
  <2>1. CallsOf(new)' = <<>>
    BY <1>4, <1>5, CallStackOfNothing DEF Grows, CallsOf
  <2>2. ASSUME NEW lo \in 1..Len(stack'), NEW hi \in 1..Len(stack'), lo <= hi,
               FramesOf(new, lo, hi)'
        PROVE  [i \in 1..(hi - lo) |-> CallAt(lo + i - 1)'] = <<>>
    <3>1. \A i \in 1..n : stack'[i].tid # new
      BY <1>2, <1>3, <1>5, Numbers
    <3>2. stack'[lo].tid = new /\ stack'[hi].tid = new
      BY <2>2 DEF FramesOf
    <3>3. lo = n + 1 /\ hi = n + 1
      BY <1>3, <3>1, <3>2
    <3>4. 1..(hi - lo) = {}
      BY <3>3
    <3>5. QED
      BY <3>4
  <2>3. QED
    BY <2>1, <2>2 DEF CallsOpen
<1>8. QED
  BY <1>5, <1>6, <1>7 DEF CallsInv

\* A return closes the call that its caller waits at.
LEMMA ReturnCloses ==
  ASSUME Inv, CallsInv, NEW evs, ReturnsToCall(evs)
  PROVE  CallsInv'
<1>1. /\ Tid \in Tids /\ stack \in Seq(FrameRecords) /\ program' = program
      /\ Len(stack) > 1 /\ IRAt(Caller) \in IRs
      /\ stack[Len(stack)].tid = Tid /\ stack[Len(stack) - 1].tid = Tid
  BY TopTyped, CallerTyped DEF ReturnsToCall, Returns, Continue, Inv, Typed, Top, Tid, Caller
<1>2. PICK t \in Tids, n \in Nat : t = Tid /\ n = Len(stack)
  BY <1>1
<1>3. /\ Len(stack') = n - 1 /\ SameBelow(n - 1) /\ n - 1 \in 0..n /\ n - 1 \in Nat /\ n > 1
  BY <1>1, <1>2, PoppedStack DEF ReturnsToCall, Returns
<1>4. /\ evs \in Seq(EventRecords) /\ Grows(t, evs) /\ Len(evs) = 1
      /\ evs[1].type = "LeaveCall" /\ evs[1].ir = IRAt(Caller) /\ evs[1] \in EventRecords
  <2>1. evs \in Seq(EventRecords) /\ Len(evs) = 1 /\ 1 \in 1..Len(evs)
    BY DEF ReturnsToCall
  <2>2. evs[1] \in EventRecords
    BY <2>1
  <2>3. QED
    BY <1>2, <2>1, <2>2 DEF ReturnsToCall
<1>5. PICK inst \in Insts : inst = IRAt(Caller).inst
  BY <1>1 DEF Insts
<1>6. CallsOf(t) \in Seq(Insts) /\ CallsOf(t)' = CallStackStep(CallsOf(t), evs[1])
  BY <1>4, CallsGrow
<1>7. CallsOpen(t)'
  <2>1. stack'[n - 1].tid = t /\ n - 1 \in 1..Len(stack')
    BY <1>1, <1>2, <1>3 DEF SameBelow
  <2>2. ASSUME NEW lo \in 1..Len(stack'), NEW hi \in 1..Len(stack'), lo <= hi,
               FramesOf(t, lo, hi)'
        PROVE  CallsOf(t)' = [i \in 1..(hi - lo) |-> CallAt(lo + i - 1)']
    <3>1. \A i \in 1..(n - 1) : stack'[i].tid = t <=> lo <= i /\ i <= hi
      BY <1>3, <2>2 DEF FramesOf
    <3>2. hi = n - 1
      BY <1>3, <2>1, <2>2, <3>1
    <3>3. lo \in 1..(n - 1)
      BY <1>3, <2>2
    <3>4. FramesOf(t, lo, n)
      <4>1. \A i \in 1..n : stack[i].tid = t <=> lo <= i /\ i <= n
        <5>1. SUFFICES ASSUME NEW i \in 1..n PROVE stack[i].tid = t <=> lo <= i /\ i <= n
          OBVIOUS
        <5>2. CASE i = n
          BY <1>1, <1>2, <3>3, <5>2
        <5>3. CASE i # n
          <6>1. i \in 1..(n - 1)
            BY <5>3
          <6>2. stack'[i].tid = stack[i].tid
            BY <1>3, <6>1 DEF SameBelow
          <6>3. QED
            BY <3>1, <3>2, <6>1, <6>2
        <5>4. QED
          BY <5>2, <5>3
      <4>2. QED
        BY <1>2, <4>1 DEF FramesOf
    <3>5. CallsOf(t) = [i \in 1..(n - lo) |-> CallAt(lo + i - 1)]
      <4>1. lo \in 1..Len(stack) /\ n \in 1..Len(stack) /\ lo <= n
        BY <1>2, <1>3, <3>3
      <4>2. QED
        BY <3>4, <4>1 DEF CallsInv, CallsOpen
    <3>6. \A i \in 1..(n - 2) : CallAt(i)' = CallAt(i)
      <4>1. \A i \in 1..(n - 2) : stack'[i] = stack[i]
        BY <1>3 DEF SameBelow
      <4>2. QED
        BY <1>1, <4>1 DEF CallAt, IRAt
    <3>7. CallAt(n - 1) = inst
      BY <1>2, <1>5 DEF CallAt, Caller
    <3>8. PICK k \in Nat : k = n - 1 - lo
      BY <3>3
    <3>9. PICK old \in Seq(Insts) : old = CallsOf(t)
      BY <1>6
    <3>10. Len(old) = k + 1 /\ \A i \in 1..(k + 1) : old[i] = CallAt(lo + i - 1)
      <4>1. n - lo = k + 1
        BY <3>8
      <4>2. old = [i \in 1..(k + 1) |-> CallAt(lo + i - 1)]
        BY <3>5, <3>9, <4>1
      <4>3. QED
        BY <4>2
    <3>11. old # <<>> /\ Last(old) = inst
      <4>1. k + 1 \in 1..(k + 1) /\ lo + (k + 1) - 1 = n - 1
        BY <3>3, <3>8
      <4>2. old[k + 1] = inst
        BY <3>7, <3>10, <4>1
      <4>3. QED
        BY <3>10, <4>2 DEF Last
    <3>12. CallsOf(t)' = Front(old)
      <4>1. CallStackStep(old, evs[1]) = Front(old)
        BY <1>4, <1>5, <3>11, StepTyped
      <4>2. QED
        BY <1>6, <3>9, <4>1
    <3>13. PICK front : front = Front(old)
      OBVIOUS
    <3>14. front \in Seq(Insts) /\ Len(front) = k /\ \A i \in 1..k : front[i] = old[i]
      <4>1. /\ front \in Seq(Insts) /\ Len(front) = Len(old) - 1
            /\ \A i \in 1..(Len(old) - 1) : front[i] = old[i]
        BY <3>11, <3>13, FrontOf
      <4>2. Len(old) - 1 = k
        BY <3>10
      <4>3. QED
        BY <4>1, <4>2
    <3>15. ASSUME NEW i \in 1..k PROVE front[i] = CallAt(lo + i - 1)'
      <4>1. i \in 1..(k + 1) /\ lo + i - 1 \in 1..(n - 2)
        BY <3>3, <3>8
      <4>2. QED
        BY <3>6, <3>10, <3>14, <4>1
    <3>16. front = [i \in 1..k |-> CallAt(lo + i - 1)']
      <4>1. front = [i \in 1..k |-> front[i]]
        BY <3>14
      <4>2. QED
        BY <3>15, <4>1
    <3>17. hi - lo = k
      BY <3>2, <3>8
    <3>18. QED
      BY <3>12, <3>13, <3>16, <3>17
  <2>3. QED
    BY <2>1, <2>2 DEF CallsOpen
<1>8. ASSUME NEW u \in Tids, u # t PROVE CallsOpen(u)'
  <2>1. CallsOpen(u) /\ CallsOf(u)' = CallsOf(u)
    BY <1>4, <1>8, CallsGrow DEF CallsInv
  <2>2. \A i \in 1..Len(stack') : i > n - 1 => stack'[i].tid # u
    BY <1>3
  <2>3. \A i \in 1..Len(stack) : i > n - 1 => stack[i].tid # u
    BY <1>1, <1>2, <1>8
  <2>4. n - 1 \in 0..Len(stack) /\ n - 1 <= Len(stack') /\ Len(stack') \in Nat
    BY <1>2, <1>3
  <2>5. QED
    BY <1>1, <1>3, <2>1, <2>2, <2>3, <2>4, CallsStay
<1>9. Tids' = Tids
  BY DEF ReturnsToCall, Returns, Tids
<1>10. QED
  BY <1>7, <1>8, <1>9 DEF CallsInv

\* A thread that ends has one frame, and so no call that is open.
LEMMA ThreadCloses ==
  ASSUME Inv, TreeInv, CallsInv, NEW parent, ReturnsToFork(parent)
  PROVE  CallsInv'
<1>1. /\ Tid \in Tids /\ stack \in Seq(FrameRecords) /\ program' = program
      /\ Len(stack) > 1 /\ stack[Len(stack)].tid = Tid
      /\ stack[Len(stack) - 1].tid = parent /\ parent \in Tids /\ parent # Tid
  BY TopTyped DEF ReturnsToFork, Returns, Continue, Inv, Typed, Top, Tid, Caller
<1>2. PICK t \in Tids, n \in Nat : t = Tid /\ n = Len(stack)
  BY <1>1
<1>3. /\ Len(stack') = n - 1 /\ SameBelow(n - 1) /\ n - 1 \in 0..n /\ n - 1 \in Nat /\ n > 1
  BY <1>1, <1>2, PoppedStack DEF ReturnsToFork, Returns
<1>4. \A u \in Tids : CallsOf(u)' = CallsOf(u)
  <2>1. PICK evs : evs = <<>>
    OBVIOUS
  <2>2. evs \in Seq(EventRecords) /\ \A k \in 1..Len(evs) : FALSE
    BY <2>1
  <2>3. Grows(parent, evs) /\ CallsCutOff(evs)
    BY <2>1, <2>2 DEF ReturnsToFork, CallsCutOff
  <2>4. QED
    BY <1>1, <2>2, <2>3, CallsGrow
<1>5. \A i \in 1..(n - 1) : stack[i].tid # t
  <2>1. SUFFICES ASSUME NEW i \in 1..(n - 1) PROVE stack[i].tid # t
    OBVIOUS
  <2>2. /\ i \in 1..Len(stack) /\ n - 1 \in 1..Len(stack) /\ n \in 1..Len(stack)
        /\ n - 1 < n /\ i <= n - 1
    BY <1>2, <1>3
  <2>3. /\ stack[i].tid \in Nat /\ stack[n - 1].tid \in Nat /\ stack[n].tid \in Nat
    BY <2>2, Numbers DEF Positions
  <2>4. stack[n - 1].tid <= stack[n].tid
    BY <2>2 DEF TreeInv, StackOrdered
  <2>5. stack[n - 1].tid < t
    BY <1>1, <1>2, <2>3, <2>4
  <2>6. stack[i].tid <= stack[n - 1].tid
    <3>1. CASE i = n - 1
      BY <2>3, <3>1
    <3>2. CASE i # n - 1
      BY <2>2, <3>2 DEF TreeInv, StackOrdered
    <3>3. QED
      BY <3>1, <3>2
  <2>7. QED
    BY <1>1, <1>2, <2>3, <2>5, <2>6
<1>6. CallsOpen(t)'
  <2>1. FramesOf(t, n, n)
    BY <1>1, <1>2, <1>5 DEF FramesOf
  <2>2. CallsOf(t) = <<>>
    <3>1. n \in 1..Len(stack) /\ n <= n /\ 1..(n - n) = {}
      BY <1>2, <1>3
    <3>2. CallsOf(t) = [i \in 1..(n - n) |-> CallAt(n + i - 1)]
      BY <2>1, <3>1 DEF CallsInv, CallsOpen
    <3>3. QED
      BY <3>1, <3>2
  <2>3. \A i \in 1..Len(stack') : stack'[i].tid # t
    BY <1>3, <1>5 DEF SameBelow
  <2>4. ASSUME NEW lo \in 1..Len(stack'), NEW hi \in 1..Len(stack'), lo <= hi,
               FramesOf(t, lo, hi)'
        PROVE  FALSE
    BY <2>3, <2>4 DEF FramesOf
  <2>5. QED
    BY <1>4, <2>2, <2>4 DEF CallsOpen
<1>7. ASSUME NEW u \in Tids, u # t PROVE CallsOpen(u)'
  <2>1. CallsOpen(u) /\ CallsOf(u)' = CallsOf(u)
    BY <1>4, <1>7 DEF CallsInv
  <2>2. \A i \in 1..Len(stack') : i > n - 1 => stack'[i].tid # u
    BY <1>3
  <2>3. \A i \in 1..Len(stack) : i > n - 1 => stack[i].tid # u
    BY <1>1, <1>2, <1>7
  <2>4. n - 1 \in 0..Len(stack) /\ n - 1 <= Len(stack') /\ Len(stack') \in Nat
    BY <1>2, <1>3
  <2>5. QED
    BY <1>1, <1>3, <2>1, <2>2, <2>3, <2>4, CallsStay
<1>8. Tids' = Tids
  BY DEF ReturnsToFork, Returns, Tids
<1>9. QED
  BY <1>6, <1>7, <1>8 DEF CallsInv

\* Every step keeps the calls.
LEMMA CallsNext ==
  ASSUME Inv, TreeInv, CallsInv, [Next]_vars
  PROVE  CallsInv'
<1>1. Len(stack) \in Nat
  BY Numbers
<1>2. CASE Staying
  <2>1. PICK evs : Advances(evs)
    BY <1>2, StayingAdvances
  <2>2. Tid \in Tids /\ program' = program /\ Tids' = Tids
    BY <2>1, TopTyped DEF Advances, HasIR, Continue, Inv, Tids
  <2>3. \A u \in Tids : CallsOf(u)' = CallsOf(u)
    BY <2>1, <2>2, CallsGrow DEF Advances
  <2>4. Len(stack') = Len(stack) /\ SameBelow(Len(stack))
    BY <2>1, AdvancedStack DEF Advances
  <2>5. ASSUME NEW u \in Tids PROVE CallsOpen(u)'
    <3>1. CallsOpen(u) /\ CallsOf(u)' = CallsOf(u)
      BY <2>3 DEF CallsInv
    <3>2. PICK n \in 0..Len(stack) : n = Len(stack)
      BY <1>1
    <3>3. /\ n <= Len(stack') /\ SameBelow(n) /\ Len(stack') \in Nat
          /\ \A i \in 1..Len(stack) : i > n => stack[i].tid # u
          /\ \A i \in 1..Len(stack') : i > n => stack'[i].tid # u
      BY <1>1, <2>4, <3>2
    <3>4. QED
      BY <2>2, <3>1, <3>3, CallsStay
  <2>6. QED
    BY <2>2, <2>5 DEF CallsInv
<1>3. CASE VisitCall
  BY <1>3, VisitCallCalls, CallOpens
<1>4. CASE VisitFork
  BY <1>4, VisitForkForks, ForkOpensNone
<1>5. CASE ReturnFromCall
  BY <1>5, ReturnFromCallReturns, ReturnCloses
<1>6. CASE ReturnFromThread
  BY <1>6, ReturnFromThreadReturns, ThreadCloses
<1>7. CASE ~Building
  <2>1. /\ UNCHANGED threads
        /\ ReturnFromMain \/ Flatten \/ Finish \/ Abort \/ UNCHANGED vars
    BY <1>7, OtherSteps
  <2>2. Tids' = Tids /\ \A u \in Tids : CallsOf(u)' = CallsOf(u)
    BY <2>1 DEF Tids, CallsOf
  <2>3. CASE ReturnFromMain
    <3>1. Len(stack) = 1 /\ stack' = <<>>
      BY <2>3 DEF ReturnFromMain
    <3>2. ASSUME NEW u \in Tids PROVE CallsOf(u) = <<>>
      <4>1. CASE stack[1].tid = u
        <5>1. FramesOf(u, 1, 1) /\ 1 \in 1..Len(stack) /\ 1..(1 - 1) = {}
          BY <3>1, <4>1 DEF FramesOf
        <5>2. CallsOf(u) = [i \in 1..(1 - 1) |-> CallAt(1 + i - 1)]
          BY <5>1 DEF CallsInv, CallsOpen
        <5>3. QED
          BY <5>1, <5>2
      <4>2. CASE stack[1].tid # u
        <5>1. \A i \in 1..Len(stack) : stack[i].tid # u
          BY <3>1, <4>2
        <5>2. QED
          BY <5>1 DEF CallsInv, CallsOpen
      <4>3. QED
        BY <4>1, <4>2
    <3>3. \A i \in 1..Len(stack') : FALSE
      BY <3>1
    <3>4. \A u \in Tids : CallsOpen(u)'
      BY <2>2, <3>2, <3>3 DEF CallsOpen
    <3>5. QED
      BY <2>2, <3>4 DEF CallsInv
  <2>4. CASE Flatten \/ Finish \/ Abort \/ UNCHANGED vars
    <3>1. stack' = stack /\ program' = program
      BY <2>4 DEF Flatten, Finish, Abort, vars
    <3>2. /\ \A u \in Tids : \A lo, hi \in 1..Len(stack) :
               FramesOf(u, lo, hi)' <=> FramesOf(u, lo, hi)
          /\ \A i : CallAt(i)' = CallAt(i)
      BY <3>1 DEF FramesOf, CallAt, IRAt
    <3>3. \A u \in Tids : CallsOpen(u)'
      BY <2>2, <3>1, <3>2 DEF CallsInv, CallsOpen
    <3>4. QED
      BY <2>2, <3>3 DEF CallsInv
  <2>5. QED
    BY <2>1, <2>3, <2>4
<1>8. QED
  BY <1>2, <1>3, <1>4, <1>5, <1>6, <1>7 DEF Building

\* In a finished trace the enter and leave events of every thread are balanced,
\* around the calls that were cut off to prevent recursion too: the callstack
\* that computeCallstack rebuilds of an event is the one buildTrace had there.
THEOREM TracesBalanceCalls == Spec => []CallsBalanced
<1> DEFINE Balanced == Inv /\ TreeInv /\ CallsInv
<1>1. Init => Balanced
  BY InitInv, InitOrdered, InitCalls
<1>2. Balanced /\ [Next]_vars => Balanced'
  BY NextKeeps, TreeNext, CallsNext
<1>3. Balanced => CallsBalanced
  <2>1. SUFFICES ASSUME Inv, CallsInv, status = "done" PROVE
          \A t \in DOMAIN threads : CallStackAfter(threads[t].events) = <<>>
    BY DEF CallsBalanced
  <2>2. \A i \in 1..Len(stack) : FALSE
    BY <2>1 DEF Inv, StackInv
  <2>3. \A t \in Tids : CallsOf(t) = <<>>
    BY <2>1, <2>2 DEF CallsInv, CallsOpen
  <2>4. DOMAIN threads = Tids
    BY <2>1 DEF Inv, Typed, Tids
  <2>5. QED
    BY <2>3, <2>4 DEF CallsOf
<1> HIDE DEF Balanced
<1>4. QED
  BY <1>1, <1>2, <1>3, PTL DEF Spec
=============================================================================
