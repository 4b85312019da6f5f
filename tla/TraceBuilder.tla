---------------------------- MODULE TraceBuilder ----------------------------
(***************************************************************************)
(* The construction of a program trace (Trace/Build/TraceBuilder.cpp,      *)
(* Trace/ThreadTrace.cpp, Trace/Build/OpenMPRuntime.cpp).                  *)
(*                                                                         *)
(* buildTrace walks the summaries of the functions a program reaches from  *)
(* its entry.  A call descends into the callee on the same thread, a fork  *)
(* builds the whole trace of the child thread before its parent goes on.   *)
(* The recursion of the code is the stack of frames here; the frame on top *)
(* is the activation of buildTrace that runs.                              *)
(*                                                                         *)
(* The OpenMP runtime model is one object for the whole program: its       *)
(* regions and its list of unjoined tasks are shared by all the threads.   *)
(*                                                                         *)
(* A thread's index is its ThreadID plus one, and an event's index its     *)
(* EventID plus one.                                                       *)
(***************************************************************************)
EXTENDS Naturals, FiniteSets, SequencesExt

CONSTANTS
  Programs,       \* the programs a trace may be built of
  OriginK,        \* how many spawn sites a context remembers (KOrigin<3>)
  NoSpawn,        \* the spawnSite of the main thread
  NoFork,         \* an event that names no fork
  NoInst          \* a null instruction

ASSUME OriginKAssumption == OriginK \in Nat \ {0}

ASSUME NoneAssumption ==
  NoSpawn \notin (Nat \ {0}) \X (Nat \ {0}) /\ NoFork \notin (Nat \ {0}) \X (Nat \ {0})

(***************************************************************************)
(* A program has an entry function, the summary (a sequence of IR) of each *)
(* function that has a body, and the functions that are only declared.     *)
(* IR is a record with a type and an instruction; a fork has a handle and  *)
(* an entry (and says whether it forks an OpenMP master), a join a handle, *)
(* a lock or unlock a lock, a call a callee.                               *)
(***************************************************************************)
ForkTypes == {"PthreadCreate", "OpenMPFork", "OpenMPForkTeams", "OpenMPTaskFork"}

JoinTypes == {"PthreadJoin", "OpenMPJoin", "OpenMPJoinTeams"}
LockTypes == {"PthreadMutexLock", "OpenMPCriticalStart", "OpenMPSetLock"}
UnlockTypes == {"PthreadMutexUnlock", "OpenMPCriticalEnd", "OpenMPUnsetLock"}

\* What buildTrace visits an IR as: the types come in ranges (IR.h, classof).
Kind(ir) ==
  CASE ir.type = "Load" -> "Read"
    [] ir.type = "Store" -> "Write"
    [] ir.type \in ForkTypes -> "Fork"
    [] ir.type \in JoinTypes -> "Join"
    [] ir.type \in LockTypes -> "Lock"
    [] ir.type \in UnlockTypes -> "Unlock"
    [] ir.type = "OpenMPBarrier" -> "Barrier"
    [] OTHER -> "Call"

(***************************************************************************)
(* Summaries are sequences, the entry of the program and of its forks have *)
(* a body, and functions that are only declared have none.                 *)
(***************************************************************************)
HasSummaries(p) ==
  /\ p.main \in DOMAIN p.body
  /\ p.extern \cap DOMAIN p.body = {}
  /\ \A fn \in DOMAIN p.body :
       /\ p.body[fn] \in Seq(ToSet(p.body[fn]))
       /\ \A ir \in ToSet(p.body[fn]) :
            ir.type \in ForkTypes => ir.entry \in DOMAIN p.body

ASSUME ProgramsAssumption == \A p \in Programs : HasSummaries(p)

(***************************************************************************)
(* An OpenMP fork is pushed with its twin, and the joins of both after     *)
(* them (IR/Builder.cpp).  The twin is the next call, which is a duplicate *)
(* of the fork (DuplicateOpenMPForks.cpp).                                 *)
(***************************************************************************)
PairsForks(p) ==
  \A fn \in DOMAIN p.body : LET body == p.body[fn] IN \A k \in DOMAIN body :
    body[k].type = "OpenMPFork" =>
      /\ \E j \in DOMAIN body :
           /\ k < j /\ body[j].type = "OpenMPJoin"
           /\ \A i \in k..(j - 1) : body[i].type = "OpenMPFork"
      /\ ~body[k].master =>
           /\ k > 1 /\ body[k - 1].type = "OpenMPFork"
           /\ body[k - 1].master /\ body[k - 1].entry = body[k].entry

ASSUME RegionsAssumption == \A p \in Programs : PairsForks(p)

(***************************************************************************)
(* The function that is outlined for a teams region is forked as such.     *)
(***************************************************************************)
OutlinesTeams(p) ==
  \A fn, other \in DOMAIN p.body :
    \A fork \in ToSet(p.body[fn]), teams \in ToSet(p.body[other]) :
      /\ fork.type \in ForkTypes /\ teams.type = "OpenMPForkTeams"
      /\ fork.entry = teams.entry
      => fork.type = "OpenMPForkTeams"

ASSUME TeamsAssumption == \A p \in Programs : OutlinesTeams(p)

(***************************************************************************)
(* A teams region is in no other one, as OpenMP demands: nothing that its  *)
(* function calls or forks, directly or not, forks a teams region.  The    *)
(* runtime model has one flag for all teams regions, and clears it at the  *)
(* end of any.                                                             *)
(***************************************************************************)
NestsNoTeams(p) ==
  \E inTeams \in SUBSET DOMAIN p.body :
    \A fn \in DOMAIN p.body : \A ir \in ToSet(p.body[fn]) :
      /\ ir.type = "OpenMPForkTeams" => fn \notin inTeams /\ ir.entry \in inTeams
      /\ fn \in inTeams /\ Kind(ir) = "Fork" => ir.entry \in inTeams
      /\ fn \in inTeams /\ Kind(ir) = "Call" /\ ir.callee \in DOMAIN p.body =>
           ir.callee \in inTeams

ASSUME NestingAssumption == \A p \in Programs : NestsNoTeams(p)

(***************************************************************************)
(* A master or single region starts and ends with a call of a function of  *)
(* the runtime, which is only declared: an instruction of its own.         *)
(***************************************************************************)
MasterMarks == {"OpenMPMasterStart", "OpenMPMasterEnd"}
RegionMarks == MasterMarks \cup {"OpenMPSingleStart", "OpenMPSingleEnd"}

CallsRuntime(p) ==
  \A fn \in DOMAIN p.body : \A k \in DOMAIN p.body[fn] :
    p.body[fn][k].type \in RegionMarks =>
      /\ p.body[fn][k].callee \in p.extern \ DOMAIN p.body
      /\ p.body[fn][k].inst # NoInst
      /\ \A other \in DOMAIN p.body : \A l \in DOMAIN p.body[other] :
           p.body[other][l].inst = p.body[fn][k].inst => other = fn /\ l = k

ASSUME MarksAssumption == \A p \in Programs : CallsRuntime(p)

(***************************************************************************)
(* Both kinds of regions are structured blocks.  A master region is no     *)
(* part of another one in its function ("encountered two master starts in  *)
(* a row", OpenMPRuntime.h), and one that starts in a single region ends   *)
(* there.                                                                  *)
(***************************************************************************)
Closes(body, k, e) ==
  /\ k \in DOMAIN body /\ e \in DOMAIN body /\ k < e
  /\ body[k].type = "OpenMPMasterStart" /\ body[e].type = "OpenMPMasterEnd"
  /\ \A i \in (k + 1)..(e - 1) : body[i].type \notin MasterMarks

ClosesWithin(body, from, to) ==
  \A m \in from..to : body[m].type = "OpenMPMasterStart" =>
    \E e \in m..to : Closes(body, m, e)

NestsRegions(p) ==
  \A fn \in DOMAIN p.body : LET body == p.body[fn] IN \A k \in DOMAIN body :
    /\ body[k].type = "OpenMPMasterStart" => \E e \in DOMAIN body : Closes(body, k, e)
    /\ body[k].type = "OpenMPMasterEnd" => \E s \in DOMAIN body : Closes(body, s, k)
    /\ body[k].type = "OpenMPSingleStart" =>
         \E j \in DOMAIN body :
           k < j /\ body[j].type = "OpenMPSingleEnd" /\ ClosesWithin(body, k, j)

ASSUME StructureAssumption == \A p \in Programs : NestsRegions(p)

VARIABLES
  program,            \* the program
  status,             \* "building", "flattening", "done" or "aborted"
  stack,              \* the activations of buildTrace, innermost last
  threads,            \* the threads built so far, by ThreadID
  inParallel,         \* a thread was spawned
  inTeamsRegion,      \* runtime model: inside a teams region
  inSingleRegion,     \* runtime model: inside a single region
  masterRegions,      \* runtime model: the master regions seen, <<start, end>>
  currentMasterStart, \* runtime model: the start of the open master region
  unjoinedTasks,      \* runtime model: fork events of the unjoined tasks
  flatThreads,        \* ProgramTrace: the flat list of threads
  flattenWorklist     \* ProgramTrace: the threads still to list

vars == <<program, status, stack, threads, inParallel, inTeamsRegion,
          inSingleRegion, masterRegions, currentMasterStart, unjoinedTasks,
          flatThreads, flattenWorklist>>

runtimeVars == <<inTeamsRegion, inSingleRegion, masterRegions,
                 currentMasterStart, unjoinedTasks>>

-----------------------------------------------------------------------------
(***************************************************************************)
(* Calling contexts: the spawn sites of the threads above (the last K) and *)
(* the last call site.                                                     *)
(***************************************************************************)
InitialCtx == [origins |-> <<>>, callsite |-> NoInst]

\* Mutant: remembers one spawn site too many.
LastK_OneMore(s) == SubSeq(s, IF Len(s) > OriginK + 1 THEN Len(s) - OriginK ELSE 1, Len(s))

LastK(s) == SubSeq(s, IF Len(s) > OriginK THEN Len(s) - OriginK + 1 ELSE 1, Len(s))

\* Mutant: every call is an origin.
ContextEvolve_AnyCall(ctx, ir) ==
  [origins |-> LastK(Append(ctx.origins, ir.inst)), callsite |-> ir.inst]

ContextEvolve(ctx, ir) ==
  [origins |-> IF ir.type \in ForkTypes THEN LastK(Append(ctx.origins, ir.inst))
                                        ELSE ctx.origins,
   callsite |-> ir.inst]

(***************************************************************************)
(* The running activation and its thread.                                  *)
(***************************************************************************)
Top == stack[Len(stack)]
Tid == Top.tid
Thread == threads[Tid]

IRAt(frame) == program.body[frame.fn][frame.pos]
IRNow == IRAt(Top)

HasIR == status = "building" /\ Top.pos <= Len(program.body[Top.fn])

Frame(t, fn, ctx) == [tid |-> t, fn |-> fn, ctx |-> ctx, pos |-> 1]

Step(frames) == [frames EXCEPT ![Len(frames)].pos = @ + 1]

OnCallStack(fn) == \E i \in DOMAIN stack : stack[i].tid = Tid /\ stack[i].fn = fn

NewEvent(type, ir) ==
  [type |-> type, ir |-> ir, ctx |-> Thread.einfo, fork |-> NoFork]

Emit(events) ==
  [threads EXCEPT ![Tid].events = @ \o events, ![Tid].skipUntil = NoInst]

EventAt(n) == threads[n[1]].events[n[2]]

IsOpenMPMasterThread ==
  /\ Thread.spawnSite # NoSpawn
  /\ EventAt(Thread.spawnSite).ir.type = "OpenMPFork"
  /\ EventAt(Thread.spawnSite).ir.master

\* Walks the spawn sites up to main, which has none: the threads above are
\* those with a frame on the stack.  The entry function of main is not compared.
IsRecursiveThreadSpawn(entry) ==
  \E i \in DOMAIN stack : LET above == threads[stack[i].tid] IN
    above.spawnSite # NoSpawn /\ above.entry = entry

-----------------------------------------------------------------------------
(***************************************************************************)
(* What happens to the IR now at hand.  shouldSkipIR, the check for the    *)
(* serial part of the program and the runtime model's preVisit come first. *)
(***************************************************************************)
\* Mutant: the target of the skip is not recognised.
Skipping_Forever == Thread.skipUntil # NoInst

Skipping == Thread.skipUntil # NoInst /\ IRNow.inst # Thread.skipUntil

Serial == ~inParallel /\ Kind(IRNow) \notin {"Fork", "Call"}

TeamSpecificTypes ==
  {"OpenMPBarrier", "OpenMPCriticalStart", "OpenMPCriticalEnd",
   "OpenMPSetLock", "OpenMPUnsetLock"}

SkippedInTeams == inTeamsRegion /\ IRNow.type \in TeamSpecificTypes

SkippedTask ==
  IRNow.type = "OpenMPTaskFork" /\ inSingleRegion /\ ~IsOpenMPMasterThread

SkippedMaster == IRNow.type = "OpenMPMasterStart" /\ ~IsOpenMPMasterThread

\* An assertion of markMasterStart or markMasterEnd fails, or the region of a
\* skipped master start is not in the map (std::map::at throws).
\* Mutant: the result of the lookup is not checked.
MasterMismatch_Unchecked == FALSE

MasterMismatch ==
  \/ SkippedMaster /\ \A region \in masterRegions : region[1] # IRNow.inst
  \/ IRNow.type = "OpenMPMasterStart" /\ IsOpenMPMasterThread /\ currentMasterStart # NoInst
  \/ IRNow.type = "OpenMPMasterEnd" /\ IsOpenMPMasterThread /\ currentMasterStart = NoInst

Reached == HasIR /\ ~Skipping

Unskipped == Reached /\ ~Serial /\ ~SkippedInTeams /\ ~SkippedTask

Visited == Unskipped /\ ~SkippedMaster /\ ~MasterMismatch

JoinsTasks == IRNow.type \in {"OpenMPBarrier", "OpenMPTaskWait", "OpenMPJoin"}

TaskJoins ==
  IF ~JoinsTasks THEN <<>> ELSE
  [i \in DOMAIN unjoinedTasks |->
     LET task == EventAt(unjoinedTasks[i]).ir
     IN [NewEvent("Join", [type |-> "OpenMPTaskJoin", inst |-> task.inst,
                           handle |-> task.entry])
         EXCEPT !.fork = unjoinedTasks[i]]]

\* Mutant: the joined tasks stay in the list.
TasksLeft_NotCleared == unjoinedTasks

TasksLeft == IF JoinsTasks THEN <<>> ELSE unjoinedTasks

\* What preVisit leaves in the runtime model; newTasks is what preFork adds.
PreVisit(newTasks) ==
  /\ inTeamsRegion' = (inTeamsRegion \/ IRNow.type = "OpenMPForkTeams")
  /\ unjoinedTasks' = TasksLeft \o newTasks
  /\ inSingleRegion' = (\/ IRNow.type = "OpenMPSingleStart"
                        \/ inSingleRegion /\ IRNow.type # "OpenMPSingleEnd")
  /\ IF IRNow.type = "OpenMPMasterStart"
     THEN currentMasterStart' = IRNow.inst /\ UNCHANGED masterRegions
     ELSE IF IRNow.type = "OpenMPMasterEnd" /\ IsOpenMPMasterThread
     THEN /\ masterRegions' = masterRegions \cup
               {r \in {<<currentMasterStart, IRNow.inst>>} :
                  \A old \in masterRegions : old[1] # r[1]}
          /\ currentMasterStart' = NoInst
     ELSE UNCHANGED <<masterRegions, currentMasterStart>>

-----------------------------------------------------------------------------
\* Mutant: the spawn site is the first event of the parent, not the last.
NewThread_FirstEvent(site, entry, ctx) ==
  [spawnSite |-> IF site = NoSpawn THEN NoSpawn ELSE <<site[1], 1>>, entry |-> entry,
   events |-> <<>>, childThreads |-> <<>>, einfo |-> ctx, skipUntil |-> NoInst]

NewThread(site, entry, ctx) ==
  [spawnSite |-> site, entry |-> entry, events |-> <<>>, childThreads |-> <<>>,
   einfo |-> ctx, skipUntil |-> NoInst]

Init ==
  /\ program \in Programs
  /\ status = "building"
  /\ stack = <<Frame(1, program.main, InitialCtx)>>
  /\ threads = <<NewThread(NoSpawn, program.main, InitialCtx)>>
  /\ inParallel = FALSE
  /\ inTeamsRegion = FALSE
  /\ inSingleRegion = FALSE
  /\ masterRegions = {}
  /\ currentMasterStart = NoInst
  /\ unjoinedTasks = <<>>
  /\ flatThreads = <<>>
  /\ flattenWorklist = <<>>

Continue == UNCHANGED <<program, status, inParallel, flatThreads, flattenWorklist>>

\* The IR is passed over before the runtime model sees it, or because of it.
Pass ==
  /\ Continue
  /\ stack' = Step(stack)
  /\ threads' = Emit(<<>>)
  /\ UNCHANGED runtimeVars

SkipToTarget ==
  /\ HasIR /\ Skipping
  /\ stack' = Step(stack)
  /\ Continue
  /\ UNCHANGED <<threads, runtimeVars>>

SkipSerial == Reached /\ Serial /\ Pass

SkipInTeams == Reached /\ ~Serial /\ SkippedInTeams /\ Pass

SkipTask == Reached /\ ~SkippedInTeams /\ SkippedTask /\ Pass

SkipMasterRegion ==
  /\ Unskipped /\ SkippedMaster /\ ~MasterMismatch
  /\ Continue
  /\ stack' = Step(stack)
  /\ \E region \in masterRegions :
       /\ region[1] = IRNow.inst
       /\ threads' = [threads EXCEPT ![Tid].skipUntil = region[2]]
  /\ UNCHANGED runtimeVars

Abort ==
  /\ Unskipped /\ MasterMismatch
  /\ status' = "aborted"
  /\ UNCHANGED <<program, stack, threads, inParallel, runtimeVars, flatThreads, flattenWorklist>>

\* A read, write, join, lock, unlock or barrier becomes an event.
VisitEvent ==
  /\ Visited /\ Kind(IRNow) \notin {"Fork", "Call"}
  /\ Continue
  /\ stack' = Step(stack)
  /\ threads' = Emit(Append(TaskJoins, NewEvent(Kind(IRNow), IRNow)))
  /\ PreVisit(<<>>)

\* An indirect call, or one whose callee the pointer analysis does not know.
VisitUnresolvedCall ==
  /\ Visited /\ Kind(IRNow) = "Call"
  /\ IRNow.callee \notin program.extern \cup DOMAIN program.body
  /\ Pass

VisitExternCall ==
  /\ Visited /\ Kind(IRNow) = "Call" /\ IRNow.callee \in program.extern
  /\ Continue
  /\ stack' = Step(stack)
  /\ threads' = Emit(Append(TaskJoins, NewEvent("ExternCall", IRNow)))
  /\ PreVisit(<<>>)

\* Mutant: the early return of buildTrace also skips the leave event.
RecursiveCallEvents_NoLeave == <<NewEvent("EnterCall", IRNow)>>

RecursiveCallEvents == <<NewEvent("EnterCall", IRNow), NewEvent("LeaveCall", IRNow)>>

\* buildTrace of a function that is on the call stack returns at once.
VisitRecursiveCall ==
  /\ Visited /\ Kind(IRNow) = "Call" /\ IRNow.callee \in DOMAIN program.body
  /\ OnCallStack(IRNow.callee)
  /\ Continue
  /\ stack' = Step(stack)
  /\ threads' = Emit(RecursiveCallEvents)
  /\ UNCHANGED runtimeVars

VisitCall ==
  /\ Visited /\ Kind(IRNow) = "Call" /\ IRNow.callee \in DOMAIN program.body
  /\ ~OnCallStack(IRNow.callee)
  /\ LET ctx == ContextEvolve(Top.ctx, IRNow)
     IN /\ stack' = Append(stack, Frame(Tid, IRNow.callee, ctx))
        /\ threads' = [Emit(<<NewEvent("EnterCall", IRNow)>>) EXCEPT ![Tid].einfo = ctx]
  /\ Continue
  /\ UNCHANGED runtimeVars

\* Mutant: the event is pushed before the check for recursive spawns.
VisitRecursiveFork_EventPushed ==
  /\ Visited /\ Kind(IRNow) = "Fork" /\ IsRecursiveThreadSpawn(IRNow.entry)
  /\ Continue
  /\ stack' = Step(stack)
  /\ threads' = Emit(<<NewEvent("Fork", IRNow)>>)
  /\ PreVisit(<<>>)

\* preVisit has already entered the teams region of a fork that is refused.
VisitRecursiveFork ==
  /\ Visited /\ Kind(IRNow) = "Fork" /\ IsRecursiveThreadSpawn(IRNow.entry)
  /\ Continue
  /\ stack' = Step(stack)
  /\ threads' = Emit(<<>>)
  /\ PreVisit(<<>>)

ForkSite == <<Tid, Len(Thread.events) + 1>>

VisitFork ==
  /\ Visited /\ Kind(IRNow) = "Fork" /\ ~IsRecursiveThreadSpawn(IRNow.entry)
  /\ LET ctx == ContextEvolve(Thread.einfo, IRNow)
     IN /\ stack' = Append(stack, Frame(Len(threads) + 1, IRNow.entry, ctx))
        /\ threads' = Append(Emit(<<NewEvent("Fork", IRNow)>>),
                             NewThread(ForkSite, IRNow.entry, ctx))
        /\ PreVisit(IF IRNow.type = "OpenMPTaskFork" THEN <<ForkSite>> ELSE <<>>)
  /\ inParallel' = TRUE
  /\ UNCHANGED <<program, status, flatThreads, flattenWorklist>>

-----------------------------------------------------------------------------
(***************************************************************************)
(* The end of a function: back to the call, or to the fork of the parent.  *)
(***************************************************************************)
Ended == status = "building" /\ Top.pos > Len(program.body[Top.fn])

Caller == stack[Len(stack) - 1]

ReturnFromCall ==
  /\ Ended /\ Len(stack) > 1 /\ Caller.tid = Tid
  /\ stack' = Step(Front(stack))
  /\ threads' = [threads EXCEPT ![Tid].events = Append(@, NewEvent("LeaveCall", IRAt(Caller)))]
  /\ Continue
  /\ UNCHANGED runtimeVars

\* Mutant: the teams region is not left.
PostFork_Nothing == UNCHANGED inTeamsRegion

PostFork == inTeamsRegion' = (inTeamsRegion /\ IRAt(Caller).type # "OpenMPForkTeams")

ReturnFromThread ==
  /\ Ended /\ Len(stack) > 1 /\ Caller.tid # Tid
  /\ stack' = Step(Front(stack))
  /\ threads' = [threads EXCEPT ![Caller.tid].childThreads = Append(@, Tid)]
  /\ PostFork
  /\ Continue
  /\ UNCHANGED <<inSingleRegion, masterRegions, currentMasterStart, unjoinedTasks>>

ReturnFromMain ==
  /\ Ended /\ Len(stack) = 1
  /\ stack' = <<>>
  /\ status' = "flattening"
  /\ flattenWorklist' = <<1>>
  /\ UNCHANGED <<program, threads, inParallel, runtimeVars, flatThreads>>

(***************************************************************************)
(* ProgramTrace: the list of all threads, by a depth-first walk.           *)
(***************************************************************************)
\* Mutant: the children are pushed in their own order.
PushChildren_Forward(t) == threads[t].childThreads

PushChildren(t) == Reverse(threads[t].childThreads)

Flatten ==
  /\ status = "flattening" /\ flattenWorklist # <<>>
  /\ flatThreads' = Append(flatThreads, Last(flattenWorklist))
  /\ flattenWorklist' = Front(flattenWorklist) \o PushChildren(Last(flattenWorklist))
  /\ UNCHANGED <<program, status, stack, threads, inParallel, runtimeVars>>

Finish ==
  /\ status = "flattening" /\ flattenWorklist = <<>>
  /\ status' = "done"
  /\ UNCHANGED <<program, stack, threads, inParallel, runtimeVars, flatThreads, flattenWorklist>>

Finished == status \in {"done", "aborted"} /\ UNCHANGED vars

Next ==
  \/ SkipToTarget \/ SkipSerial \/ SkipInTeams \/ SkipTask \/ SkipMasterRegion
  \/ Abort
  \/ VisitEvent
  \/ VisitUnresolvedCall \/ VisitExternCall \/ VisitRecursiveCall \/ VisitCall
  \/ VisitRecursiveFork \/ VisitFork
  \/ ReturnFromCall \/ ReturnFromThread \/ ReturnFromMain
  \/ Flatten \/ Finish \/ Finished

Spec == Init /\ [][Next]_vars /\ WF_vars(Next)
-----------------------------------------------------------------------------
EventPIDs == UNION {{t} \X DOMAIN threads[t].events : t \in DOMAIN threads}

ForkEvents == {n \in EventPIDs : EventAt(n).type = "Fork"}

TaskForks == {n \in ForkEvents : EventAt(n).ir.type = "OpenMPTaskFork"}

(***************************************************************************)
(* Type correctness: activations run in built threads and stay inside      *)
(* their summaries, contexts stay bounded, and the runtime model only      *)
(* remembers task forks that are events.                                   *)
(***************************************************************************)
TypeOK ==
  /\ program \in Programs
  /\ status \in {"building", "flattening", "done", "aborted"}
  /\ \A i \in DOMAIN stack :
       /\ stack[i].tid \in DOMAIN threads
       /\ stack[i].fn \in DOMAIN program.body
       /\ stack[i].pos \in 1..(Len(program.body[stack[i].fn]) + 1)
  /\ \A t \in DOMAIN threads :
       /\ threads[t].spawnSite = NoSpawn \/ threads[t].spawnSite \in ForkEvents
       /\ ToSet(threads[t].childThreads) \subseteq DOMAIN threads
       /\ Len(threads[t].einfo.origins) <= OriginK
  /\ ToSet(unjoinedTasks) \subseteq TaskForks
  /\ ToSet(flatThreads) \cup ToSet(flattenWorklist) \subseteq DOMAIN threads

(***************************************************************************)
(* What HappensBeforeGraph and its callers rely on ("Some forkEvent in     *)
(* does not correspond to a thread", HappensBeforeGraph.cpp): forks and    *)
(* spawned threads correspond one to one, with the fork's entry, a thread  *)
(* is listed by its parent, and a join that names a fork names a task's.   *)
(***************************************************************************)
TraceWellFormed ==
  status = "done" =>
    /\ \A n \in ForkEvents : \E t \in DOMAIN threads :
         threads[t].spawnSite = n /\ threads[t].entry = EventAt(n).ir.entry
    /\ \A t \in DOMAIN threads : threads[t].spawnSite # NoSpawn =>
         /\ threads[t].spawnSite \in ForkEvents
         /\ t \in ToSet(threads[threads[t].spawnSite[1]].childThreads)
    /\ \A t, u \in DOMAIN threads : t # u => threads[t].spawnSite # threads[u].spawnSite
    /\ \A n \in EventPIDs : EventAt(n).fork # NoFork =>
         EventAt(n).type = "Join" /\ EventAt(n).fork \in TaskForks

(***************************************************************************)
(* The flat list of ProgramTrace is in ThreadID order: the analyses that   *)
(* take "the first fork in the program" (getForkWithHandle) and those that *)
(* order events by thread ID agree.                                        *)
(***************************************************************************)
FlattenedInThreadOrder ==
  status = "done" => flatThreads = [i \in 1..Len(threads) |-> i]

(***************************************************************************)
(* In a finished thread the enter and leave events of calls nest, so that  *)
(* the call stack of an event can be rebuilt from the events before it     *)
(* (Reporter.cpp, computeCallstack) - also around the calls that were cut  *)
(* off to prevent recursion.                                               *)
(***************************************************************************)
CallStackStep(calls, e) ==
  CASE e.type = "EnterCall" -> Append(calls, e.ir.inst)
    [] e.type = "LeaveCall" ->
         IF calls # <<>> /\ Last(calls) = e.ir.inst
         THEN Front(calls) ELSE Append(calls, NoInst)
    [] OTHER -> calls

CallStackAfter(events) ==
  LET after[i \in 0..Len(events)] ==
        IF i = 0 THEN <<>> ELSE CallStackStep(after[i - 1], events[i])
  IN after[Len(events)]

CallsBalanced ==
  status = "done" =>
    \A t \in DOMAIN threads : CallStackAfter(threads[t].events) = <<>>

(***************************************************************************)
(* The two threads that stand for a parallel region run the same code: out *)
(* of the master regions, their accesses, locks and barriers are the same. *)
(* The race detection between "twins" and the pairing of their barriers    *)
(* rest on it (HappensBeforeGraph.cpp, OpenMPAnalysis.cpp).                *)
(***************************************************************************)
Twins(t, u) ==
  LET m == threads[t].spawnSite
      n == threads[u].spawnSite
  IN /\ m # NoSpawn /\ n # NoSpawn
     /\ n = <<m[1], m[2] + 1>>
     /\ {EventAt(m).ir.type, EventAt(n).ir.type} = {"OpenMPFork"}
     /\ EventAt(m).ir.master /\ ~EventAt(n).ir.master

InMaster(events, i) ==
  \E j \in 1..(i - 1) :
    /\ events[j].ir.type = "OpenMPMasterStart"
    /\ \A k \in (j + 1)..i : events[k].ir.type # "OpenMPMasterEnd"

TeamCode(t) ==
  LET events == threads[t].events
      code == {i \in DOMAIN events :
                 /\ events[i].type \in {"Read", "Write", "Lock", "Unlock", "Barrier"}
                 /\ ~InMaster(events, i)}
  IN [k \in 1..Cardinality(code) |->
        events[CHOOSE i \in code : Cardinality({j \in code : j <= i}) = k].ir]

TwinsAgree ==
  status = "done" =>
    \A t, u \in DOMAIN threads : Twins(t, u) => TeamCode(t) = TeamCode(u)

(***************************************************************************)
(* A task is joined at most once, and exactly once if it was spawned       *)
(* inside a parallel region: the list of unjoined tasks is shared by all   *)
(* threads and emptied by whichever thread first meets a barrier, a        *)
(* taskwait or the end of a region.                                        *)
(***************************************************************************)
JoinsOf(n) == {j \in EventPIDs : EventAt(j).type = "Join" /\ EventAt(j).fork = n}

Lineage[t \in DOMAIN threads] ==
  IF threads[t].spawnSite = NoSpawn THEN {t}
  ELSE {t} \cup Lineage[threads[t].spawnSite[1]]

InParallelRegion(t) ==
  \E u \in Lineage[t] :
    threads[u].spawnSite # NoSpawn /\ EventAt(threads[u].spawnSite).ir.type = "OpenMPFork"

TasksJoinedOnce ==
  status = "done" =>
    \A n \in TaskForks :
      /\ Cardinality(JoinsOf(n)) <= 1
      /\ InParallelRegion(n[1]) => Cardinality(JoinsOf(n)) = 1

(***************************************************************************)
(* The runtime model, shared by all threads, is back in its initial state  *)
(* when the trace is done: no region was left open for the code that       *)
(* follows, in this thread or in another.                                  *)
(***************************************************************************)
RuntimeStateReset ==
  status = "done" =>
    /\ ~inTeamsRegion /\ ~inSingleRegion /\ currentMasterStart = NoInst
    /\ \A t \in DOMAIN threads : threads[t].skipUntil = NoInst

(***************************************************************************)
(* Every event of a thread names, as its origins, the last spawn sites     *)
(* above the thread, although the event info is shared by the activations  *)
(* of a thread and never restored after a call or a fork: the origin half  *)
(* of the context that the points-to sets and the thread entry are looked  *)
(* up with is right (EventImpl.h, EventImpl.cpp).                          *)
(***************************************************************************)
SpawnPath[t \in DOMAIN threads] ==
  IF threads[t].spawnSite = NoSpawn THEN <<>>
  ELSE Append(SpawnPath[threads[t].spawnSite[1]], EventAt(threads[t].spawnSite).ir.inst)

OriginsNameThread ==
  status = "done" =>
    \A n \in EventPIDs : EventAt(n).ctx.origins = LastK(SpawnPath[n[1]])

(***************************************************************************)
(* The trace of every program is finite: recursive calls and recursive     *)
(* spawns are cut off, and the construction ends (or gives up).            *)
(***************************************************************************)
Termination == <>(status \in {"done", "aborted"})

(***************************************************************************)
(* What the comments say of recursive spawns: "Allow the same entry twice  *)
(* in one thread stack", "Only allow n recursive thread entries" (n is 2). *)
(* A spawn is refused only where its entry already runs twice among the    *)
(* threads above.  The code counts the new thread as one of the two, and   *)
(* the entry is never allowed a second time.                               *)
(***************************************************************************)
EntryTwiceAllowed ==
  [][VisitRecursiveFork =>
       Cardinality({t \in {stack[i].tid : i \in DOMAIN stack} :
                      threads[t].entry = IRNow.entry}) >= 2]_vars

(***************************************************************************)
(* What EventImpl.h says of the EventInfo that events share: "Many events  *)
(* share the same thread/context".  An event is given the context of the   *)
(* activation that makes it.  The code makes a new EventInfo where a       *)
(* function is entered and does not go back to the caller's where it is    *)
(* left, so the events after a call carry the context of the callee.       *)
(***************************************************************************)
ContextOfActivation ==
  [][VisitEvent => Last(threads'[Tid].events).ctx = Top.ctx]_vars
=============================================================================
