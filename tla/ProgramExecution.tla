-------------------------- MODULE ProgramExecution --------------------------
(***************************************************************************)
(* What the analysed programs do when they run: the meaning of the pthread *)
(* and OpenMP calls that the IR stands for (pthreads and the OpenMP        *)
(* runtime are not part of the repository).  The summaries of the          *)
(* functions are the code, so this is the semantics the trace abstracts;   *)
(* a team has two members, as in the trace.                                *)
(*                                                                         *)
(* A process is a thread, a member of a team or a task.  Tasks run at any  *)
(* time after their creation, as processes of their own.                   *)
(***************************************************************************)
EXTENDS Integers, FiniteSetsExt, SequencesExt

VARIABLES
  program,   \* the program
  procs,     \* the processes, in the order of their creation
  handles,   \* <<pthread handle, process>>
  owners,    \* <<lock, process, n>>: the process has taken the lock for the n-th time
  taken      \* <<team, kind, item>>: a member has taken the team's n-th single
             \* region, a section or lastprivate block, or the iteration of a loop

execVars == <<procs, handles, owners, taken>>

\* The lock of the code that combines the results of a reduction.
Reduction == "reduction"

Acquired(lock, p) == Cardinality({o \in owners : o[1] = lock /\ o[2] = p})

BlockOf(ir) == IF "block" \in DOMAIN ir THEN ir.block ELSE "entry"

OnceBlocks == program.cases \cup program.lastprivate

\* Leaves the functions that have nothing left to run.
Resume(stack) ==
  SubSeq(stack, 1, Max({0} \cup {i \in DOMAIN stack :
                                   stack[i].pos <= Len(program.body[stack[i].fn])}))

\* The calls and forks that lead to where a process is.
CallChain(p) ==
  procs[p].chain \o [i \in 1..(Len(procs[p].stack) - 1) |->
    LET frame == procs[p].stack[i] IN program.body[frame.fn][frame.pos - 1].inst]

Process(kind, fn, parent, site, team, num, phase) ==
  [kind |-> kind, parent |-> parent, site |-> site, team |-> team, num |-> num,
   chain |-> IF parent = 0 THEN <<>> ELSE Append(CallChain(parent), site),
   stack |-> Resume(<<[fn |-> fn, pos |-> 1]>>),
   barriers |-> phase,   \* barriers arrived at; of a task: before its creation
   waiting |-> FALSE,    \* at a barrier
   iter |-> 0,           \* of the loop whose iterations the team shares
   regions |-> 0]        \* single regions met

Running == {p \in DOMAIN procs : procs[p].stack # <<>>}

Here(p) == Last(procs[p].stack)
Current(p) == program.body[Here(p).fn][Here(p).pos]

GoTo(p, pos) ==
  [procs[p] EXCEPT !.stack = Resume(Append(Front(@), [Here(p) EXCEPT !.pos = pos]))]

Advance(p) == GoTo(p, Here(p).pos + 1)

\* The process is about to enter a block that one member of its team runs; the
\* first instruction of such a block is a call without effect here.
StartsOnce(p) ==
  LET body == program.body[Here(p).fn]
  IN /\ BlockOf(Current(p)) \in OnceBlocks
     /\ Here(p).pos > 1 => BlockOf(body[Here(p).pos - 1]) # BlockOf(Current(p))

BlockEnd(p) ==
  LET body == program.body[Here(p).fn]
  IN Min({Len(body) + 1} \cup {i \in DOMAIN body :
                                 i > Here(p).pos /\ BlockOf(body[i]) # BlockOf(Current(p))})

\* Where the region opened by the current call is closed.
EndOf(p, type) ==
  Min({i \in DOMAIN program.body[Here(p).fn] :
         i > Here(p).pos /\ program.body[Here(p).fn][i].type = type})

Team(t) == {p \in DOMAIN procs : procs[p].team = t}
Members(t) == {p \in Team(t) : procs[p].kind # "task"}
Done(S) == S \cap Running = {}

\* The children of p that were forked by the fork a join waits for.
Forked(p, inst) == {c \in DOMAIN procs : procs[c].parent = p /\ procs[c].site = inst}

ExecInit ==
  /\ procs = <<Process("thread", program.main, 0, "main", 1, 0, 0)>>
  /\ handles = {}
  /\ owners = {}
  /\ taken = {}

-----------------------------------------------------------------------------
Only(p, new) == procs' = [procs EXCEPT ![p] = new]

\* A load or store, and the calls without effect on other processes.
Plain(p) ==
  /\ \/ Current(p).type \in {"OpenMPMasterEnd", "OpenMPSingleEnd", "OpenMPGetThreadNumGuardEnd"}
     \/ Current(p).type = "OpenMPMasterStart" /\ procs[p].num = 0
     \/ Current(p).type = "OpenMPGetThreadNumGuardStart" /\ procs[p].num = Current(p).tid
     \/ Current(p).type = "Call" /\ Current(p).callee \notin DOMAIN program.body /\ ~StartsOnce(p)
  /\ Only(p, Advance(p))
  /\ UNCHANGED <<handles, owners, taken>>

\* The lock of a reduction is released at the end of its block.
Access(p) ==
  /\ Current(p).type \in {"Load", "Store"}
  /\ Only(p, Advance(p))
  /\ owners' = IF BlockEnd(p) = Here(p).pos + 1 THEN owners \ {<<Reduction, p, 1>>} ELSE owners
  /\ UNCHANGED <<handles, taken>>

Enter(p) ==
  /\ Current(p).type = "Call" /\ Current(p).callee \in DOMAIN program.body
  /\ LET back == [procs[p].stack EXCEPT ![Len(procs[p].stack)].pos = @ + 1]
     IN Only(p, [procs[p] EXCEPT !.stack =
          Resume(Append(back, [fn |-> Current(p).callee, pos |-> 1]))])
  /\ UNCHANGED <<handles, owners, taken>>

Spawn(p, child) ==
  procs' = Append([procs EXCEPT ![p] = Advance(p)], child)

CreateThread(p) ==
  /\ Current(p).type = "PthreadCreate"
  /\ LET new == Len(procs) + 1
     IN /\ Spawn(p, Process("thread", Current(p).entry, p, Current(p).inst, new, 0, 0))
        /\ handles' = {h \in handles : h[1] # Current(p).handle}
                        \cup {<<Current(p).handle, new>>}
  /\ UNCHANGED <<owners, taken>>

JoinThread(p) ==
  /\ Current(p).type = "PthreadJoin"
  /\ \A h \in handles : h[1] = Current(p).handle => Done({h[2]})
  /\ Only(p, Advance(p))
  /\ UNCHANGED <<handles, owners, taken>>

\* The two forks of a parallel region are the two members of one team; each
\* fork of a teams region is a team of its own.
ForkMember(p) ==
  /\ Current(p).type \in {"OpenMPFork", "OpenMPForkTeams"}
  /\ LET ir == Current(p)
         first == ir.type = "OpenMPForkTeams" \/ ir.master
         new == Len(procs) + 1
         team == IF first THEN new
                 ELSE Max({c \in DOMAIN procs : procs[c].parent = p /\ procs[c].num = 0
                                                /\ procs[c].kind = "member"})
     IN Spawn(p, Process("member", ir.entry, p, ir.inst, team, IF first THEN 0 ELSE 1, 0))
  /\ UNCHANGED <<handles, owners, taken>>

\* The end of a region is a barrier: members and tasks of the team are done.
JoinTeam(p) ==
  /\ Current(p).type \in {"OpenMPJoin", "OpenMPJoinTeams"}
  /\ \A c \in Forked(p, Current(p).inst) : Done(Team(procs[c].team))
  /\ Only(p, Advance(p))
  /\ UNCHANGED <<handles, owners, taken>>

CreateTask(p) ==
  /\ Current(p).type = "OpenMPTaskFork"
  /\ Spawn(p, Process("task", Current(p).entry, p, Current(p).inst,
                      procs[p].team, procs[p].num, procs[p].barriers))
  /\ UNCHANGED <<handles, owners, taken>>

WaitForTasks(p) ==
  /\ Current(p).type = "OpenMPTaskWait"
  /\ Done({c \in DOMAIN procs : procs[c].parent = p /\ procs[c].kind = "task"})
  /\ Only(p, Advance(p))
  /\ UNCHANGED <<handles, owners, taken>>

Arrive(p) ==
  /\ Current(p).type = "OpenMPBarrier" /\ ~procs[p].waiting
  /\ Only(p, [procs[p] EXCEPT !.waiting = TRUE, !.barriers = @ + 1])
  /\ UNCHANGED <<handles, owners, taken>>

\* All members have been forked and have arrived, and the tasks created before
\* are done.
Leave(p) ==
  /\ Current(p).type = "OpenMPBarrier" /\ procs[p].waiting
  /\ Current(procs[p].parent).type = "OpenMPJoin"
  /\ \A q \in Members(procs[p].team) : procs[q].barriers >= procs[p].barriers
  /\ Done({q \in Team(procs[p].team) :
             procs[q].kind = "task" /\ procs[q].barriers < procs[p].barriers})
  /\ Only(p, [Advance(p) EXCEPT !.waiting = FALSE])
  /\ UNCHANGED <<handles, owners, taken>>

PassMaster(p) ==
  /\ \/ /\ Current(p).type = "OpenMPMasterStart" /\ procs[p].num # 0
        /\ Only(p, GoTo(p, EndOf(p, "OpenMPMasterEnd") + 1))
     \/ /\ Current(p).type = "OpenMPGetThreadNumGuardStart" /\ procs[p].num # Current(p).tid
        /\ Only(p, GoTo(p, EndOf(p, "OpenMPGetThreadNumGuardEnd") + 1))
  /\ UNCHANGED <<handles, owners, taken>>

MeetSingle(p) ==
  /\ Current(p).type = "OpenMPSingleStart"
  /\ LET n == <<procs[p].team, "single", procs[p].regions + 1>>
     IN /\ Only(p, [IF n \in taken THEN GoTo(p, EndOf(p, "OpenMPSingleEnd") + 1)
                                     ELSE Advance(p) EXCEPT !.regions = @ + 1])
        /\ taken' = taken \cup {n}
  /\ UNCHANGED <<handles, owners>>

MeetOnceBlock(p) ==
  /\ Current(p).type = "Call" /\ StartsOnce(p)
  /\ LET block == <<procs[p].team, "block", BlockOf(Current(p))>>
     IN /\ Only(p, IF block \in taken THEN GoTo(p, BlockEnd(p)) ELSE Advance(p))
        /\ taken' = taken \cup {block}
  /\ UNCHANGED <<handles, owners>>

\* The members of a team take the iterations of a loop one by one: any two
\* iterations may run at the same time in two members.
TakeIteration(p) ==
  /\ Current(p).type = "OpenMPForInit"
  /\ LET done == {t[3] : t \in {u \in taken : u[1] = procs[p].team /\ u[2] = Current(p).inst}}
         next == Cardinality(done)
     IN IF next > program.loops[Current(p).loop].last
        THEN Only(p, GoTo(p, EndOf(p, "OpenMPForFini") + 1)) /\ UNCHANGED taken
        ELSE /\ Only(p, [Advance(p) EXCEPT !.iter = next])
             /\ taken' = taken \cup {<<procs[p].team, Current(p).inst, next>>}
  /\ UNCHANGED <<handles, owners>>

EndIteration(p) ==
  /\ Current(p).type = "OpenMPForFini"
  /\ Only(p, GoTo(p, CHOOSE i \in 1..Here(p).pos :
                       /\ program.body[Here(p).fn][i].type = "OpenMPForInit"
                       /\ program.body[Here(p).fn][i].loop = Current(p).loop))
  /\ UNCHANGED <<handles, owners, taken>>

Reduce(p) ==
  /\ Current(p).type = "OpenMPReduce"
  /\ \A o \in owners : o[1] # Reduction
  /\ owners' = owners \cup {<<Reduction, p, 1>>}
  /\ Only(p, Advance(p))
  /\ UNCHANGED <<handles, taken>>

\* The owner of a nest lock may take it again; it is free when it has been released
\* as often as it was taken.
TakeLock(p) ==
  /\ Current(p).type \in {"PthreadMutexLock", "OpenMPCriticalStart", "OpenMPSetLock"}
  /\ \A o \in owners : o[1] = Current(p).lock => o[2] = p /\ "nest" \in DOMAIN Current(p)
  /\ owners' = owners \cup {<<Current(p).lock, p, Acquired(Current(p).lock, p) + 1>>}
  /\ Only(p, Advance(p))
  /\ UNCHANGED <<handles, taken>>

ReleaseLock(p) ==
  /\ Current(p).type \in {"PthreadMutexUnlock", "OpenMPCriticalEnd", "OpenMPUnsetLock"}
  /\ owners' = owners \ {<<Current(p).lock, p, Acquired(Current(p).lock, p)>>}
  /\ Only(p, Advance(p))
  /\ UNCHANGED <<handles, taken>>

Run(p) ==
  \/ Plain(p) \/ Access(p) \/ Enter(p)
  \/ CreateThread(p) \/ JoinThread(p)
  \/ ForkMember(p) \/ JoinTeam(p)
  \/ CreateTask(p) \/ WaitForTasks(p)
  \/ Arrive(p) \/ Leave(p) \/ PassMaster(p) \/ MeetSingle(p)
  \/ MeetOnceBlock(p) \/ TakeIteration(p) \/ EndIteration(p) \/ Reduce(p)
  \/ TakeLock(p) \/ ReleaseLock(p)

-----------------------------------------------------------------------------
(***************************************************************************)
(* Two processes are about to access the same variable, and one writes.  A *)
(* pointer points to one of several variables; each thread has its own     *)
(* instance of a thread-local variable.  The elements of an array are      *)
(* variables of their own: a process inside an inner loop may be in any    *)
(* iteration of it.                                                        *)
(***************************************************************************)
AtAccess(p) == Current(p).type \in {"Load", "Store"}

Targets(var) == IF var \in DOMAIN program.points THEN program.points[var] ELSE {var}

IsElement(p) == "index" \in DOMAIN Current(p)

Elements(p) ==
  LET index == program.index[Current(p).index]
      scev == index.scev
  IN {program.rests[scev.rest][procs[p].iter] + scev.const + scev.step * procs[p].iter
        + scev.inner * j : j \in 0..index.trips}

MayMeet(p, q) ==
  /\ (Targets(Current(p).var) \cap Targets(Current(q).var)) \ program.tls # {}
  /\ IsElement(p) /\ IsElement(q) => Elements(p) \cap Elements(q) # {}

DataRaces ==
  UNION {{{Current(p).inst, Current(q).inst} :
            q \in {q \in Running \ {p} : AtAccess(q) /\ MayMeet(p, q)}} :
         p \in {p \in Running : Current(p).type = "Store"}}
=============================================================================
