-------------------------- MODULE BitcodeExecution --------------------------
(***************************************************************************)
(* The program that was compiled, as it runs on the machine and the OpenMP *)
(* runtime (neither is part of the repository): the processes are main and *)
(* the members of the team that a region is run by.                        *)
(***************************************************************************)
EXTENDS Bitcode, TLC

CONSTANT TeamSize     \* bound: members of a team

VARIABLES frames,     \* of each process, its calls: [fn, block, pos, env, args, calls, result, own]
  memory,             \* what was stored: [<<root, offset>> -> value]
  lastMember,         \* the member that runs the last iteration
  method,             \* how reductions are made in this region
  reducer             \* who holds the lock of the reduction, or 0

execVars == <<frames, memory, lastMember, method, reducer>>

Team == 1..TeamSize
Processes == 0..TeamSize      \* 0 is main; member k has thread number k - 1

Running(p) == frames[p] # <<>>
Top(p) == frames[p][1]

\* A pointer is <<"p", root, offset>>.
At(ptr) == <<ptr[2], ptr[3]>>
Undefined == <<"undef">>

Moved(ptr, gep, numbers) == <<"p", ptr[2], ptr[3] + ByteOffset(gep.ty, numbers)>>

\* A member of a team has thread-local variables of its own; main has the globals.
OwnGlobals(mod, p) ==
  [g \in {g \in DOMAIN mod.globals : p # 0 /\ mod.globals[g].threadLocal} |-> <<"own", p, g>>]

RECURSIVE Eval(_, _)
Eval(frame, v) ==
  CASE v[1] = "v" -> frame.env[v[2]]
    [] v[1] = "a" -> frame.args[v[2]]
    [] v[1] = "g" -> <<"p", IF v[2] \in DOMAIN frame.own THEN frame.own[v[2]] ELSE v, 0>>
    [] v[1] = "ce" -> IF v[2].op = "bitcast" THEN Eval(frame, v[2].args[1])
                      ELSE Moved(Eval(frame, v[2].args[1]), v[2],
                                 [k \in 1..(Len(v[2].args) - 1) |-> v[2].args[k + 1][2]])
    [] OTHER -> v

Load(at) == IF at \in DOMAIN memory THEN memory[at] ELSE Undefined

Stored(mem, at, v) == (at :> v) @@ mem

Copied(mem, to, from, len) ==
  LET moved == {at \in DOMAIN mem : at[1] = from[1] /\ at[2] \in from[2]..(from[2] + len - 1)}
      target(at) == <<to[1], to[2] + at[2] - from[2]>>
  IN [at \in {target(a) : a \in moved} |-> mem[CHOOSE a \in moved : target(a) = at]] @@ mem

InitialMemory(mod) ==
  LET scalars(g) == IF mod.globals[g].initializer = None THEN {}
                    ELSE Scalars(mod.globals[g].ty, mod.globals[g].initializer, 0)
      roots(g) == {Glob(g)} \cup {OwnGlobals(mod, p)[g] : p \in {p \in Team : g \in DOMAIN OwnGlobals(mod, p)}}
      cells == UNION {{[at |-> <<r, s[1]>>, value |-> s[3]] : r \in roots(g), s \in scalars(g)} : g \in DOMAIN mod.globals}
  IN [at \in {c.at : c \in cells} |-> Eval([own |-> <<>>], (CHOOSE c \in cells : c.at = at).value)]

\* calls are the calls it was reached by, result is the call that is waiting.
Enter(mod, p, f, args, calls, result) ==
  [fn |-> f, block |-> mod.fns[f].blocks[1], pos |-> 1, env |-> <<>>, args |-> args,
   calls |-> calls, result |-> result, own |-> OwnGlobals(mod, p)]

ExecInit(mod) ==
  /\ frames = [p \in Processes |-> IF p = 0 THEN <<Enter(mod, p, "main", <<>>, <<>>, None)>> ELSE <<>>]
  /\ memory = InitialMemory(mod)
  /\ lastMember = 1 /\ method = "critical" /\ reducer = 0

-----------------------------------------------------------------------------
NextInst(mod, p) == mod.fns[Top(p).fn].code[Top(p).block][Top(p).pos]

Value(p, i, k) == Eval(Top(p), i.args[k])

\* What a process does next to its own call: the result of the instruction.
Advance(p, i, result) ==
  frames' = [frames EXCEPT ![p][1] =
    [@ EXCEPT !.env = IF result = None THEN @ ELSE (i.id :> result) @@ @,
              !.block = IF i.op = "invoke" THEN i.succ[1] ELSE @,
              !.pos = IF i.op = "invoke" THEN 1 ELSE @ + 1]]

\* What an instruction allocates in a call.
Fresh(kind, p, i) == <<"p", <<kind, p, Top(p).calls, i.id>>, 0>>

Compute(p, i) ==
  /\ i.op \in {"alloca", "gep", "bitcast", "select", "eq", "add", "load"}
  /\ Advance(p, i,
       CASE i.op = "alloca" -> Fresh("stack", p, i)
         [] i.op = "gep" -> Moved(Value(p, i, 1), i, [k \in 1..(Len(i.args) - 1) |-> Value(p, i, k + 1)[2]])
         [] i.op = "select" -> IF Value(p, i, 1) # Const(0) THEN Value(p, i, 2) ELSE Value(p, i, 3)
         [] i.op = "bitcast" -> Value(p, i, 1)
         [] i.op = "eq" -> Const(IF Value(p, i, 1) = Value(p, i, 2) THEN 1 ELSE 0)
         [] i.op = "add" -> Const(Value(p, i, 1)[2] + Value(p, i, 2)[2])
         [] i.op = "load" -> Load(At(Value(p, i, 1))))
  /\ UNCHANGED <<memory, lastMember, method, reducer>>

Write(p, i) ==
  /\ i.op \in {"store", "atomicrmw"}
  /\ memory' = Stored(memory, At(Value(p, i, 2)), Value(p, i, 1))
  /\ Advance(p, i, None)
  /\ UNCHANGED <<lastMember, method, reducer>>

Jump(p, i) ==
  /\ i.op \in {"br", "cond", "switch"}
  /\ LET target == CASE i.op = "br" -> 1
                     [] i.op = "cond" -> IF Value(p, i, 1) # Const(0) THEN 1 ELSE 2
                     [] i.op = "switch" -> Value(p, i, 1)[2] + 1    \* the default is first
     IN frames' = [frames EXCEPT ![p][1] = [@ EXCEPT !.block = i.succ[target], !.pos = 1]]
  /\ UNCHANGED <<memory, lastMember, method, reducer>>

\* The caller gets what is returned, if it is given a value.
Return(p, i) ==
  /\ i.op = "ret"
  /\ LET rest == Tail(frames[p])
     IN frames' = [frames EXCEPT ![p] =
          IF i.args = <<>> THEN rest
          ELSE <<[rest[1] EXCEPT !.env = (Top(p).result :> Value(p, i, 1)) @@ @]>> \o Tail(rest)]
  /\ UNCHANGED <<memory, lastMember, method, reducer>>

Called(p, i) == IF i.callee = Indirect THEN Value(p, i, 1)[2] ELSE i.callee

CallFunction(mod, p, i) ==
  /\ IsCall(i)
  /\ Called(p, i) \in DOMAIN mod.fns
  /\ LET passed == [k \in DOMAIN i.args |-> Value(p, i, k)]
         args == IF i.callee = Indirect THEN Tail(passed) ELSE passed
         after == [Top(p) EXCEPT !.block = IF i.op = "invoke" THEN i.succ[1] ELSE @,
                                 !.pos = IF i.op = "invoke" THEN 1 ELSE @ + 1]
     IN frames' = [frames EXCEPT ![p] =
          <<Enter(mod, p, Called(p, i), args, Append(Top(p).calls, i.id), i.id), after>> \o Tail(@)]
  /\ UNCHANGED <<memory, lastMember, method, reducer>>

\* A region: main waits for the team.
Fork(mod, p, i) ==
  /\ IsFork(i)
  /\ \A m \in Team : ~Running(m)
  /\ LET args(m) == <<Const(m), Const(m)>> \o [k \in 1..(Len(i.args) - 2) |-> Value(p, i, k + 2)]
     IN frames' = [q \in Processes |->
          IF q = p THEN <<[Top(p) EXCEPT !.pos = @ + 1]>> \o Tail(frames[p])
          ELSE <<Enter(mod, q, i.args[2][2], args(q), Append(Top(p).calls, i.id), None)>>]
  /\ lastMember' \in Team
  /\ method' \in {"critical", "atomic", "tree"}
  /\ reducer' = 0
  /\ UNCHANGED memory

\* A reduction: one member after the other (1), each with atomic operations (2),
\* or the first one for all (the others get 0).
Reduce(p, i) ==
  /\ IsCall(i) /\ i.callee \in {"reduce", "reduce_nowait"}
  /\ method = "critical" => reducer = 0
  /\ reducer' = IF method = "critical" THEN p ELSE reducer
  /\ Advance(p, i, Const(CASE method = "critical" -> 1
                           [] method = "atomic" -> 2
                           [] method = "tree" -> IF p = 1 THEN 1 ELSE 0))
  /\ UNCHANGED <<memory, lastMember, method>>

Runtime(mod, p, i) ==
  /\ IsCall(i) /\ i.callee \notin DOMAIN mod.fns \cup {Indirect, "reduce", "reduce_nowait"} \cup Callbacks
  /\ memory' =
       CASE i.callee = "for_static_init" ->
              Stored(memory, At(Value(p, i, 1)), Const(IF p = lastMember THEN 1 ELSE 0))
         [] i.callee = "memcpy" -> Copied(memory, At(Value(p, i, 1)), At(Value(p, i, 2)), i.args[3][2])
         [] OTHER -> memory
  /\ reducer' = IF i.callee \in {"end_reduce", "end_reduce_nowait"} /\ reducer = p THEN 0 ELSE reducer
  /\ Advance(p, i, CASE i.callee = "omp_get_thread_num" -> Const(p - 1)
                     [] i.callee \in {"malloc", "calloc", "_Znwm"} -> Fresh("heap", p, i)
                     [] OTHER -> None)
  /\ UNCHANGED <<lastMember, method>>

Execute(mod, p) ==
  /\ Running(p)
  /\ p = 0 => \A m \in Team : ~Running(m)
  /\ LET i == NextInst(mod, p)
     IN \/ Compute(p, i)
        \/ Write(p, i)
        \/ Jump(p, i)
        \/ Return(p, i)
        \/ CallFunction(mod, p, i)
        \/ Fork(mod, p, i)
        \/ Reduce(p, i)
        \/ Runtime(mod, p, i)
=============================================================================
