------------------------------ MODULE Reporter ------------------------------
(***************************************************************************)
(* The races that are reported (Reporter/Reporter.cpp).  A race is a pair  *)
(* of accesses; the instruction of an access determines its location, so a *)
(* race is a pair of instructions here.  The constructor of Race exchanges *)
(* its parameters and not its members: the order of the pair is kept.      *)
(***************************************************************************)
EXTENDS Naturals, SequencesExt

CONSTANT NoSpawn

VARIABLES program, threads

EventOf(n) == threads[n[1]].events[n[2]]

MissingLocation(n) == EventOf(n).ir.inst \in program.unlocated

\* Mutant: the access of the earlier thread comes first.
RaceOf_EarlierFirst(pair) ==
  IF pair[1][1] < pair[2][1]
  THEN <<EventOf(pair[1]).ir.inst, EventOf(pair[2]).ir.inst>>
  ELSE <<EventOf(pair[2]).ir.inst, EventOf(pair[1]).ir.inst>>

RaceOf(pair) == <<EventOf(pair[1]).ir.inst, EventOf(pair[2]).ir.inst>>

Report(racepairs) ==
  {RaceOf(p) : p \in {q \in racepairs : ~MissingLocation(q[1]) /\ ~MissingLocation(q[2])}}

(***************************************************************************)
(* updateMisleadingDebugLoc reads the line of a location that may not      *)
(* exist: what it reads is any number, and for 0 it goes on to dereference *)
(* the missing debug location.                                             *)
(***************************************************************************)
MayCrash(racepairs) == \E p \in racepairs : MissingLocation(p[1]) \/ MissingLocation(p[2])

(***************************************************************************)
(* The call stack shown for an event: that of the fork of its thread, and  *)
(* the calls entered and not left in the thread up to the event.           *)
(***************************************************************************)
\* Mutant: the calls that were left stay on the stack.
AfterCall_NeverLeft(calls, e) ==
  IF e.type = "EnterCall" THEN Append(calls, e.ir.inst) ELSE calls

AfterCall(calls, e) ==
  CASE e.type = "EnterCall" -> Append(calls, e.ir.inst)
    [] e.type = "LeaveCall" -> Front(calls)
    [] OTHER -> calls

AfterEvents(calls, n) ==
  FoldLeft(AfterCall, calls, SubSeq(threads[n[1]].events, 1, n[2]))

CallstackOfFork[t \in Nat] ==
  LET site == threads[t].spawnSite
  IN IF site = NoSpawn THEN <<>>
     ELSE Append(AfterEvents(CallstackOfFork[site[1]], site), EventOf(site).ir.inst)

ComputeCallstack(n) == AfterEvents(CallstackOfFork[n[1]], n)
=============================================================================
