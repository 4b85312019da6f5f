--------------------------- MODULE OpenMPAnalysis ---------------------------
(***************************************************************************)
(* The filters of the race detection that know OpenMP                      *)
(* (Analysis/OpenMPAnalysis.cpp).  They read the trace: two events are of  *)
(* one parallel region when their threads were forked side by side, and    *)
(* the n-th region of one thread is the n-th region of the other.          *)
(*                                                                         *)
(* Blocks: an IR that is not in the entry block of its function names its  *)
(* basic block; the program names the blocks of its sections, reductions   *)
(* and lastprivate copies (see GuardedBlocks for how the code finds the    *)
(* blocks that a branch guards).                                           *)
(***************************************************************************)
EXTENDS Naturals, FiniteSetsExt, SequencesExt

CONSTANT NoSpawn

VARIABLES program, threads

LOCAL EventOf(n) == threads[n[1]].events[n[2]]

BlockOf(ir) == IF "block" \in DOMAIN ir THEN ir.block ELSE "entry"

-----------------------------------------------------------------------------
\* The innermost OpenMPFork above a thread, for threads spawned as tasks.
ForkAbove[t \in Nat] ==
  LET site == threads[t].spawnSite
  IN IF site = NoSpawn \/ EventOf(site).ir.type = "OpenMPFork" THEN site
     ELSE ForkAbove[site[1]]

RootSpawnSite(t) ==
  LET site == threads[t].spawnSite
  IN IF site # NoSpawn /\ EventOf(site).ir.type = "OpenMPTaskFork"
     THEN ForkAbove[t] ELSE site

\* Mutant: the forks need not be events of one thread.
FromSameParallelRegion_AnyThread(m, n) ==
  LET a == RootSpawnSite(m[1])
      b == RootSpawnSite(n[1])
  IN a # NoSpawn /\ b # NoSpawn /\ (a[2] = b[2] + 1 \/ b[2] = a[2] + 1)

FromSameParallelRegion(m, n) ==
  LET a == RootSpawnSite(m[1])
      b == RootSpawnSite(n[1])
  IN /\ a # NoSpawn /\ b # NoSpawn /\ a[1] = b[1]
     /\ a[2] = b[2] + 1 \/ b[2] = a[2] + 1

(***************************************************************************)
(* The regions <<start, end>> of a thread: starts and ends alternate, as   *)
(* the assertions of getRegions demand.                                    *)
(***************************************************************************)
OfType(t, type) == {i \in DOMAIN threads[t].events : threads[t].events[i].ir.type = type}

Regions(t, start, end) ==
  {<<i, Min({j \in OfType(t, end) : j > i})>> :
     i \in {k \in OfType(t, start) : \E j \in OfType(t, end) : j > k}}

Containing(n, start, end) ==
  {r \in Regions(n[1], start, end) : r[1] <= n[2] /\ n[2] <= r[2]}

\* getContainingRegion: a task without regions is where its fork is.  The start
\* of the region, as an event.
ContainingRegion(n, start, end) ==
  LET regionsOf(t) == Regions(t, start, end)
      up[k \in Seq(Nat)] ==
        IF regionsOf(k[1]) # {}
        THEN {<<k[1], r[1]>> : r \in Containing(k, start, end)}
        ELSE LET site == threads[k[1]].spawnSite
             IN IF EventOf(site).ir.type = "OpenMPTaskFork" THEN up[site] ELSE {}
  IN up[n]

\* The number of the region of a thread that an event is in.
RegionID(n, start, end) ==
  {Cardinality({q \in Regions(n[1], start, end) : q[1] < r[1]}) :
     r \in Containing(n, start, end)}

\* Mutant: the events need not be in the same region.
InSameSingleBlock_AnySingle(m, n) ==
  /\ RegionID(m, "OpenMPSingleStart", "OpenMPSingleEnd") # {}
  /\ RegionID(n, "OpenMPSingleStart", "OpenMPSingleEnd") # {}

InSameSingleBlock(m, n) ==
  RegionID(m, "OpenMPSingleStart", "OpenMPSingleEnd")
    \cap RegionID(n, "OpenMPSingleStart", "OpenMPSingleEnd") # {}

GuardStart == "OpenMPGetThreadNumGuardStart"
GuardEnd == "OpenMPGetThreadNumGuardEnd"

GuardedTIDs(n) == {EventOf(r).ir.tid : r \in ContainingRegion(n, GuardStart, GuardEnd)}

GuardedBySameTID(m, n) == GuardedTIDs(m) \cap GuardedTIDs(n) # {}

-----------------------------------------------------------------------------
ReduceContains(reduce, n) == BlockOf(EventOf(n).ir) \in program.reduces[reduce]

\* The first reduce before m that contains one of the events decides.
InSameReduce(m, n) ==
  LET reduceAt(i) == threads[m[1]].events[i].ir.inst
      found == {i \in OfType(m[1], "OpenMPReduce") :
                  i < m[2] /\ (ReduceContains(reduceAt(i), m) \/ ReduceContains(reduceAt(i), n))}
  IN found # {} /\ ReduceContains(reduceAt(Min(found)), m)
                /\ ReduceContains(reduceAt(Min(found)), n)

IsInLastprivate(n) == BlockOf(EventOf(n).ir) \in program.lastprivate

(***************************************************************************)
(* Sections: the events of the first thread at which a section is entered, *)
(* up to the first event after both, numbered by their event IDs; the      *)
(* event of the other thread is looked up by its ID in the first thread.   *)
(* The last section is never left, and a walk that does not find both      *)
(* events runs over the end of the events.                                 *)
(***************************************************************************)
SectionStarts(t, last) ==
  LET events == threads[t].events
      Enter(starts, i) ==
        LET block == BlockOf(events[i].ir)
        IN IF /\ block \in program.cases
              /\ starts = <<>> \/ BlockOf(events[Last(starts)].ir) # block
           THEN Append(starts, i) ELSE starts
  IN FoldLeft(Enter, <<>>, [i \in 1..Min({Len(events), last + 1}) |-> i])

SectionVerdict(m, n) ==
  LET last == Max({m[2], n[2]})
      first == Min({m[2], n[2]})
      starts == SectionStarts(m[1], last)
      section(i) == Max({k \in DOMAIN starts : starts[k] <= i})
  IN CASE starts = <<>> \/ starts[1] > last -> "no"
       [] starts # <<>> /\ starts[1] <= first /\ last <= Len(threads[m[1]].events) ->
            IF section(first) = section(last) THEN "yes" ELSE "no"
       [] OTHER -> IF Last(starts) = last + 1 THEN "no" ELSE "undefined"
=============================================================================
