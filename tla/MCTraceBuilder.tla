--------------------------- MODULE MCTraceBuilder ---------------------------
(***************************************************************************)
(* Model values and programs for TraceBuilder.                             *)
(***************************************************************************)
EXTENDS TraceBuilder, SamplePrograms

CONSTANTS MaxBlocks   \* bound on the constructs in a function body

None == <<0, 0>>

(***************************************************************************)
(* OpenMP: a parallel region of up to MaxBlocks constructs, alone, twice   *)
(* in a called function, or inside a teams region.                         *)
(***************************************************************************)
RegionBlocks ==
  {<<Load("r", "x")>>,
   <<Barrier("bar")>>,
   Critical("crit", "crit.end", <<Store("crit.w", "x")>>),
   <<Task("task", "taskBody")>>,
   <<TaskWait("wait")>>,
   Master("mas", "mas.end", <<Store("mas.w", "x")>>),
   Single("sin", "sin.end", <<Task("sin.task", "taskBody")>>),
   <<CallOf("call", "helper")>>}

OpenMPMains ==
  {<<Store("ser", "x")>> \o Region(<<"m", "o">>, "omp") \o <<Store("after", "x")>>,
   <<CallOf("c1", "fork"), Load("mid", "x"), CallOf("c2", "fork")>>,
   Teams(<<"tm", "to">>, "teams")}

OpenMPPrograms ==
  {Prog(m, [fork |-> Region(<<"fm", "fo">>, "omp"),
            teams |-> <<Load("tr", "x")>> \o Region(<<"pm", "po">>, "omp"),
            omp |-> b,
            taskBody |-> <<Store("task.w", "x")>>,
            helper |-> <<CallOf("rec", "helper"), Store("h.w", "x"),
                         CallOf("ext", "ext"), CallOf("ind", "indirect")>>]) :
     m \in OpenMPMains, b \in Sequences(RegionBlocks, MaxBlocks)}

(***************************************************************************)
(* pthreads: mutually recursive functions and spawns, threads started from *)
(* a callee and from a thread, and code before the first thread.           *)
(***************************************************************************)
PthreadBlocks ==
  {<<Store("w", "x")>>, <<CallOf("cf", "f")>>, <<Create("pg", "hg", "g")>>,
   <<PJoin("jg", "hg")>>, <<Lock("l", "mutex"), Load("lr", "x"), Unlock("u", "mutex")>>}

PthreadPrograms ==
  {Prog(b, [f |-> c, g |-> d]) :
     b \in Sequences(PthreadBlocks, MaxBlocks),
     c \in {<<Load("fr", "x")>>,
            <<CallOf("cg", "g"), Load("fr", "x")>>,
            <<Create("pf", "hf", "g"), CallOf("crec", "f"), Load("fr", "x")>>},
     d \in {<<Store("gw", "x")>>,
            <<CallOf("cf2", "f"), Store("gw", "x")>>,
            <<Create("pf2", "hf2", "f"), Store("gw", "x")>>}}

\* Threads started by threads started by threads: contexts forget.
DeepPrograms ==
  {Prog(<<Create("p1", "h1", "t1")>>,
        [t1 |-> <<Create("p2", "h2", "t2"), Load("r1", "x")>>,
         t2 |-> <<Create("p3", "h3", "t3"), Load("r2", "x")>>,
         t3 |-> <<CallOf("c4", "t4"), Create("p4", "h4", "t4"), Load("r3", "x")>>,
         t4 |-> <<Load("r4", "x")>>])}

(***************************************************************************)
(* Master constructs that the runtime model does not match: one outside    *)
(* any parallel region, and one inside the master region of another.       *)
(***************************************************************************)
MasterBlock == Master("mas", "mas.end", <<Store("mas.w", "x")>>)

MasterPrograms ==
  {Prog(Master("alone", "alone.end", <<Store("alone.w", "x")>>) \o Region(<<"m", "o">>, "omp"),
        [omp |-> MasterBlock]),
   Prog(Region(<<"m", "o">>, "outer"),
        [outer |-> Master("out", "out.end", Region(<<"im", "io">>, "inner")),
         inner |-> MasterBlock])}

BuilderPrograms == OpenMPPrograms \cup PthreadPrograms \cup DeepPrograms \cup MasterPrograms
=============================================================================
