---------------------------- MODULE MCRaceDetect ----------------------------
(***************************************************************************)
(* Model values and programs for RaceDetect.                               *)
(***************************************************************************)
EXTENDS RaceDetect, SamplePrograms

CONSTANTS MaxBlocks   \* bound on the constructs in a function body

None == <<0, 0>>

(***************************************************************************)
(* One parallel region.  The races of a task are found only if the task is *)
(* created before any barrier or taskwait of the region; those of a task   *)
(* created in a single region only if no master region comes before the    *)
(* single region, or after a taskwait that follows it.                     *)
(***************************************************************************)
MasterBlock == Master("mas", "mas.end", <<Store("mas.w", "x")>>)
TaskBlock == <<Task("task", "taskBody")>>
SingleTask == Single("sin", "sin.end", <<Task("sin.task", "taskBody")>>)

RegionBlocks ==
  {<<Load("r", "x")>>,
   <<Barrier("bar")>>,
   <<TaskWait("wait")>>,
   <<CallOf("call", "helper")>>,
   MasterBlock, TaskBlock, SingleTask}

Position(b, i) == {k \in DOMAIN b : b[k].inst = i}

Precedes(b, i, j) == \E k \in Position(b, i), l \in Position(b, j) : k < l

Supported(b) ==
  /\ \A i \in {"bar", "wait"}, j \in {"task", "sin.task"} : ~Precedes(b, i, j)
  /\ ~Precedes(b, "mas", "sin.task")
  /\ ~(Precedes(b, "sin.task", "wait") /\ Precedes(b, "wait", "mas"))

RegionBodies == {b \in Sequences(RegionBlocks, MaxBlocks) : Supported(b)}

\* A nest lock is taken again and still held after the first release (DRB118, DRB119
\* of the tests).
Helper ==
  NestLocked("n", "n.end", "nest",
             Critical("crit", "crit.end", NestLocked("h", "h.end", "nest", <<Store("crit.w", "x")>>))
               \o <<Load("n.r", "x")>>)

RegionPrograms ==
  {Prog(Region(<<"m", "o">>, "omp") \o <<Store("after", "x")>>,
        [omp |-> b, taskBody |-> <<Store("task.w", "x")>>, helper |-> Helper]) :
     b \in RegionBodies}

(***************************************************************************)
(* Regions in regions and in teams, and one right after the creation of a  *)
(* thread.  No barriers: the two inner teams pass the same barrier         *)
(* instruction (see ReusedBarrierPrograms).                                *)
(***************************************************************************)
InnerBodies == {<<Store("w", "x")>>, <<CallOf("call", "helper")>>, MasterBlock}

ThreadFirst == <<Create("pf", "hf", "f")>> \o Region(<<"m", "o">>, "omp")

OuterMains == {Region(<<"m", "o">>, "outer"), Teams(<<"m", "o">>, "outer"), ThreadFirst}

NestedPrograms ==
  {Prog(m, [outer |-> <<Load("or", "y")>> \o Region(<<"im", "io">>, "omp"),
            omp |-> b, helper |-> <<Load("hr", "x"), Store("hw", "y")>>, f |-> <<Store("fw", "x")>>]) :
     m \in OuterMains, b \in InnerBodies}

(***************************************************************************)
(* pthreads: one or two threads, joined or not, and a mutex.               *)
(***************************************************************************)
PthreadBlocks ==
  {<<Store("w", "x")>>,
   <<Create("pf", "hf", "f")>>,
   <<Create("pg", "hg", "g")>>,
   <<PJoin("jf", "hf")>>,
   <<Lock("l", "mutex"), Store("lw", "x"), Unlock("u", "mutex")>>}

\* A join is reached with its handle set.
Valid(b) == \A i \in Position(b, "jf") : Precedes(b, "pf", "jf")

PthreadPrograms ==
  {Prog(b, [f |-> <<Lock("fl", "mutex"), Load("fr", "x"), Unlock("fu", "mutex"), Store("fw", "y")>>,
            g |-> <<Load("gy", "y"), Store("gx", "x")>>]) :
     b \in {s \in Sequences(PthreadBlocks, MaxBlocks + 1) : Valid(s)}}

(***************************************************************************)
(* Constructs of a parallel region that one member runs at a time: single  *)
(* regions, code guarded by the thread number, reductions, lastprivate     *)
(* copies and sections.  Sections come last: the code after them is taken  *)
(* for a part of the last section.                                         *)
(***************************************************************************)
Sections == Once("case1", "s1", <<Store("s1.w", "x")>>)
              \o Once("case2", "s2", <<Load("s2.r", "y"), Store("s2.w", "x")>>)

MasterOfY == Master("mas", "mas.end", <<Store("mas.w", "y")>>)

FilterBlocks ==
  {<<Load("r", "x")>>,
   Single("sin", "sin.end", <<Store("sin.w", "x")>>),
   Single("sin2", "sin2.end", <<Store("sin2.w", "x"), Task("sin2.task", "taskBody")>>),
   Guarded(0, "g0", "g0.end", <<Store("g0.w", "x"), Task("g0.task", "taskBody")>>),
   Guarded(0, "h0", "h0.end", <<Load("h0.r", "x")>>),
   Guarded(1, "g1", "g1.end", <<Store("g1.w", "x"), Load("g1.r", "y")>>),
   Reduction("red", "combine", <<Load("red.r", "x"), Store("red.w", "x")>>),
   Once("last", "lst", <<Store("last.w", "x")>>),
   MasterOfY}

FilterBodies ==
  {b \in Sequences(FilterBlocks, 2) : \A i \in {"mas", "sin"} : ~Precedes(b, i, "sin2.task")}
    \cup {b \o Sections : b \in {<<>>, <<Load("r", "y")>>, <<Store("w", "x")>>, MasterOfY}}

FilterPrograms ==
  {[Prog(Region(<<"m", "o">>, "omp"), [omp |-> b, taskBody |-> <<Store("task.w", "x")>>])
    EXCEPT !.cases = {"case1", "case2"}, !.lastprivate = {"last"},
           !.reduces = [i \in {"red"} |-> {"combine"}]] : b \in FilterBodies}

(***************************************************************************)
(* Accesses through pointers: thread-local objects among what they point   *)
(* to, metadata about the arguments of a call, and a missing location.     *)
(***************************************************************************)
Pointers == [p |-> {"t", "x"}, q |-> {"t", "y"}, a |-> {"x", "y"}, b |-> {"x", "y"}]

PointerPrograms ==
  {[Prog(<<Create("c1", "h1", "f"), Create("c2", "h2", f)>>,
         [f |-> <<Store("fw", v), Load("fr", w)>>, g |-> <<Load("gr", "p"), Store("gw", "q")>>])
    EXCEPT !.points = Pointers, !.tls = {"t"}, !.unlocated = u,
           !.noalias = {{"fw", "fr"}}] :
     f \in {"f", "g"}, v \in {"p", "q", "a", "t"}, w \in {"b", "q"}, u \in {{}, {"gr"}}}

(***************************************************************************)
(* Arrays in a loop over i = 0..3 that a team shares, with an inner loop   *)
(* over j in some.  The names of the values are those of clang's output:   *)
(* i and j are induction variables, inext is i + 1, a product is computed  *)
(* from i, Bi is loaded from an array indexed by i (without repetitions),  *)
(* k from a variable of the enclosing function, s is a counter that the    *)
(* threads share, and row and column are computed from the one variable    *)
(* of two collapsed loops.  Columns stay in their row.                     *)
(***************************************************************************)
NoName == Arrays!None

Val(type, op, arg) == [type |-> type, op |-> op, arg |-> arg]

ArrayValues ==
  [i |-> Val("Indvars", "phi", ""), j |-> Val("Indvars", "phi", ""),
   inext |-> Val("Indvars", "math", "i"), product |-> Val("", "math", "inext"),
   size |-> Val("", "math", "i"), k |-> Val("Unknown", "none", ""),
   kload |-> Val("", "load", "k"), kidx |-> Val("Idxprom", "sext", "kload"),
   Bgep |-> Val("", "gep", "i"), Bload |-> Val("", "load", "Bgep"),
   Bi |-> Val("Idxprom", "sext", "Bload"),
   s |-> Val("StoreMerge", "phi", ""), sidx |-> Val("Idxprom", "sext", "s"),
   iv |-> Val("Unknown", "phi", ""), div |-> Val("Unknown", "math", "iv"),
   mul |-> Val("", "math", "div"), sub |-> Val("Unknown", "math", "mul"),
   row |-> Val("Idxprom", "sext", "div"), column |-> Val("Idxprom", "sext", "sub")]

Rests == [none |-> [n \in 0..3 |-> 0], B |-> (0 :> 2) @@ (1 :> 0) @@ (2 :> 3) @@ (3 :> 1),
          s |-> [n \in 0..3 |-> n \div 2], collapsed |-> [n \in 0..3 |-> n]]

OmpBody(phi) == <<[type |-> "OMPInnerForBody", phi |-> phi]>>
InnerBody(phi) == <<[type |-> "ForBody", phi |-> "j"], [type |-> "Unknown", phi |-> NoName]>> \o OmpBody(phi)

Element(geps, blocks, rest, loop, step, inner, trips, count, const) ==
  [fn |-> "omp", struct |-> FALSE, geps |-> geps, blocks |-> blocks, trips |-> trips,
   scev |-> [rest |-> rest, loop |-> loop, step |-> step, inner |-> inner,
             count |-> count, const |-> const]]

\* A[a * i + c]
Affine(a, c) ==
  Element(<<IF a = 1 /\ c = 0 THEN "i" ELSE IF a = 1 /\ c = 1 THEN "inext" ELSE "product">>,
          OmpBody("i"), "none", "for", a, 0, 0, 0, c)

\* A[i][j + c] in rows of three, with j in 0..trips
Matrix(operand, trips, count, c) ==
  Element(<<IF c = 0 THEN "j" ELSE "product", operand>>, InnerBody("i"), "none", "for", 3, 1, trips, count, c)

Others ==
  {Element(<<"i", "kidx">>, OmpBody("i"), "none", "for", 1, 0, 0, 0, 0),          \* A[k][i]
   Element(<<"Bi">>, OmpBody("i"), "B", NoName, 0, 0, 0, 0, 0),                    \* A[B[i]]
   Element(<<"sidx", "i">>, InnerBody("i"), "s", "for", 3, 0, 0, 0, 0),           \* A[i][s]
   Element(<<"sidx">>, OmpBody("i"), "s", NoName, 0, 0, 0, 0, 0),                  \* A[s]
   Element(<<"column", "row">>, OmpBody("iv"), "collapsed", NoName, 0, 0, 0, 0, 0),
   Element(<<"j">>, <<[type |-> "ForBody", phi |-> "j"]>>, "none", NoName, 0, 1, 2, 2, 0),
   Element(<<"j", "size">>, <<[type |-> "ForBody", phi |-> "j"]>>, "none", NoName, 0, 1, 2, 2, 0)}

IndexPairs ==
  {<<Affine(n[1], n[2]), Affine(n[3], n[4])>> :
     n \in {<<a, 0, a, c>> : a \in {1, 2}, c \in {0, 1, 2, 3, 4, 7}} \cup {<<1, 1, 2, 1>>, <<1, 1, 1, 1>>}}
    \cup {<<Matrix(o, t, n, 0), Matrix(o, t, n, c)>> :
             o \in {"i", "size"}, t \in {1}, n \in {1, -1}, c \in {0, 1, 3, -3}}
    \cup {<<x, [x EXCEPT !.scev.const = c]>> : x \in Others, c \in {0, 1}}

Known(n) == <<[dominates |-> FALSE, constant |-> {7}], [dominates |-> TRUE, constant |-> {n}]>>

Shared(upper) == [static |-> TRUE, last |-> 3, lower |-> Known(0), upper |-> upper]

\* A second store to the bound matters to accesses of one loop only, not to those
\* with an inner one.
Uppers(pair) ==
  {Known(3)} \cup (IF \A i \in {1, 2} : pair[i].scev.inner = 0 /\ pair[i].scev.loop # NoName
                   THEN {Known(3) \o Known(3)} ELSE {})

ArrayPrograms ==
  UNION {{[Prog(Region(<<"m", "o">>, "omp"),
                [omp |-> For("for", "init", "fini", <<ElementLoad("r", "A", "read"), ElementStore("w", "A", "write")>>)])
           EXCEPT !.loops = ("for" :> Shared(u)),
                  !.index = [write |-> pair[1], read |-> pair[2]],
                  !.values = ArrayValues, !.rests = Rests] : u \in Uppers(pair)} :
         pair \in IndexPairs}

RacePrograms ==
  RegionPrograms \cup NestedPrograms \cup PthreadPrograms \cup FilterPrograms
    \cup PointerPrograms \cup ArrayPrograms

(***************************************************************************)
(* Forks that are adjacent and not of one parallel region.  The threads of *)
(* the first program go through one array, each in a function of its own.  *)
(***************************************************************************)
InLoopOf(f) == [Element(<<"j">>, InnerBody("i"), "none", NoName, 0, 1, 2, 2, 0) EXCEPT !.fn = f]

SharedArrayPrograms ==
  {[Prog(<<Create("c1", "h1", "f"), Create("c2", "h2", "g")>>,
         [f |-> <<ElementStore("fw", "A", "write")>>, g |-> <<ElementLoad("gr", "A", "read")>>])
    EXCEPT !.index = [write |-> InLoopOf("f"), read |-> InLoopOf("g")],
           !.values = ArrayValues, !.rests = Rests]}

AdjacentForkPrograms ==
  SharedArrayPrograms \cup
  {Prog(<<Create("c1", "h1", "f"), Create("c2", "h2", "g")>>,
        [f |-> <<Store("fw", "x")>>, g |-> <<Load("gr", "x")>>]),
   Prog(Teams(<<"m", "o">>, "omp"), [omp |-> <<Store("w", "x")>>]),
   Prog(ThreadFirst, [f |-> <<Store("fw", "x")>>, omp |-> <<Store("w", "x")>>])}

(***************************************************************************)
(* A function and its clone, whose accesses share the scopes of the        *)
(* metadata: within a call of either the two pointers do not alias.  The   *)
(* two threads call them with the pointers exchanged.                      *)
(***************************************************************************)
ClonedFunctionPrograms ==
  {[Prog(<<Create("c1", "h1", "f"), Create("c2", "h2", "clone")>>,
         [f |-> <<Store("fw", "a"), Load("fr", "b")>>,
          clone |-> <<Store("cw", "b"), Load("cr", "a")>>])
    EXCEPT !.points = ("a" :> {"x"}) @@ ("b" :> {"y"}),
           !.noalias = {{"fw", "fr"}, {"cw", "cr"}, {"fw", "cr"}, {"cw", "fr"}}]}

(***************************************************************************)
(* Tasks created after a barrier of the region: by both members, or by one *)
(* of them.                                                                *)
(***************************************************************************)
LateTaskPrograms ==
  {Prog(Region(<<"m", "o">>, "omp"), [omp |-> b, taskBody |-> <<Store("task.w", "x")>>]) :
     b \in {<<Barrier("bar")>> \o TaskBlock,
            <<Barrier("bar")>> \o SingleTask \o <<Load("r", "x")>>}}

(***************************************************************************)
(* A barrier in a function that the region calls twice, and a barrier that *)
(* the teams of two inner regions pass.                                    *)
(***************************************************************************)
ReusedBarrierPrograms ==
  {Prog(Region(<<"m", "o">>, "omp"),
        [omp |-> <<CallOf("c1", "sync"), Store("w", "x"), CallOf("c2", "sync")>>,
         sync |-> <<Barrier("bar")>>]),
   Prog(Region(<<"m", "o">>, "outer"),
        [outer |-> Region(<<"im", "io">>, "omp"),
         omp |-> <<Load("r", "x"), Barrier("bar"), Store("w", "x")>>])}
=============================================================================
