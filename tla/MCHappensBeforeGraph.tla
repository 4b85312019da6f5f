------------------------ MODULE MCHappensBeforeGraph ------------------------
(***************************************************************************)
(* Model values and program traces for HappensBeforeGraph.                 *)
(***************************************************************************)
EXTENDS HappensBeforeGraph

CONSTANTS MaxMain   \* bound on the number of events of a generated main thread

None == <<0, 0>>

R == [type |-> "Read"]
W == [type |-> "Write"]
F(h) == [type |-> "Fork", ir |-> [handle |-> h]]
J(h) == [type |-> "Join", ir |-> [handle |-> h], fork |-> None]
JTask(h, n) == [type |-> "Join", ir |-> [handle |-> h], fork |-> n]
B(i) == [type |-> "Barrier", ir |-> [inst |-> i]]

MCLoadPointer == [l1 |-> "h1", l2 |-> "p"]
MCStorePointers == [p |-> <<"q", "h1">>]
MCPhiIncoming == [c1 |-> [value |-> "h1", isCall |-> TRUE],
                  c2 |-> [value |-> "h1", isCall |-> FALSE]]

Thread(site, events) == [spawnSite |-> site, events |-> events]

(***************************************************************************)
(* pthreads: the main thread starts one or two threads and joins some of   *)
(* them, directly, through a loaded handle, a store or a phi, or by the    *)
(* nearest-fork heuristic ("x" is no handle).                              *)
(***************************************************************************)
JoinHandles == {"h1", "h2", "l1", "l2", "c1", "c2", "x"}
MainOps == {R, F("h1"), F("h2")} \cup {J(h) : h \in JoinHandles}

Sites(s) == {<<1, i>> : i \in {k \in DOMAIN s : s[k].type = "Fork"}}

MainBodies ==
  {s \in UNION {[1..n -> MainOps] : n \in 2..MaxMain} :
     /\ s[1] = F("h1") \/ (s[1] = R /\ s[2] = F("h1"))
     /\ \A i, j \in DOMAIN s : i # j => s[i] # s[j]
     /\ Cardinality({i \in DOMAIN s : s[i].type = "Join"}) <= 2
     /\ \A i \in DOMAIN s : s[i] = J("h2") =>
          \E j \in 1..(i - 1) : s[j] = F("h2")}

Bodies == {<<>>, <<W>>, <<R, W>>}

\* Children get their thread IDs in the order of their forks.
Nth(S, k) == CHOOSE n \in S : Cardinality({m \in S : m[2] < n[2]}) = k - 1

PthreadTraces ==
  UNION {LET k == Cardinality(Sites(s))
         IN {<<Thread(NoSpawn, s)>> \o
             [t \in 1..k |-> Thread(Nth(Sites(s), t), b[t])] :
             b \in {f \in [1..k -> Bodies] : k = 2 => f[2] # <<W>>}} :
         s \in MainBodies}

(***************************************************************************)
(* A thread started by a started thread, joined there or by main.          *)
(***************************************************************************)
NestedTraces ==
  {<<Thread(NoSpawn, <<F("h1"), R>> \o m),
     Thread(<<1, 1>>, <<F("h3"), W>> \o c),
     Thread(<<2, 1>>, g)>> :
     m \in {<<>>, <<J("h3"), R>>, <<J("h1"), R>>},
     c \in {<<>>, <<J("h3"), R>>},
     g \in Bodies}

(***************************************************************************)
(* OpenMP parallel regions: two forks, two joins, the same body on both    *)
(* threads; tasks are joined at a barrier or at the end of the region.     *)
(***************************************************************************)
RegionBodies == {<<R, B("b1"), W>>, <<B("b1"), R, B("b2")>>, <<W>>,
                 <<B("b1"), R, B("b2"), W>>}

RegionTraces ==
  {<<Thread(NoSpawn, <<F("m"), F("o"), J("m"), J("o"), R>>),
     Thread(<<1, 1>>, b), Thread(<<1, 2>>, b)>> : b \in RegionBodies}

TaskTraces ==
  {<<Thread(NoSpawn, <<F("m"), F("o")>> \o j \o <<J("m"), J("o")>>),
     Thread(<<1, 1>>, <<F("t")>> \o p \o <<B("b1"), W>>),
     Thread(<<2, 1>>, g),
     Thread(<<1, 2>>, <<R, B("b1"), R>>)>> :
     j \in {<<JTask("t", <<2, 1>>)>>}, p \in {<<>>, <<R>>}, g \in Bodies}
  \cup
  {<<Thread(NoSpawn, <<F("m"), F("o"), J("m"), J("o")>>),
     Thread(<<1, 1>>, <<F("t"), JTask("t", <<2, 1>>), B("b1"), W>>),
     Thread(<<2, 1>>, g),
     Thread(<<1, 2>>, <<R, B("b1"), R>>)>> : g \in Bodies}

GraphTraces == PthreadTraces \cup NestedTraces \cup RegionTraces \cup TaskTraces

=============================================================================
