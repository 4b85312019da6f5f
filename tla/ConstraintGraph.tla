-------------------------- MODULE ConstraintGraph --------------------------
(***************************************************************************)
(* The constraint graph the solver works on: inserting constraints,        *)
(* collapsing copy cycles into one node, and the order in which the cycle  *)
(* detection delivers the copy edges (Graph/ConstraintGraph).              *)
(***************************************************************************)
EXTENDS PointerConstraints

VARIABLES
  nodes,    \* the nodes created so far
  edges,    \* the edges, succCons and predCons of all nodes
  superOf,  \* what getSuperNode() returns: a node itself until collapsed
  pts       \* the points-to sets

graphVars == <<nodes, edges, superOf, pts>>

Copy(m, n) == [kind |-> "copy", src |-> m, dst |-> n]

CopyEdges == {e \in edges : e.kind = "copy"}

CopySuccs(n) == {e.dst : e \in {e \in CopyEdges : e.src = n}}

(***************************************************************************)
(* addConstraints and insertConstraint.  An addr_of constraint becomes a   *)
(* copy from the object's anonymous pointer; the ends of an edge are moved *)
(* to their super nodes; a self copy, and an edge into an immutable node,  *)
(* are refused.                                                            *)
(***************************************************************************)
Edge(c) ==
  [kind |-> IF c.kind = "addr_of" THEN "copy" ELSE c.kind,
   src |-> superOf[IF c.kind = "addr_of" THEN Anon(c.src) ELSE c.src],
   dst |-> superOf[c.dst]]

SelfCopy(e) == e.kind = "copy" /\ e.src = e.dst

Insertable(cs) ==
  {Edge(c) : c \in {c \in cs : /\ c.kind = "special" \/ c.dst \notin Immutable
                               /\ ~SelfCopy(Edge(c))}}

NewEdges(cs) == Insertable(cs) \ edges

(***************************************************************************)
(* addCGNode: an object comes with its anonymous pointer, and a vector     *)
(* with its element object.                                                *)
(***************************************************************************)
ObjectNodes(o) ==
  {o, Anon(o)} \cup {e \in Obj : e = Elem[o]}
               \cup {Anon(e) : e \in {e \in Obj : e = Elem[o]}}

NodesOf(c) == {c.src, c.dst} \cup UNION {ObjectNodes(o) : o \in {c.src, c.dst} \cap Obj}

-----------------------------------------------------------------------------
(***************************************************************************)
(* What a load, store, offset or special edge adds for the objects its     *)
(* pointer points to.  An offset edge looks only at objects it has not     *)
(* handled, and adds nothing for a field that is already pointed to.       *)
(***************************************************************************)
LoadCopies(e) == {Copy(superOf[o], e.dst) : o \in pts[e.src]}

StoreCopies(e) == {Copy(e.src, superOf[o]) : o \in pts[e.dst]}

FieldObjs(e, done) ==
  {f \in Obj \ pts[e.dst] : \E o \in pts[e.src] \ done : f = Field[o]}

OffsetCopies(e, done) == {Copy(Anon(f), e.dst) : f \in FieldObjs(e, done)}

SpecialCopies(e) ==
  {IF Param[e.dst] = None THEN Copy(Anon(Elem[o]), e.dst)
                          ELSE Copy(Param[e.dst], Elem[o]) :
   o \in {o \in pts[e.src] : Elem[o] # None}}

Consequences(e, done) ==
  CASE e.kind = "load" -> LoadCopies(e)
    [] e.kind = "store" -> StoreCopies(e)
    [] e.kind = "offset" -> OffsetCopies(e, done)
    [] e.kind = "special" -> SpecialCopies(e)
    [] OTHER -> {}

\* The end of an edge whose points-to set decides what the edge adds.
Watched(e) == IF e.kind = "store" THEN e.dst ELSE e.src

-----------------------------------------------------------------------------
(***************************************************************************)
(* SCCIterator over copy edges.  Reach(n) is the least set that contains n *)
(* and is closed under copy edges; the iterator delivers the strongly      *)
(* connected components of what the roots reach.  A single node without    *)
(* successors is left out, nothing is done for it.                         *)
(***************************************************************************)
Reach(n) ==
  LET ends == {e.dst : e \in CopyEdges}
      closed == {S \in SUBSET ends : \A e \in CopyEdges :
                   e.src \in S \cup {n} => e.dst \in S}
  IN {n} \cup {m \in ends : \A S \in closed : m \in S}

Components(roots) ==
  LET reach == [n \in {e.src : e \in CopyEdges} \cup roots |-> Reach(n)]
      visited == (UNION {reach[n] : n \in roots}) \cap {e.src : e \in CopyEdges}
  IN {{m \in visited : m \in reach[n] /\ n \in reach[m]} : n \in visited}

(***************************************************************************)
(* collapseSCCTo: the edges of the component are moved to its front node,  *)
(* copies within it disappear.                                             *)
(***************************************************************************)
CollapsedEdges_OnlyOutgoing(C, front) ==
  LET moved(e) == IF e.src \in C THEN [e EXCEPT !.src = front] ELSE e
  IN {e \in {moved(e) : e \in edges} : ~SelfCopy(e)}

CollapsedEdges(C, front) ==
  LET to(n) == IF n \in C THEN front ELSE n
      moved(e) == [e EXCEPT !.src = to(e.src), !.dst = to(e.dst)]
  IN {e \in {moved(e) : e \in edges} : ~SelfCopy(e)}

CollapsedSuper(C, front) ==
  [n \in Node |-> IF superOf[n] \in C THEN front ELSE superOf[n]]

\* The points-to sets of the component are merged into its front node.
MergedPts(C, front) ==
  [n \in Node |-> IF n = front THEN UNION {pts[m] : m \in C}
                  ELSE IF n \in C THEN {} ELSE pts[n]]

=============================================================================
