---------------------- MODULE PartialUpdateSolver_proofs ----------------------
(***************************************************************************)
(* Proofs about the solver, for every program: an object is in a points-to *)
(* set only if every solution of the constraints has it there.             *)
(*                                                                         *)
(* The invariant speaks of one solution S at a time: S satisfies every     *)
(* edge of the graph (SoundEdge), gives the same objects to the members of *)
(* a component and to a node and its super node, and has all that the      *)
(* points-to sets have.  For a special edge this needs that the results of *)
(* field accesses and vector operations are never collapsed: nothing but   *)
(* the anonymous pointers of objects is copied into the nodes of Single.   *)
(***************************************************************************)
EXTENDS PartialUpdateSolver, TLAPS, FiniteSetTheorems, WellFoundedInduction

Known == AllConstraints(cons, body)

Results == {c.dst : c \in {c \in Known : c.kind \in {"offset", "special"}}}

Anons == {Anon(o) : o \in Obj}

\* Nodes into which only anonymous pointers are copied.
Single == Results \cup Immutable \cup Anons

EdgeType == [kind : Kinds, src : Node, dst : Node]

\* S satisfies an edge of the graph.
SoundEdge(S, e) ==
  /\ e.kind = "copy" => S[e.src] \subseteq S[e.dst]
  /\ e.kind = "load" => \A o \in S[e.src] : S[o] \subseteq S[e.dst]
  /\ e.kind = "store" => \A o \in S[e.dst] \ Immutable : S[e.src] \subseteq S[o]
  /\ e.kind = "offset" => \A o \in S[e.src] : Field[o] \in Obj => Field[o] \in S[e.dst]
  /\ e.kind = "special" /\ Param[e.dst] = None =>
       \A o \in S[e.src] : Elem[o] \in Obj => Elem[o] \in S[e.dst]
  /\ e.kind = "special" /\ Param[e.dst] # None =>
       \A o \in S[e.src] : Elem[o] \in Obj => S[Param[e.dst]] \subseteq S[Elem[o]]

\* The solutions that give an anonymous pointer its object only.
Exact(S) == S \in Assignments /\ \A o \in Obj : S[Anon(o)] = {o}

GoodEdge(e) ==
  /\ e \in EdgeType
  /\ e.dst \notin Anons
  /\ e.dst \in Single =>
       e.kind \in {"offset", "special", "store"} \/ (e.kind = "copy" /\ e.src \in Anons)
  /\ e.kind \in {"offset", "special"} => e.dst \in Results

GoodSuper ==
  /\ superOf \in [Node -> Node]
  /\ \A n \in Node : n \in Single \/ superOf[n] \in Single => superOf[n] = n

ProgramInv ==
  /\ body \in [Site \X Func -> SUBSET Constraint]
  /\ cons \subseteq Constraint
  /\ WellFormed(Known)

GraphInv ==
  /\ GoodSuper
  /\ \A e \in edges : GoodEdge(e)
  /\ pts \in [Node -> SUBSET Obj]

PendingInv ==
  \A C \in pending : C \subseteq Node /\ \A n \in C \cap Single : C = {n}

\* S agrees with what the solver has done.
Below(S) == \A n \in Node : S[superOf[n]] = S[n] /\ pts[n] \subseteq S[n]

SameInComponents(S) == \A C \in pending : \A m, n \in C : S[m] = S[n]

SolutionInv ==
  \A S \in Assignments : Exact(S) /\ IsSolution(S, cons) =>
    /\ Below(S)
    /\ SameInComponents(S)
    /\ \A e \in edges : SoundEdge(S, e)

WorkInv == nodes \subseteq Node /\ copyWork \subseteq Node

Inv == ProgramInv /\ GraphInv /\ PendingInv /\ WorkInv /\ SolutionInv

-----------------------------------------------------------------------------
(***************************************************************************)
(* Kinds of nodes.                                                         *)
(***************************************************************************)
LEMMA NodeFacts ==
  /\ Ptr \subseteq Node /\ Obj \subseteq Node /\ Anons \subseteq Node
  /\ \A o \in Obj : Anon(o) \in Anons
  /\ \A n \in Anons : n \notin Ptr /\ n \notin Obj
  /\ \A n \in Ptr : n \notin Obj
  /\ \A o1, o2 \in Obj : Anon(o1) = Anon(o2) => o1 = o2
  /\ None \notin Node
BY NodesAssumption, ObjectsAssumption DEF Node, Anons, Anon

\* The result of a vector operation is a pointer nothing else defines, and the
\* only objects of Single are constant globals.
LEMMA ResultFacts ==
  ASSUME WellFormed(Known)
  PROVE  /\ \A n \in Results : n \in Ptr
         /\ \A c \in Known : c.dst \in Results => c.kind \in {"offset", "special", "store"}
         /\ \A n \in Single : n \in Node /\ (n \in Obj => n \in Immutable)
<1>1. \A n \in Results : n \in Ptr
  BY DEF Results, WellFormed
<1>2. \A c \in Known : c.dst \in Results => c.kind \in {"offset", "special", "store"}
  BY DEF Results, WellFormed
<1>3. \A n \in Single : n \in Node /\ (n \in Obj => n \in Immutable)
  BY <1>1, NodeFacts, ObjectsAssumption DEF Single
<1>4. QED
  BY <1>1, <1>2, <1>3

(***************************************************************************)
(* Reach and the components.                                               *)
(***************************************************************************)
\* Along copy edges a sound solution grows: SCCIterator's depth-first search.
LEMMA ReachSound ==
  ASSUME NEW S \in Assignments, \A e \in edges : GoodEdge(e) /\ SoundEdge(S, e),
         NEW n \in Node, NEW m \in Reach(n)
  PROVE  S[n] \subseteq S[m]
<1> DEFINE ends == {e.dst : e \in CopyEdges}
           T == {d \in ends : S[n] \subseteq S[d]}
<1>1. T \in SUBSET ends
  OBVIOUS
<1>2. \A e \in CopyEdges : e.src \in T \cup {n} => e.dst \in T
  BY DEF CopyEdges, SoundEdge
<1>3. m = n \/ m \in T
  BY <1>1, <1>2 DEF Reach
<1>4. QED
  BY <1>3

\* A node of Single is on no cycle of copy edges.
LEMMA NoCycleThroughSingle ==
  ASSUME \A e \in edges : GoodEdge(e),
         NEW a \in Single, NEW b, a # b, a \in Reach(b), b \in Reach(a)
  PROVE  FALSE
<1> DEFINE ends == {e.dst : e \in CopyEdges}
           T == ends \ {a}
<1>1. a \in ends /\ b \in ends
  BY DEF Reach
<1>2. \A n \in ends : n \notin Anons
  BY DEF CopyEdges, GoodEdge
<1>3. \A e \in CopyEdges : e.dst = a => e.src \in Anons
  BY DEF CopyEdges, GoodEdge
<1>4. T \in SUBSET ends
  OBVIOUS
<1>5. \A e \in CopyEdges : e.src \in T \cup {b} => e.dst \in T
  BY <1>1, <1>2, <1>3
<1>6. a = b \/ a \in T
  BY <1>4, <1>5 DEF Reach
<1>7. QED
  BY <1>6

\* The nodes of one component SCCIterator delivers reach each other.
LEMMA ComponentsMutual ==
  ASSUME \A e \in edges : GoodEdge(e), NEW roots \in SUBSET Node,
         NEW C \in Components(roots)
  PROVE  /\ C \subseteq Node
         /\ \E k \in Node : \A m \in C : m \in Reach(k) /\ k \in Reach(m)
<1> DEFINE sources == {e.src : e \in CopyEdges}
           reach == [n \in sources \cup roots |-> Reach(n)]
           visited == (UNION {reach[n] : n \in roots}) \cap sources
<1>1. sources \subseteq Node
  BY DEF CopyEdges, GoodEdge, EdgeType
<1>2. PICK k \in visited : C = {m \in visited : m \in reach[k] /\ k \in reach[m]}
  BY DEF Components
<1>3. \A m \in visited : m \in Node /\ reach[m] = Reach(m)
  BY <1>1
<1>4. QED
  BY <1>2, <1>3

\* A component may be collapsed: a solution gives its members the same objects,
\* and no node of Single is in a component of several nodes.
LEMMA ComponentsSound ==
  ASSUME \A e \in edges : GoodEdge(e), NEW roots \in SUBSET Node,
         NEW C \in Components(roots)
  PROVE  /\ C \subseteq Node
         /\ \A n \in C \cap Single : C = {n}
         /\ \A S \in Assignments : (\A e \in edges : SoundEdge(S, e)) =>
              \A m, n \in C : S[m] = S[n]
<1>1. PICK k \in Node : \A m \in C : m \in Reach(k) /\ k \in Reach(m)
  BY ComponentsMutual
<1>2. C \subseteq Node
  BY ComponentsMutual
<1>3. ASSUME NEW n \in C \cap Single, NEW m \in C, m # n
      PROVE  FALSE
  <2>1. CASE n # k
    BY <1>1, <2>1, NoCycleThroughSingle
  <2>2. CASE n = k
    BY <1>1, <1>3, <2>2, NoCycleThroughSingle
  <2>3. QED
    BY <2>1, <2>2
<1>4. ASSUME NEW S \in Assignments, \A e \in edges : SoundEdge(S, e), NEW m \in C
      PROVE  S[m] = S[k]
  <2>1. S[k] \subseteq S[m]
    BY <1>1, <1>4, ReachSound
  <2>2. S[m] \subseteq S[k]
    BY <1>1, <1>2, <1>4, ReachSound
  <2>3. QED
    BY <2>1, <2>2
<1>5. QED
  BY <1>2, <1>3, <1>4

-----------------------------------------------------------------------------
(***************************************************************************)
(* Edges.  A candidate is a copy that may be handed to the graph.          *)
(***************************************************************************)
GoodCopy(c) ==
  /\ c \in EdgeType
  /\ c.kind = "copy"
  /\ c.dst \notin Anons
  /\ c.dst \in Single => c.src \in Anons

\* getSuperNode: a node of Single stands for itself only.
LEMMA SuperOfGood ==
  ASSUME GoodSuper, NEW n \in Node
  PROVE  /\ superOf[n] \in Node
         /\ superOf[n] \in Single => superOf[n] = n
         /\ n \in Single => superOf[n] = n
BY DEF GoodSuper

\* insertConstraint keeps a good candidate good when its ends become super nodes.
LEMMA CopyInserted ==
  ASSUME GoodSuper, NEW c, GoodCopy(c)
  PROVE  /\ GoodEdge(Edge(c))
         /\ \A S \in Assignments :
              (\A n \in Node : S[superOf[n]] = S[n]) /\ S[c.src] \subseteq S[c.dst]
                => SoundEdge(S, Edge(c))
<1>1. c.src \in Node /\ c.dst \in Node
  BY DEF GoodCopy, EdgeType
<1>2. Edge(c) = [kind |-> "copy", src |-> superOf[c.src], dst |-> superOf[c.dst]]
  BY DEF Edge, GoodCopy
<1>3. superOf[c.dst] \notin Anons
  BY <1>1, SuperOfGood DEF GoodCopy, Single
<1>4. superOf[c.dst] \in Single => superOf[c.src] \in Anons
  BY <1>1, SuperOfGood DEF GoodCopy, Single
<1>5. GoodEdge(Edge(c))
  BY <1>1, <1>2, <1>3, <1>4, SuperOfGood DEF GoodEdge, EdgeType, Kinds
<1>6. ASSUME NEW S \in Assignments, \A n \in Node : S[superOf[n]] = S[n],
             S[c.src] \subseteq S[c.dst]
      PROVE  SoundEdge(S, Edge(c))
  BY <1>1, <1>2, <1>6 DEF SoundEdge
<1>7. QED
  BY <1>5, <1>6

\* The candidates of an edge are good, and no solution forbids them.
LEMMA ConsequencesGood ==
  ASSUME WellFormed(Known), GraphInv, NEW e, GoodEdge(e), NEW done,
         NEW c \in Consequences(e, done), c.dst \notin Immutable
  PROVE  /\ GoodCopy(c)
         /\ \A S \in Assignments : Exact(S) /\ Below(S) /\ SoundEdge(S, e)
              => S[c.src] \subseteq S[c.dst]
<1> USE NodeFacts, ResultFacts
<1>1. e.src \in Node /\ e.dst \in Node /\ e.kind \in Kinds
  BY DEF GoodEdge, EdgeType
<1>2. pts[e.src] \subseteq Obj /\ pts[e.dst] \subseteq Obj
  BY <1>1 DEF GraphInv
<1>a. GoodSuper
  BY DEF GraphInv
<1>3. CASE e.kind = "load"
  <2>1. PICK o \in pts[e.src] : c = Copy(superOf[o], e.dst)
    BY <1>3 DEF Consequences, LoadCopies
  <2>2. GoodCopy(c)
    BY <1>1, <1>2, <1>3, <1>a, <2>1, SuperOfGood DEF GoodCopy, GoodEdge, Copy, EdgeType, Kinds
  <2>3. ASSUME NEW S \in Assignments, Below(S), SoundEdge(S, e)
        PROVE  S[superOf[o]] \subseteq S[e.dst]
    BY <1>1, <1>2, <1>3, <2>1, <2>3 DEF Below, SoundEdge
  <2>4. QED
    BY <2>1, <2>2, <2>3 DEF Copy
<1>4. CASE e.kind = "store"
  <2>1. PICK o \in pts[e.dst] : c = Copy(e.src, superOf[o])
    BY <1>4 DEF Consequences, StoreCopies
  <2>2. o \in Obj /\ superOf[o] \notin Immutable
    BY <1>2, <2>1 DEF Copy
  <2>3. superOf[o] \notin Single /\ superOf[o] \in Node /\ o \notin Immutable
    BY <1>a, <2>2, SuperOfGood DEF Single
  <2>4. GoodCopy(c)
    BY <1>1, <2>1, <2>3 DEF GoodCopy, Copy, EdgeType, Kinds, Single
  <2>5. ASSUME NEW S \in Assignments, Below(S), SoundEdge(S, e)
        PROVE  S[e.src] \subseteq S[superOf[o]]
    <3>1. o \in S[e.dst]
      BY <1>1, <2>1, <2>5 DEF Below
    <3>2. S[e.src] \subseteq S[o]
      BY <1>4, <2>3, <2>5, <3>1 DEF SoundEdge
    <3>3. QED
      BY <2>2, <2>5, <3>2 DEF Below
  <2>6. QED
    BY <2>1, <2>4, <2>5 DEF Copy
<1>5. CASE e.kind = "offset"
  <2>1. PICK f \in FieldObjs(e, done) : c = Copy(Anon(f), e.dst)
    BY <1>5 DEF Consequences, OffsetCopies
  <2>2. PICK o \in pts[e.src] : f = Field[o] /\ f \in Obj
    BY <2>1 DEF FieldObjs
  <2>3. GoodCopy(c)
    BY <1>1, <1>5, <2>1, <2>2 DEF GoodCopy, GoodEdge, Copy, EdgeType, Kinds
  <2>4. ASSUME NEW S \in Assignments, Exact(S), Below(S), SoundEdge(S, e)
        PROVE  S[Anon(f)] \subseteq S[e.dst]
    <3>1. f \in S[e.dst]
      BY <1>1, <1>5, <2>2, <2>4 DEF Below, SoundEdge
    <3>2. QED
      BY <2>2, <2>4, <3>1 DEF Exact
  <2>5. QED
    BY <2>1, <2>3, <2>4 DEF Copy
<1>6. CASE e.kind = "special"
  <2>1. PICK o \in pts[e.src] :
          Elem[o] # None /\ c = IF Param[e.dst] = None THEN Copy(Anon(Elem[o]), e.dst)
                                                      ELSE Copy(Param[e.dst], Elem[o])
    BY <1>6 DEF Consequences, SpecialCopies
  <2>2. o \in Obj /\ Elem[o] \in Obj
    BY <1>2, <2>1, ObjectsAssumption
  <2>3. e.dst \in Results /\ e.dst \in Ptr /\ Param[e.dst] \in Ptr \cup {None}
    BY <1>6, ObjectsAssumption DEF GoodEdge
  <2>4. CASE Param[e.dst] = None
    <3>1. GoodCopy(c)
      BY <1>1, <2>1, <2>2, <2>3, <2>4 DEF GoodCopy, Copy, EdgeType, Kinds
    <3>2. ASSUME NEW S \in Assignments, Exact(S), Below(S), SoundEdge(S, e)
          PROVE  S[Anon(Elem[o])] \subseteq S[e.dst]
      <4>1. Elem[o] \in S[e.dst]
        BY <1>1, <1>6, <2>2, <2>4, <3>2 DEF Below, SoundEdge
      <4>2. QED
        BY <2>2, <3>2, <4>1 DEF Exact
    <3>3. QED
      BY <2>1, <2>4, <3>1, <3>2 DEF Copy
  <2>5. CASE Param[e.dst] # None
    <3>1. c = Copy(Param[e.dst], Elem[o]) /\ Elem[o] \notin Immutable
      BY <2>1, <2>5 DEF Copy
    <3>2. Elem[o] \notin Single
      BY <2>2, <3>1
    <3>3. GoodCopy(c)
      BY <2>2, <2>3, <2>5, <3>1, <3>2 DEF GoodCopy, Copy, EdgeType, Kinds, Single
    <3>4. ASSUME NEW S \in Assignments, Below(S), SoundEdge(S, e)
          PROVE  S[Param[e.dst]] \subseteq S[Elem[o]]
      BY <1>1, <1>6, <2>1, <2>2, <2>5, <3>4 DEF Below, SoundEdge
    <3>5. QED
      BY <3>1, <3>3, <3>4 DEF Copy
  <2>6. QED
    BY <2>4, <2>5
<1>7. QED
  <2>1. e.kind \in {"load", "store", "offset", "special"}
    BY <1>1 DEF Consequences, Kinds
  <2>2. QED
    BY <1>3, <1>4, <1>5, <1>6, <2>1

\* The edge of a constraint is good, and every solution satisfies it.
LEMMA ConstraintInserted ==
  ASSUME WellFormed(Known), GoodSuper, NEW cs \in SUBSET Known, cs \subseteq Constraint,
         NEW c \in cs
  PROVE  /\ GoodEdge(Edge(c))
         /\ \A S \in Assignments :
              Exact(S) /\ IsSolution(S, cs) /\ (\A n \in Node : S[superOf[n]] = S[n])
                => SoundEdge(S, Edge(c))
<1> USE NodeFacts, ResultFacts
<1>1. c.kind \in Kinds /\ c.src \in Ptr \cup Obj /\ c.dst \in Ptr \cup Obj
  BY DEF WellFormed, Constraint
<1>2. c.dst \in Results => c.kind \in {"offset", "special", "store"}
  OBVIOUS
<1>3. c.dst \in Immutable => c.kind = "addr_of"
  BY DEF WellFormed
<1>4. c.kind \in {"offset", "special"} => c.dst \in Results /\ superOf[c.dst] = c.dst
  BY SuperOfGood DEF Results, Single
<1>5. superOf[c.dst] \in Node /\ superOf[c.dst] \notin Anons
  BY <1>1, SuperOfGood DEF Single
<1>6. superOf[c.dst] \in Single => superOf[c.dst] = c.dst
                                     /\ c.kind \in {"offset", "special", "store", "addr_of"}
  BY <1>1, <1>2, <1>3, SuperOfGood DEF Single
<1>7. CASE c.kind = "addr_of"
  <2>1. c.src \in Obj
    BY <1>7 DEF WellFormed
  <2>2. Edge(c) = [kind |-> "copy", src |-> Anon(c.src), dst |-> superOf[c.dst]]
    BY <1>7, <2>1, SuperOfGood DEF Edge, Single
  <2>3. GoodEdge(Edge(c))
    BY <1>5, <2>1, <2>2 DEF GoodEdge, EdgeType, Kinds
  <2>4. ASSUME NEW S \in Assignments, Exact(S), IsSolution(S, cs),
               \A n \in Node : S[superOf[n]] = S[n]
        PROVE  SoundEdge(S, Edge(c))
    <3>1. Demand(S, c, c.dst) = {c.src}
      BY <1>7 DEF Demand
    <3>2. c.src \in S[c.dst]
      BY <1>1, <2>4, <3>1 DEF IsSolution
    <3>3. S[Anon(c.src)] \subseteq S[superOf[c.dst]]
      BY <1>1, <2>1, <2>4, <3>2 DEF Exact
    <3>4. QED
      BY <2>2, <3>3 DEF SoundEdge
  <2>5. QED
    BY <2>3, <2>4
<1>8. CASE c.kind # "addr_of"
  <2>1. Edge(c) = [kind |-> c.kind, src |-> superOf[c.src], dst |-> superOf[c.dst]]
    BY <1>8 DEF Edge
  <2>2. GoodEdge(Edge(c))
    BY <1>1, <1>4, <1>5, <1>6, <1>8, <2>1, SuperOfGood DEF GoodEdge, EdgeType
  <2>3. ASSUME NEW S \in Assignments, Exact(S), IsSolution(S, cs),
               \A n \in Node : S[superOf[n]] = S[n]
        PROVE  SoundEdge(S, Edge(c))
    <3>1. S[superOf[c.src]] = S[c.src] /\ S[superOf[c.dst]] = S[c.dst]
      BY <1>1, <2>3
    <3>2. \A n \in Node : S[n] \subseteq Obj
      BY DEF Assignments
    <3>3. \A n \in Node : Demand(S, c, n) \subseteq S[n]
      BY <2>3 DEF IsSolution
    <3>4. SoundEdge(S, c)
      <4>1. CASE c.kind = "copy"
        <5>1. Demand(S, c, c.dst) = S[c.src]
          BY <4>1 DEF Demand
        <5>2. QED
          BY <1>1, <3>3, <4>1, <5>1 DEF SoundEdge
      <4>2. CASE c.kind = "load"
        <5>1. Demand(S, c, c.dst) = UNION {S[o] : o \in S[c.src]}
          BY <4>2 DEF Demand
        <5>2. QED
          BY <1>1, <3>3, <4>2, <5>1 DEF SoundEdge
      <4>3. CASE c.kind = "store"
        <5>1. \A n \in S[c.dst] \ Immutable : Demand(S, c, n) = S[c.src]
          BY <4>3 DEF Demand
        <5>2. QED
          BY <1>1, <3>2, <3>3, <4>3, <5>1 DEF SoundEdge
      <4>4. CASE c.kind = "offset"
        <5>1. Demand(S, c, c.dst) = {Field[o] : o \in S[c.src]} \cap Obj
          BY <4>4 DEF Demand
        <5>2. QED
          BY <1>1, <3>3, <4>4, <5>1 DEF SoundEdge
      <4>5. CASE c.kind = "special" /\ Param[c.dst] = None
        <5>1. Demand(S, c, c.dst) = {Elem[o] : o \in S[c.src]} \cap Obj
          BY <4>5 DEF Demand
        <5>2. QED
          BY <1>1, <3>3, <4>5, <5>1 DEF SoundEdge
      <4>6. CASE c.kind = "special" /\ Param[c.dst] # None
        <5>1. \A n \in {Elem[o] : o \in S[c.src]} : Demand(S, c, n) = S[Param[c.dst]]
          BY <4>6 DEF Demand
        <5>2. QED
          BY <1>1, <3>3, <4>6, <5>1 DEF SoundEdge
      <4>7. QED
        BY <1>1, <1>8, <4>1, <4>2, <4>3, <4>4, <4>5, <4>6 DEF Kinds
    <3>5. QED
      BY <1>4, <2>1, <3>1, <3>4 DEF SoundEdge
  <2>4. QED
    BY <2>2, <2>3
<1>9. QED
  BY <1>7, <1>8

\* What the load, store, offset and special edges of a set add.
LEMMA AddedGood ==
  ASSUME WellFormed(Known), GraphInv, NEW es, \A e \in es : GoodEdge(e)
  PROVE  \A a \in AddedBy(es) :
           /\ GoodEdge(a)
           /\ \A S \in Assignments :
                Exact(S) /\ Below(S) /\ (\A e \in es : SoundEdge(S, e)) => SoundEdge(S, a)
<1> SUFFICES ASSUME NEW a \in AddedBy(es)
             PROVE  /\ GoodEdge(a)
                    /\ \A S \in Assignments :
                         Exact(S) /\ Below(S) /\ (\A e \in es : SoundEdge(S, e))
                           => SoundEdge(S, a)
  OBVIOUS
<1>1. PICK e \in es : a \in NewEdges(Consequences(e, Done(e)))
  BY DEF AddedBy
<1>2. PICK c \in Consequences(e, Done(e)) :
        a = Edge(c) /\ (c.kind = "special" \/ c.dst \notin Immutable)
  BY <1>1 DEF NewEdges, Insertable
<1>3. c.kind = "copy"
  BY DEF Consequences, LoadCopies, StoreCopies, OffsetCopies, SpecialCopies, Copy
<1>4. GoodCopy(c) /\ \A S \in Assignments : Exact(S) /\ Below(S) /\ SoundEdge(S, e)
                       => S[c.src] \subseteq S[c.dst]
  BY <1>2, <1>3, ConsequencesGood
<1>5. QED
  BY <1>2, <1>4, CopyInserted DEF GraphInv, Below

\* addCGNode creates nodes of the program only ...
LEMMA NodesInNode ==
  ASSUME NEW c, c.src \in Node, c.dst \in Node
  PROVE  NodesOf(c) \subseteq Node
BY NodeFacts DEF NodesOf, ObjectNodes

\* ... and so does an offset edge when it creates the fields of objects.
LEMMA FieldsInNode ==
  ASSUME NEW es
  PROVE  FieldsOf(es) \subseteq Node
BY NodeFacts DEF FieldsOf, FieldObjs, ObjectNodes

-----------------------------------------------------------------------------
(***************************************************************************)
(* The steps.  Kept collects what a step has to show.                      *)
(***************************************************************************)
\* The invariant after a step that stays within the program's constraints and
\* whose graph agrees with every exact solution.
LEMMA Kept ==
  ASSUME Inv,
         body' = body, cons \subseteq cons', cons' \subseteq Known,
         nodes' \subseteq Node, copyWork' \subseteq Node,
         superOf' \in [Node -> Node],
         \A n \in Node : n \in Single \/ superOf'[n] \in Single => superOf'[n] = n,
         \A e \in edges' : GoodEdge(e),
         pts' \in [Node -> SUBSET Obj],
         \A C \in pending' : C \subseteq Node /\ \A n \in C \cap Single : C = {n},
         \A S \in Assignments : Exact(S) /\ IsSolution(S, cons') =>
           /\ \A n \in Node : S[superOf'[n]] = S[n] /\ pts'[n] \subseteq S[n]
           /\ \A C \in pending' : \A m, n \in C : S[m] = S[n]
           /\ \A e \in edges' : SoundEdge(S, e)
  PROVE  Inv'
<1>1. Known' = Known
  BY DEF Known, AllConstraints
<1>2. Results' = Results /\ Single' = Single
  BY <1>1 DEF Results, Single, Anons
<1>3. ProgramInv'
  <2>1. body \in [Site \X Func -> SUBSET Constraint] /\ cons \subseteq Constraint
        /\ WellFormed(Known)
    BY DEF Inv, ProgramInv
  <2>2. \A t \in Site \X Func : body[t] \subseteq Constraint
    BY <2>1
  <2>3. Known \subseteq Constraint
    BY <2>1, <2>2 DEF Known, AllConstraints
  <2>4. WellFormed(Known)'
    BY <1>1, <2>1 DEF WellFormed
  <2>5. QED
    BY <2>1, <2>3, <2>4 DEF ProgramInv
<1>4. GraphInv'
  BY <1>2 DEF GraphInv, GoodSuper, GoodEdge, Anons
<1>5. PendingInv'
  BY <1>2 DEF PendingInv
<1>6. WorkInv'
  BY DEF WorkInv
<1>7. SolutionInv'
  BY DEF SolutionInv, Below, SameInComponents
<1>8. QED
  BY <1>3, <1>4, <1>5, <1>6, <1>7 DEF Inv

\* What the invariant says of one solution of the constraints.
LEMMA OfSolution ==
  ASSUME Inv, NEW S \in Assignments, Exact(S), NEW cs, IsSolution(S, cs), cons \subseteq cs
  PROVE  /\ \A n \in Node : S[superOf[n]] = S[n] /\ pts[n] \subseteq S[n]
         /\ \A C \in pending : \A m, n \in C : S[m] = S[n]
         /\ \A e \in edges : SoundEdge(S, e)
         /\ Below(S)
<1>1. IsSolution(S, cons)
  BY DEF IsSolution
<1>2. QED
  BY <1>1 DEF Inv, SolutionInv, Below, SameInComponents

\* What the invariant says of the variables, solutions aside.
LEMMA InvFacts ==
  ASSUME Inv
  PROVE  /\ cons \subseteq Known /\ WellFormed(Known)
         /\ nodes \subseteq Node /\ copyWork \subseteq Node
         /\ GoodSuper /\ superOf \in [Node -> Node]
         /\ \A n \in Node : n \in Single \/ superOf[n] \in Single => superOf[n] = n
         /\ \A e \in edges : GoodEdge(e)
         /\ pts \in [Node -> SUBSET Obj]
         /\ \A C \in pending : C \subseteq Node /\ \A n \in C \cap Single : C = {n}
BY DEF Inv, ProgramInv, WorkInv, GraphInv, GoodSuper, PendingInv, Known, AllConstraints

\* The list of components at the start of a round.
LEMMA FindComponentsStep ==
  ASSUME Inv, FindComponents
  PROVE  Inv'
<1> DEFINE roots == {n \in copyWork : superOf[n] = n}
<1>1. UNCHANGED <<nodes, edges, superOf, pts, body, cons, copyWork>>
      /\ pending' = Components(roots)
  BY DEF FindComponents, graphVars, workVars
<1>2. roots \in SUBSET Node
  BY InvFacts
<1>3. \A C \in pending' : C \subseteq Node /\ \A n \in C \cap Single : C = {n}
  BY <1>1, <1>2, InvFacts, ComponentsSound
<1>4. ASSUME NEW S \in Assignments, Exact(S), IsSolution(S, cons')
      PROVE  /\ \A n \in Node : S[superOf'[n]] = S[n] /\ pts'[n] \subseteq S[n]
             /\ \A C \in pending' : \A m, n \in C : S[m] = S[n]
             /\ \A e \in edges' : SoundEdge(S, e)
  <2>1. \A e \in edges : SoundEdge(S, e)
    BY <1>1, <1>4, OfSolution
  <2>2. \A C \in pending' : \A m, n \in C : S[m] = S[n]
    BY <1>1, <1>2, <2>1, InvFacts, ComponentsSound
  <2>3. QED
    BY <1>1, <1>4, <2>1, <2>2, OfSolution
<1>5. QED
  BY <1>1, <1>3, <1>4, InvFacts, Kept

\* What is propagated along sound copies was in the solution already.
LEMMA PropagatedBelow ==
  ASSUME NEW S \in Assignments, NEW n \in Node, NEW ds, NEW q \in [Node -> SUBSET Obj],
         \A m \in Node : q[m] \subseteq S[m], \A d \in ds : S[n] \subseteq S[d]
  PROVE  /\ Propagated(n, ds, q) \in [Node -> SUBSET Obj]
         /\ \A m \in Node : Propagated(n, ds, q)[m] \subseteq S[m]
BY DEF Propagated

\* processCopySCC for a component of one node.
LEMMA ProcessNodeStep ==
  ASSUME Inv, NEW n \in nodes, ProcessNode(n)
  PROVE  Inv'
<1> DEFINE ds == {d \in CopySuccs(n) : ShouldProcessCopy(n, d)}
<1>1. UNCHANGED <<nodes, edges, superOf, body, cons, copyWork>>
      /\ pending' \subseteq pending
      /\ pts' = Propagated(n, ds, pts)
  BY DEF ProcessNode
<1>2. n \in Node /\ pts \in [Node -> SUBSET Obj]
  BY InvFacts
<1>3. pts' \in [Node -> SUBSET Obj]
  BY <1>1, <1>2 DEF Propagated
<1>4. ASSUME NEW S \in Assignments, Exact(S), IsSolution(S, cons')
      PROVE  /\ \A m \in Node : S[superOf'[m]] = S[m] /\ pts'[m] \subseteq S[m]
             /\ \A C \in pending' : \A k, m \in C : S[k] = S[m]
             /\ \A e \in edges' : SoundEdge(S, e)
  <2>1. /\ \A m \in Node : S[superOf[m]] = S[m] /\ pts[m] \subseteq S[m]
        /\ \A C \in pending : \A k, m \in C : S[k] = S[m]
        /\ \A e \in edges : SoundEdge(S, e)
    BY <1>1, <1>4, OfSolution
  <2>2. \A d \in ds : S[n] \subseteq S[d]
    BY <2>1 DEF CopySuccs, CopyEdges, SoundEdge
  <2>3. \A m \in Node : pts'[m] \subseteq S[m]
    BY <1>1, <1>2, <2>1, <2>2, PropagatedBelow
  <2>4. QED
    BY <1>1, <2>1, <2>3
<1>5. QED
  BY <1>1, <1>3, <1>4, InvFacts, Kept

\* Collapsing moves sound edges to sound edges.
LEMMA CollapsedGood ==
  ASSUME GraphInv, NEW C \in SUBSET Node, NEW front \in C, C \cap Single = {},
         NEW a \in CollapsedEdges(C, front)
  PROVE  /\ GoodEdge(a)
         /\ \A S \in Assignments :
              (\A m, n \in C : S[m] = S[n]) /\ (\A e \in edges : SoundEdge(S, e))
                => SoundEdge(S, a)
<1> DEFINE to(n) == IF n \in C THEN front ELSE n
<1>1. PICK e \in edges : a = [e EXCEPT !.src = to(e.src), !.dst = to(e.dst)]
  BY DEF CollapsedEdges
<1>2. GoodEdge(e) /\ e \in EdgeType
  BY DEF GraphInv, GoodEdge
<1>3. e = [kind |-> e.kind, src |-> e.src, dst |-> e.dst]
  BY <1>2 DEF EdgeType
<1>4. a = [kind |-> e.kind, src |-> to(e.src), dst |-> to(e.dst)]
  BY <1>1, <1>3
<1>5. \A n \in Single : to(n) = n
  OBVIOUS
<1>6. \A n \in Node : to(n) \in Node /\ (to(n) \in Single => n \in Single)
  OBVIOUS
<1>7. GoodEdge(a)
  <2>1. a \in EdgeType
    BY <1>2, <1>4, <1>6 DEF EdgeType
  <2>2. a.dst \in Single => e.dst \in Single /\ a.dst = e.dst
    BY <1>2, <1>4, <1>5, <1>6 DEF EdgeType
  <2>3. e.src \in Anons => a.src = e.src
    BY <1>4, <1>5 DEF Single
  <2>4. e.dst \in Results => a.dst = e.dst
    BY <1>4, <1>5 DEF Single
  <2>5. a.kind = e.kind
    BY <1>4
  <2>6. QED
    BY <1>2, <2>1, <2>2, <2>3, <2>4, <2>5 DEF GoodEdge, Single
<1>8. ASSUME NEW S \in Assignments, \A m, n \in C : S[m] = S[n],
             \A d \in edges : SoundEdge(S, d)
      PROVE  SoundEdge(S, a)
  <2>1. \A n : S[to(n)] = S[n]
    BY <1>8
  <2>2. e.kind = "special" => a.dst = e.dst
    BY <1>2, <1>4, <1>5 DEF GoodEdge, Single
  <2>3. SoundEdge(S, e)
    BY <1>8
  <2>4. S[a.src] = S[e.src] /\ S[a.dst] = S[e.dst] /\ a.kind = e.kind
    BY <1>4, <2>1
  <2>5. QED
    BY <2>2, <2>3, <2>4 DEF SoundEdge
<1>9. QED
  BY <1>7, <1>8

\* processCopySCC for a cycle, which is collapsed into its front node.
LEMMA ProcessCycleStep ==
  ASSUME Inv, NEW C \in pending, NEW front \in C, ProcessCycle(C, front)
  PROVE  Inv'
<1> DEFINE merged == MergedPts(C, front)
           ds == {e.dst : e \in {e \in CollapsedEdges(C, front) :
                                   e.kind = "copy" /\ e.src = front}}
<1>1. /\ UNCHANGED <<nodes, body, cons, copyWork>>
      /\ pending' \subseteq pending
      /\ edges' = CollapsedEdges(C, front)
      /\ superOf' = CollapsedSuper(C, front)
      /\ pts' = Propagated(front, ds, merged)
      /\ Cardinality(C) > 1
  BY DEF ProcessCycle
<1>2. C \in SUBSET Node /\ front \in Node
  BY InvFacts
<1>3. C \cap Single = {}
  <2> SUFFICES ASSUME NEW n \in C \cap Single PROVE FALSE
    OBVIOUS
  <2>1. C = {n}
    BY InvFacts
  <2>2. QED
    BY <1>1, <2>1, FS_Singleton
<1>4. GraphInv
  BY DEF Inv
<1>5. superOf' \in [Node -> Node]
  BY <1>1, <1>2, InvFacts DEF CollapsedSuper
<1>6. \A n \in Node : n \in Single \/ superOf'[n] \in Single => superOf'[n] = n
  BY <1>1, <1>2, <1>3, InvFacts DEF CollapsedSuper
<1>7. \A e \in edges' : GoodEdge(e)
  BY <1>1, <1>2, <1>3, <1>4, CollapsedGood
<1>8. merged \in [Node -> SUBSET Obj]
  BY <1>2, InvFacts DEF MergedPts
<1>9. pts' \in [Node -> SUBSET Obj]
  BY <1>1, <1>2, <1>8 DEF Propagated
<1>10. ASSUME NEW S \in Assignments, Exact(S), IsSolution(S, cons')
       PROVE  /\ \A m \in Node : S[superOf'[m]] = S[m] /\ pts'[m] \subseteq S[m]
              /\ \A D \in pending' : \A k, m \in D : S[k] = S[m]
              /\ \A e \in edges' : SoundEdge(S, e)
  <2>1. /\ \A m \in Node : S[superOf[m]] = S[m] /\ pts[m] \subseteq S[m]
        /\ \A D \in pending : \A k, m \in D : S[k] = S[m]
        /\ \A e \in edges : SoundEdge(S, e)
    BY <1>1, <1>10, OfSolution
  <2>2. \A m, n \in C : S[m] = S[n]
    BY <2>1
  <2>3. \A m \in Node : S[superOf'[m]] = S[m]
    BY <1>1, <2>1, <2>2 DEF CollapsedSuper
  <2>4. \A e \in edges' : SoundEdge(S, e)
    BY <1>1, <1>2, <1>3, <1>4, <2>1, <2>2, CollapsedGood
  <2>5. \A m \in C : pts[m] \subseteq S[front]
    BY <1>2, <2>1, <2>2
  <2>6. \A m \in Node : merged[m] \subseteq S[m]
    BY <2>1, <2>5 DEF MergedPts
  <2>7. \A d \in ds : S[front] \subseteq S[d]
    BY <1>1, <2>4 DEF SoundEdge
  <2>8. \A m \in Node : pts'[m] \subseteq S[m]
    BY <1>1, <1>2, <1>8, <2>6, <2>7, PropagatedBelow
  <2>9. QED
    BY <1>1, <2>1, <2>3, <2>4, <2>8
<1>11. QED
  BY <1>1, <1>5, <1>6, <1>7, <1>9, <1>10, InvFacts, Kept

\* The load, store, offset and special edges of the changed nodes.
LEMMA ProcessComplexEdgesStep ==
  ASSUME Inv, ProcessComplexEdges
  PROVE  Inv'
<1> DEFINE es == {e \in edges : e.kind # "copy" /\ Watched(e) \in lsWork}
<1>1. /\ UNCHANGED <<superOf, pts, body, cons, pending>>
      /\ edges' = edges \cup AddedBy(es)
      /\ nodes' = nodes \cup FieldsOf(es)
      /\ Record(Recorded(es))
  BY DEF ProcessComplexEdges
<1>2. nodes' \subseteq Node
  BY <1>1, InvFacts, FieldsInNode
<1>3. copyWork' \subseteq Node
  BY <1>1, <1>2, InvFacts DEF Record
<1>4. GraphInv /\ WellFormed(Known) /\ \A e \in es : GoodEdge(e)
  BY InvFacts DEF Inv
<1>5. \A a \in AddedBy(es) :
        /\ GoodEdge(a)
        /\ \A S \in Assignments :
             Exact(S) /\ Below(S) /\ (\A e \in es : SoundEdge(S, e)) => SoundEdge(S, a)
  BY <1>4, AddedGood
<1>6. \A e \in edges' : GoodEdge(e)
  BY <1>1, <1>5, InvFacts
<1>7. ASSUME NEW S \in Assignments, Exact(S), IsSolution(S, cons')
      PROVE  /\ \A m \in Node : S[superOf'[m]] = S[m] /\ pts'[m] \subseteq S[m]
             /\ \A C \in pending' : \A k, m \in C : S[k] = S[m]
             /\ \A e \in edges' : SoundEdge(S, e)
  <2>1. /\ \A m \in Node : S[superOf[m]] = S[m] /\ pts[m] \subseteq S[m]
        /\ \A C \in pending : \A k, m \in C : S[k] = S[m]
        /\ \A e \in edges : SoundEdge(S, e)
        /\ Below(S)
    BY <1>1, <1>7, OfSolution
  <2>2. \A a \in AddedBy(es) : SoundEdge(S, a)
    BY <1>5, <1>7, <2>1
  <2>3. QED
    BY <1>1, <2>1, <2>2
<1>8. QED
  BY <1>1, <1>2, <1>3, <1>6, <1>7, InvFacts, Kept

\* A resolved call adds constraints the program was known to have.
LEMMA ResolveCallsStep ==
  ASSUME Inv, ResolveCalls
  PROVE  Inv'
<1>1. PICK new \in SUBSET Found :
        LET added == UNION {body[t] : t \in new}
            es == NewEdges(added)
            seen == SeenByCallBack(es)
            rec == {e \in es : e.kind = "copy" /\ e.src \in nodes} \cup Recorded(seen)
        IN /\ cons' = cons \cup added
           /\ nodes' = nodes \cup (UNION {NodesOf(c) : c \in added}) \cup FieldsOf(seen)
           /\ edges' = edges \cup es \cup AddedBy(seen)
           /\ Record(rec)
  BY DEF ResolveCalls
<1> DEFINE added == UNION {body[t] : t \in new}
           es == NewEdges(added)
           seen == SeenByCallBack(es)
<1>2. UNCHANGED <<superOf, pts, body, pending>>
  BY DEF ResolveCalls
<1>3. added \subseteq Known
  BY DEF Found, Known, AllConstraints
<1>4. added \subseteq Constraint
  <2>1. \A t \in Site \X Func : body[t] \subseteq Constraint
    BY DEF Inv, ProgramInv
  <2>2. QED
    BY <2>1 DEF Found
<1>5. cons \subseteq cons' /\ cons' \subseteq Known /\ added \subseteq cons'
      /\ cons' \subseteq Constraint
  BY <1>1, <1>3, <1>4, InvFacts DEF Inv, ProgramInv
<1>6. nodes' \subseteq Node
  <2>1. \A c \in added : NodesOf(c) \subseteq Node
    BY <1>4, NodesInNode DEF Constraint
  <2>2. FieldsOf(seen) \subseteq Node
    BY FieldsInNode
  <2>3. nodes \subseteq Node
    BY InvFacts
  <2>4. nodes' = nodes \cup (UNION {NodesOf(c) : c \in added}) \cup FieldsOf(seen)
    BY <1>1
  <2>5. QED
    BY <2>1, <2>2, <2>3, <2>4
<1>7. copyWork' \subseteq Node
  <2>1. PICK rec : Record(rec)
    BY <1>1
  <2>2. QED
    BY <1>6, <2>1, InvFacts DEF Record
<1>8. GraphInv /\ WellFormed(Known) /\ GoodSuper
  BY InvFacts DEF Inv
<1>9. \A e \in es : \E c \in added : e = Edge(c)
  BY DEF NewEdges, Insertable
<1>10. \A e \in es : GoodEdge(e)
  BY <1>5, <1>8, <1>9, ConstraintInserted
<1>11. seen \subseteq es
  BY DEF SeenByCallBack
<1>12. \A a \in AddedBy(seen) :
         /\ GoodEdge(a)
         /\ \A S \in Assignments :
              Exact(S) /\ Below(S) /\ (\A e \in seen : SoundEdge(S, e)) => SoundEdge(S, a)
  BY <1>8, <1>10, <1>11, AddedGood
<1>13. edges' = edges \cup es \cup AddedBy(seen)
  BY <1>1
<1>14. \A e \in edges' : GoodEdge(e)
  BY <1>10, <1>12, <1>13, InvFacts
<1>15. ASSUME NEW S \in Assignments, Exact(S), IsSolution(S, cons')
       PROVE  /\ \A m \in Node : S[superOf'[m]] = S[m] /\ pts'[m] \subseteq S[m]
              /\ \A C \in pending' : \A k, m \in C : S[k] = S[m]
              /\ \A e \in edges' : SoundEdge(S, e)
  <2>1. /\ \A m \in Node : S[superOf[m]] = S[m] /\ pts[m] \subseteq S[m]
        /\ \A C \in pending : \A k, m \in C : S[k] = S[m]
        /\ \A e \in edges : SoundEdge(S, e)
        /\ Below(S)
    BY <1>5, <1>15, OfSolution
  <2>2. \A e \in es : SoundEdge(S, e)
    BY <1>5, <1>8, <1>9, <1>15, <2>1, ConstraintInserted
  <2>3. \A a \in AddedBy(seen) : SoundEdge(S, a)
    BY <1>11, <1>12, <1>15, <2>1, <2>2
  <2>4. QED
    BY <1>2, <1>13, <2>1, <2>2, <2>3
<1>16. QED
  BY <1>2, <1>5, <1>6, <1>7, <1>14, <1>15, InvFacts, Kept

\* solve() begins with the edges of the constraints and nothing else.
LEMMA InitStep ==
  ASSUME Init
  PROVE  Inv
<1>1. PICK p \in Programs :
        /\ body = p.body
        /\ cons = p.cons
        /\ nodes = UNION {NodesOf(c) : c \in p.cons}
        /\ edges = {e \in {Edge(c) : c \in p.cons} : ~SelfCopy(e)}
  BY DEF Init
<1>2. superOf = [n \in Node |-> n] /\ pts = NothingKnown /\ pending = {} /\ copyWork = nodes
  BY DEF Init
<1>3. ProgramInv
  BY <1>1, ProgramsAssumption DEF ProgramInv, Known
<1>4. WorkInv
  <2>1. \A c \in cons : NodesOf(c) \subseteq Node
    BY <1>3, NodesInNode DEF ProgramInv, Constraint
  <2>2. QED
    BY <1>1, <1>2, <2>1 DEF WorkInv
<1>5. GoodSuper
  BY <1>2 DEF GoodSuper
<1>6. cons \in SUBSET Known /\ cons \subseteq Constraint /\ WellFormed(Known)
  BY <1>3 DEF ProgramInv, Known, AllConstraints
<1>7. \A e \in edges : \E c \in cons : e = Edge(c)
  BY <1>1
<1>8. GraphInv
  <2>1. pts \in [Node -> SUBSET Obj]
    BY <1>2 DEF NothingKnown
  <2>2. \A e \in edges : GoodEdge(e)
    BY <1>5, <1>6, <1>7, ConstraintInserted
  <2>3. QED
    BY <1>5, <2>1, <2>2 DEF GraphInv
<1>9. PendingInv
  BY <1>2 DEF PendingInv
<1>10. SolutionInv
  <2> SUFFICES ASSUME NEW S \in Assignments, Exact(S), IsSolution(S, cons)
               PROVE  Below(S) /\ SameInComponents(S) /\ \A e \in edges : SoundEdge(S, e)
    BY DEF SolutionInv
  <2>1. Below(S)
    BY <1>2 DEF Below, IsSolution
  <2>2. SameInComponents(S)
    BY <1>2 DEF SameInComponents
  <2>3. \A e \in edges : SoundEdge(S, e)
    BY <1>5, <1>6, <1>7, <2>1, ConstraintInserted DEF Below
  <2>4. QED
    BY <2>1, <2>2, <2>3
<1>11. QED
  BY <1>3, <1>4, <1>8, <1>9, <1>10 DEF Inv

\* Steps that change nothing the invariant speaks of.
LEMMA Idle ==
  ASSUME Inv, UNCHANGED <<nodes, edges, superOf, pts, body, cons, pending, copyWork>>
  PROVE  Inv'
<1>1. ASSUME NEW S \in Assignments, Exact(S), IsSolution(S, cons')
      PROVE  /\ \A m \in Node : S[superOf'[m]] = S[m] /\ pts'[m] \subseteq S[m]
             /\ \A C \in pending' : \A k, m \in C : S[k] = S[m]
             /\ \A e \in edges' : SoundEdge(S, e)
  BY <1>1, OfSolution
<1>2. QED
  BY <1>1, InvFacts, Kept

\* No step of solve() leaves the invariant.
LEMMA InvInductive == Inv /\ [Next]_vars => Inv'
<1> SUFFICES ASSUME Inv, [Next]_vars PROVE Inv'
  OBVIOUS
<1>1. CASE FindComponents
  BY <1>1, FindComponentsStep
<1>2. CASE \E n \in nodes : ProcessNode(n)
  BY <1>2, ProcessNodeStep
<1>3. CASE \E C \in pending : \E front \in C : ProcessCycle(C, front)
  BY <1>3, ProcessCycleStep
<1>4. CASE ProcessComplexEdges
  BY <1>4, ProcessComplexEdgesStep
<1>5. CASE ResolveCalls
  BY <1>5, ResolveCallsStep
<1>6. CASE Finish
  BY <1>6, Idle DEF Finish, graphVars, workVars
<1>7. CASE Returned
  BY <1>7, Idle DEF Returned, vars, graphVars, workVars
<1>8. CASE UNCHANGED vars
  BY <1>8, Idle DEF vars, graphVars, workVars
<1>9. QED
  BY <1>1, <1>2, <1>3, <1>4, <1>5, <1>6, <1>7, <1>8 DEF Next

-----------------------------------------------------------------------------
(***************************************************************************)
(* Any solution can be made exact: what it has beyond an anonymous         *)
(* pointer's own object is demanded by no constraint.                      *)
(***************************************************************************)
Star(S) == [n \in Node |-> IF n \in Anons THEN NothingKnown[n] ELSE S[n]]

\* Cut down, an assignment is exact ...
LEMMA StarExact ==
  ASSUME NEW S \in Assignments
  PROVE  Exact(Star(S))
<1>1. \A o \in Obj : NothingKnown[Anon(o)] = {o}
  BY NodeFacts DEF NothingKnown
<1>2. Star(S) \in Assignments
  BY NodeFacts DEF Star, Assignments, NothingKnown
<1>3. \A o \in Obj : Star(S)[Anon(o)] = {o}
  BY <1>1, NodeFacts DEF Star
<1>4. QED
  BY <1>2, <1>3 DEF Exact

\* ... and still a solution, because no constraint mentions an anonymous pointer.
LEMMA StarSolution ==
  ASSUME WellFormed(Known), NEW cs \in SUBSET Known, cs \subseteq Constraint,
         NEW S \in Assignments, IsSolution(S, cs)
  PROVE  IsSolution(Star(S), cs)
<1> USE NodeFacts, ObjectsAssumption
<1>1. \A n \in Node \ Anons : Star(S)[n] = S[n]
  BY DEF Star
<1>2. \A n \in Node : NothingKnown[n] \subseteq Star(S)[n]
  BY DEF Star, IsSolution
<1>3. ASSUME NEW c \in cs, NEW n \in Node
      PROVE  Demand(Star(S), c, n) \subseteq Star(S)[n]
  <2>1. c.kind \in Kinds /\ c.src \in Ptr \cup Obj /\ c.dst \in Ptr \cup Obj
    BY DEF WellFormed, Constraint
  <2>2. c.src \notin Anons /\ c.dst \notin Anons /\ c.src \in Node /\ c.dst \in Node
    BY <2>1
  <2>3. Star(S)[c.src] = S[c.src] /\ Star(S)[c.dst] = S[c.dst]
    BY <1>1, <2>2
  <2>4. S[c.src] \subseteq Obj /\ S[c.dst] \subseteq Obj
    BY <2>2 DEF Assignments
  <2>5. \A o \in Obj : Star(S)[o] = S[o]
    BY <1>1
  <2>6. \A o \in Obj : Elem[o] \notin Anons
    OBVIOUS
  <2>7. c.kind = "special" =>
          c.dst \in Ptr /\ (Param[c.dst] # None => Star(S)[Param[c.dst]] = S[Param[c.dst]])
    BY <1>1 DEF WellFormed
  <2>8. Demand(S, c, n) \subseteq S[n]
    BY DEF IsSolution
  <2>9. Demand(Star(S), c, n) = {} \/
          (n \notin Anons /\ Demand(Star(S), c, n) = Demand(S, c, n))
    <3>1. CASE c.kind = "copy"
      BY <2>2, <2>3, <3>1 DEF Demand
    <3>2. CASE c.kind = "addr_of"
      BY <2>2, <3>2 DEF Demand
    <3>3. CASE c.kind = "load"
      BY <2>2, <2>3, <2>4, <2>5, <3>3 DEF Demand
    <3>4. CASE c.kind = "store"
      BY <2>2, <2>3, <2>4, <3>4 DEF Demand
    <3>5. CASE c.kind = "offset"
      BY <2>2, <2>3, <3>5 DEF Demand
    <3>6. CASE c.kind = "special"
      BY <2>2, <2>3, <2>4, <2>6, <2>7, <3>6 DEF Demand
    <3>7. QED
      BY <2>1, <3>1, <3>2, <3>3, <3>4, <3>5, <3>6 DEF Kinds
  <2>10. QED
    BY <1>1, <2>8, <2>9
<1>4. QED
  BY <1>2, <1>3 DEF IsSolution

(***************************************************************************)
(* What getPointsTo gives a client is in every solution of the constraints *)
(* of the program at hand: collapsing, the worklists and the call back     *)
(* invent no object.                                                       *)
(***************************************************************************)
NothingInvented ==
  \A S \in Assignments : IsSolution(S, cons) =>
    \A n \in Node : Sol[n] \subseteq S[n]

\* Of the invariant only the points-to sets of super nodes are left to a client.
LEMMA InvNothingInvented == Inv => NothingInvented
<1> SUFFICES ASSUME Inv, NEW S \in Assignments, IsSolution(S, cons), NEW n \in Node
             PROVE  Sol[n] \subseteq S[n]
  BY DEF NothingInvented
<1>1. cons \in SUBSET Known /\ cons \subseteq Constraint /\ WellFormed(Known)
  BY InvFacts DEF Inv, ProgramInv
<1>2. Star(S) \in Assignments /\ Exact(Star(S)) /\ IsSolution(Star(S), cons)
  BY <1>1, StarExact, StarSolution DEF Exact
<1>3. Below(Star(S))
  BY <1>2 DEF Inv, SolutionInv
<1>4. superOf[n] \in Node
  BY InvFacts
<1>5. pts[superOf[n]] \subseteq Star(S)[superOf[n]] /\ Star(S)[superOf[n]] = Star(S)[n]
  BY <1>3, <1>4 DEF Below
<1>6. Star(S)[n] \subseteq S[n]
  BY DEF Star, IsSolution
<1>7. QED
  BY <1>5, <1>6 DEF Sol

\* For every program: whatever the order of the components, of the changed
\* nodes and of the resolved calls, a client of the solver sees an object in
\* a points-to set only if every solution of the constraints has it there.
THEOREM NothingIsInvented == Spec => []NothingInvented
<1>1. Init => Inv
  BY InitStep
<1>2. Inv /\ [Next]_vars => Inv'
  BY InvInductive
<1>3. Inv => NothingInvented
  BY InvNothingInvented
<1>4. QED
  BY <1>1, <1>2, <1>3, PTL DEF Spec

-----------------------------------------------------------------------------
(***************************************************************************)
(* Proofs about the solver, for every program: the types of its state.     *)
(* They rest on the shape of the constraint graph: every edge ends at      *)
(* nodes that exist and were not collapsed, an object comes with its       *)
(* anonymous pointer and its element, and what a points-to set, a          *)
(* worklist or a component mentions was created before.                    *)
(***************************************************************************)
(***************************************************************************)
(* The shape of the graph.  Nodes that were collapsed have no edges, and   *)
(* nothing leads out of the nodes created so far: no edge, no super node,  *)
(* no object pointed to.                                                   *)
(***************************************************************************)
Closed(N) == \A o \in Obj : o \in N \/ Anon(o) \in N => ObjectNodes(o) \subseteq N

SuperInv ==
  /\ \A n \in Node : superOf[superOf[n]] = superOf[n]
  /\ \A n \in Node : IF n \in nodes THEN superOf[n] \in nodes ELSE superOf[n] = n

\* An edge whose ends, and the value it pushes, are in N.
EdgeWithin(e, N) ==
  /\ e.kind # "addr_of" /\ ~SelfCopy(e)
  /\ e.src \in N /\ e.dst \in N
  /\ e.kind = "special" /\ Param[e.dst] # None => Param[e.dst] \in N

EdgeInv ==
  \A e \in edges : /\ EdgeWithin(e, nodes)
                    /\ superOf[e.src] = e.src /\ superOf[e.dst] = e.dst

PtsInv ==
  /\ \A n \in Node : n \notin nodes => pts[n] = NothingKnown[n]
  /\ \A n \in nodes : pts[n] \subseteq nodes
  /\ \A n \in Node : NothingKnown[n] \subseteq pts[superOf[n]]

ComponentInv ==
  /\ \A C \in pending : C # {} /\ \A n \in C : n \in nodes /\ superOf[n] = n
  /\ \A C, D \in pending : C \cap D # {} => C = D

ListInv ==
  /\ phase \in {"round", "copy", "resolve", "done"}
  /\ copyWork \subseteq nodes /\ lsWork \subseteq nodes
  /\ target \subseteq nodes /\ updatedFunPtrs \subseteq nodes
  /\ required \subseteq [kind : {"copy"}, src : Node, dst : Node]
  /\ resolved \subseteq Site \X Func
  /\ handled \in [Ptr -> SUBSET Obj]
  /\ phase # "copy" => pending = {}
  /\ phase \in {"resolve", "done"} => copyWork = {} /\ lsWork = {}

\* The constraints of a push_back come together, those of a constant global
\* with the program.
BodyInv ==
  \A t \in Site \X Func :
    LoadsWhatItPushes(body[t]) /\ \A c \in body[t] : c.dst \notin Immutable

Shape ==
  Inv /\ SuperInv /\ EdgeInv /\ Closed(nodes) /\ PtsInv /\ ComponentInv /\ ListInv /\ BodyInv

-----------------------------------------------------------------------------
(***************************************************************************)
(* Nodes.                                                                  *)
(***************************************************************************)
\* The objects that come with an object bring nothing else.
LEMMA ObjectNodesClosed ==
  ASSUME NEW o \in Obj
  PROVE  /\ Closed(ObjectNodes(o))
         /\ o \in ObjectNodes(o) /\ Anon(o) \in ObjectNodes(o)
         /\ Elem[o] \in Obj => Elem[o] \in ObjectNodes(o) /\ Anon(Elem[o]) \in ObjectNodes(o)
<1>1. ASSUME NEW u \in Obj, u \in ObjectNodes(o) \/ Anon(u) \in ObjectNodes(o)
      PROVE  ObjectNodes(u) \subseteq ObjectNodes(o)
  <2>1. u = o \/ u = Elem[o]
    BY <1>1, NodeFacts, ObjectsAssumption DEF ObjectNodes
  <2>2. CASE u = Elem[o]
    <3>1. Elem[u] \notin Obj
      BY <2>2, NodeFacts, ObjectsAssumption
    <3>2. QED
      BY <2>2, <3>1 DEF ObjectNodes
  <2>3. QED
    BY <2>1, <2>2
<1>2. QED
  BY <1>1 DEF Closed, ObjectNodes

LEMMA ClosedUnion ==
  ASSUME NEW M, NEW N, Closed(M), Closed(N)
  PROVE  Closed(M \cup N)
BY DEF Closed

LEMMA ClosedUnions ==
  ASSUME NEW Ns, \A N \in Ns : Closed(N)
  PROVE  Closed(UNION Ns)
BY DEF Closed

\* addCGNode for the ends of a constraint.
LEMMA NodesOfClosed ==
  ASSUME NEW c, c.src \in Ptr \cup Obj, c.dst \in Ptr \cup Obj
  PROVE  /\ Closed(NodesOf(c))
         /\ c.src \in NodesOf(c) /\ c.dst \in NodesOf(c)
         /\ \A o \in {c.src, c.dst} \cap Obj : Anon(o) \in NodesOf(c)
<1> DEFINE objs == {ObjectNodes(o) : o \in {c.src, c.dst} \cap Obj}
<1>1. Closed(UNION objs)
  BY ObjectNodesClosed, ClosedUnions
<1>2. \A o \in {c.src, c.dst} \cap Obj : o \in UNION objs /\ Anon(o) \in UNION objs
  BY ObjectNodesClosed
<1>3. NodesOf(c) = {c.src, c.dst} \cup UNION objs
  BY DEF NodesOf
<1>4. ASSUME NEW o \in Obj, o \in NodesOf(c) \/ Anon(o) \in NodesOf(c)
      PROVE  ObjectNodes(o) \subseteq NodesOf(c)
  <2>1. Anon(o) \notin {c.src, c.dst}
    BY NodeFacts
  <2>2. o \in UNION objs \/ Anon(o) \in UNION objs
    BY <1>2, <1>3, <1>4, <2>1
  <2>3. QED
    BY <1>1, <1>3, <2>2 DEF Closed
<1>5. QED
  BY <1>2, <1>3, <1>4 DEF Closed

\* The fields an offset edge creates.
LEMMA FieldsOfClosed ==
  ASSUME NEW es
  PROVE  /\ Closed(FieldsOf(es))
         /\ \A e \in es : e.kind = "offset" =>
              \A f \in FieldObjs(e, Done(e)) : Anon(f) \in FieldsOf(es)
<1> DEFINE fields(e) == {ObjectNodes(f) : f \in FieldObjs(e, Done(e))}
           offsets == {e \in es : e.kind = "offset"}
<1>1. \A e \in offsets : Closed(UNION fields(e))
  <2> SUFFICES ASSUME NEW e \in offsets PROVE Closed(UNION fields(e))
    OBVIOUS
  <2>1. \A N \in fields(e) : Closed(N)
    BY ObjectNodesClosed DEF FieldObjs
  <2>2. QED
    BY <2>1, ClosedUnions
<1>2. FieldsOf(es) = UNION {UNION fields(e) : e \in offsets}
  BY DEF FieldsOf
<1>3. Closed(FieldsOf(es))
  BY <1>1, <1>2, ClosedUnions
<1>4. ASSUME NEW e \in es, e.kind = "offset", NEW f \in FieldObjs(e, Done(e))
      PROVE  Anon(f) \in FieldsOf(es)
  <2>1. Anon(f) \in ObjectNodes(f) /\ ObjectNodes(f) \in fields(e) /\ e \in offsets
    BY <1>4, ObjectNodesClosed DEF FieldObjs
  <2>2. QED
    BY <1>2, <2>1
<1>5. QED
  BY <1>3, <1>4

-----------------------------------------------------------------------------
(***************************************************************************)
(* Reach and the components.                                               *)
(***************************************************************************)
LEMMA ReachStep ==
  ASSUME NEW n, NEW e \in CopyEdges, e.src \in Reach(n)
  PROVE  e.dst \in Reach(n)
<1> DEFINE ends == {d.dst : d \in CopyEdges}
           closed == {S \in SUBSET ends : \A d \in CopyEdges :
                        d.src \in S \cup {n} => d.dst \in S}
<1>1. Reach(n) = {n} \cup {m \in ends : \A S \in closed : m \in S}
  BY DEF Reach
<1>2. \A S \in closed : e.src \in S \cup {n}
  BY <1>1
<1>3. \A S \in closed : e.dst \in S
  BY <1>2
<1>4. QED
  BY <1>1, <1>3

LEMMA ReachTransitive ==
  ASSUME NEW a, NEW b \in Reach(a), NEW c \in Reach(b)
  PROVE  c \in Reach(a)
<1> DEFINE ends == {d.dst : d \in CopyEdges}
           T == {d \in ends : d \in Reach(a)}
<1>1. T \in SUBSET ends
  OBVIOUS
<1>2. \A e \in CopyEdges : e.src \in T \cup {b} => e.dst \in T
  BY ReachStep
<1>3. c = b \/ c \in T
  BY <1>1, <1>2 DEF Reach
<1>4. QED
  BY <1>3

\* The components are disjoint, hold the roots that have successors, and with a
\* node its successors that have successors.
LEMMA ComponentsPartition ==
  ASSUME NEW roots
  PROVE  /\ \A C \in Components(roots) : C # {} /\ \A n \in C : \E e \in CopyEdges : n = e.src
         /\ \A C, D \in Components(roots) : C \cap D # {} => C = D
         /\ \A e \in CopyEdges : e.src \in roots => e.src \in UNION Components(roots)
         /\ \A e, d \in CopyEdges : e.src \in UNION Components(roots) /\ e.dst = d.src
              => d.src \in UNION Components(roots)
<1> DEFINE sources == {e.src : e \in CopyEdges}
           reach == [n \in sources \cup roots |-> Reach(n)]
           visited == (UNION {reach[n] : n \in roots}) \cap sources
           component(n) == {m \in visited : m \in Reach(n) /\ n \in Reach(m)}
<1>1. Components(roots) = {component(n) : n \in visited}
  BY DEF Components
<1>2. \A n : n \in Reach(n)
  BY DEF Reach
<1>3. \A n \in visited : n \in component(n)
  BY <1>2
<1>4. UNION Components(roots) = visited
  BY <1>1, <1>3
<1>5. ASSUME NEW k \in visited, NEW l \in visited, NEW n \in component(k), n \in component(l)
      PROVE  component(k) \subseteq component(l)
  <2> SUFFICES ASSUME NEW m \in component(k) PROVE m \in component(l)
    OBVIOUS
  <2>1. m \in Reach(l)
    <3>1. k \in Reach(l)
      BY <1>5, ReachTransitive
    <3>2. QED
      BY <3>1, ReachTransitive
  <2>2. l \in Reach(m)
    <3>1. l \in Reach(k)
      BY <1>5, ReachTransitive
    <3>2. QED
      BY <3>1, ReachTransitive
  <2>3. QED
    BY <2>1, <2>2
<1>6. \A C, D \in Components(roots) : C \cap D # {} => C = D
  <2> SUFFICES ASSUME NEW C \in Components(roots), NEW D \in Components(roots),
                      NEW n \in C, n \in D
               PROVE  C = D
    OBVIOUS
  <2>1. PICK k \in visited : C = component(k)
    BY <1>1
  <2>2. PICK l \in visited : D = component(l)
    BY <1>1
  <2>3. component(k) \subseteq component(l) /\ component(l) \subseteq component(k)
    BY <1>5, <2>1, <2>2
  <2>4. QED
    BY <2>1, <2>2, <2>3
<1>7. \A C \in Components(roots) : C # {} /\ \A n \in C : \E e \in CopyEdges : n = e.src
  BY <1>1, <1>3
<1>8. \A e \in CopyEdges : e.src \in roots => e.src \in visited
  BY <1>2
<1>9. ASSUME NEW e \in CopyEdges, NEW d \in CopyEdges, e.src \in visited, e.dst = d.src
      PROVE  d.src \in visited
  <2>1. PICK r \in roots : e.src \in Reach(r)
    BY <1>9
  <2>2. e.dst \in Reach(r)
    BY <2>1, ReachStep
  <2>3. QED
    BY <1>9, <2>2
<1>10. QED
  BY <1>4, <1>6, <1>7, <1>8, <1>9

-----------------------------------------------------------------------------
(***************************************************************************)
(* The steps keep the shape.                                               *)
(***************************************************************************)
LEMMA ShapeFacts ==
  ASSUME Shape
  PROVE  /\ nodes \subseteq Node /\ superOf \in [Node -> Node] /\ GoodSuper
         /\ pts \in [Node -> SUBSET Obj]
         /\ \A e \in edges : GoodEdge(e) /\ e \in EdgeType
         /\ \A n \in Single : superOf[n] = n /\ n \in Node
         /\ WellFormed(Known) /\ cons \subseteq Known /\ Known \subseteq Constraint
         /\ GraphInv
<1>1. Known \subseteq Constraint
  <2>1. \A t \in Site \X Func : body[t] \subseteq Constraint
    BY DEF Shape, Inv, ProgramInv
  <2>2. QED
    BY <2>1 DEF Shape, Inv, ProgramInv, Known, AllConstraints
<1>2. \A n \in Single : n \in Node
  BY InvFacts, ResultFacts DEF Shape
<1>3. \A n \in Single : superOf[n] = n
  BY <1>2, InvFacts, SuperOfGood DEF Shape
<1>4. QED
  BY <1>1, <1>2, <1>3, InvFacts DEF Shape, GoodEdge, Inv

LEMMA FindComponentsShape ==
  ASSUME Shape, FindComponents
  PROVE  Shape'
<1> DEFINE roots == {n \in copyWork : superOf[n] = n}
<1>1. /\ UNCHANGED <<graphVars, body, cons, workVars, handled, updatedFunPtrs, resolved>>
      /\ pending' = Components(roots) /\ phase' = "copy"
  BY DEF FindComponents
<1>2. Inv'
  BY FindComponentsStep DEF Shape
<1>3. ComponentInv'
  <2>1. \A e \in CopyEdges : e.src \in nodes /\ superOf[e.src] = e.src
    BY DEF Shape, EdgeInv, EdgeWithin, CopyEdges
  <2>2. QED
    <3>1. PICK rs : pending' = Components(rs)
      BY <1>1
    <3>2. /\ \A C \in Components(rs) : C # {} /\ \A n \in C : \E e \in CopyEdges : n = e.src
          /\ \A C, D \in Components(rs) : C \cap D # {} => C = D
      BY ComponentsPartition
    <3>3. nodes' = nodes /\ superOf' = superOf
      BY <1>1 DEF graphVars
    <3>4. \A C \in pending' : C # {} /\ \A n \in C : n \in nodes' /\ superOf'[n] = n
      BY <2>1, <3>1, <3>2, <3>3
    <3>5. QED
      BY <3>1, <3>2, <3>4 DEF ComponentInv
<1>4. SuperInv' /\ EdgeInv' /\ Closed(nodes)' /\ PtsInv' /\ BodyInv'
  BY <1>1 DEF Shape, SuperInv, EdgeInv, EdgeWithin, SelfCopy, Closed, PtsInv, BodyInv, graphVars
<1>5. ListInv'
  BY <1>1 DEF Shape, ListInv, graphVars, workVars
<1>6. QED
  BY <1>2, <1>3, <1>4, <1>5 DEF Shape

LEMMA ProcessNodeShape ==
  ASSUME Shape, NEW n \in nodes, ProcessNode(n)
  PROVE  Shape'
<1> DEFINE ds == {d \in CopySuccs(n) : ShouldProcessCopy(n, d)}
           changed == Changed(n, ds, pts)
<1>1. /\ UNCHANGED <<nodes, edges, superOf, body, cons, phase, copyWork, target,
                     required, handled, resolved>>
      /\ pending' = pending \ {{n}} /\ phase = "copy"
      /\ pts' = Propagated(n, ds, pts)
      /\ lsWork' = lsWork \cup changed
      /\ updatedFunPtrs' = updatedFunPtrs \cup FunctionPtrs(changed, superOf)
  BY DEF ProcessNode
<1>2. Inv'
  BY ProcessNodeStep DEF Shape
<1>3. ds \in SUBSET nodes
  BY DEF CopySuccs, CopyEdges, Shape, EdgeInv, EdgeWithin
<1>4. PtsInv'
  <2>1. /\ \A m \in Node : m \notin nodes => pts'[m] = NothingKnown[m]
        /\ \A m \in nodes : pts'[m] \subseteq nodes
        /\ \A m \in Node : pts[m] \subseteq pts'[m]
    <3>1. nodes \subseteq Node /\ pts \in [Node -> SUBSET Obj]
      BY ShapeFacts
    <3>2. (\A m \in Node : m \notin nodes => pts[m] = NothingKnown[m])
          /\ \A m \in nodes : pts[m] \subseteq nodes
      BY DEF Shape, PtsInv
    <3>3. PICK d0 \in SUBSET nodes : pts' = Propagated(n, d0, pts)
      BY <1>1, <1>3
    <3>4. QED
      BY <3>1, <3>2, <3>3 DEF Propagated
  <2>2. \A m \in Node : superOf[m] \in Node
    BY ShapeFacts
  <2>3. QED
    BY <1>1, <2>1, <2>2 DEF Shape, PtsInv
<1>5. ComponentInv'
  BY <1>1 DEF Shape, ComponentInv
<1>6. SuperInv' /\ EdgeInv' /\ Closed(nodes)' /\ BodyInv'
  BY <1>1 DEF Shape, SuperInv, EdgeInv, EdgeWithin, SelfCopy, Closed, BodyInv
<1>7. ListInv'
  BY <1>1, <1>3 DEF Shape, ListInv, Changed, FunctionPtrs
<1>8. QED
  BY <1>2, <1>4, <1>5, <1>6, <1>7 DEF Shape

\* Where collapsing C into front moves a node.
To(C, front, n) == IF n \in C THEN front ELSE n

\* The ends of an edge after collapsing.
Moved(C, front, e) ==
  [kind |-> e.kind, src |-> To(C, front, e.src), dst |-> To(C, front, e.dst)]

\* What processCopySCC does to a cycle.
LEMMA CycleFacts ==
  ASSUME Shape, NEW C \in pending, NEW front \in C, ProcessCycle(C, front)
  PROVE  /\ UNCHANGED <<nodes, body, cons, phase, copyWork, required, handled, resolved>>
         /\ phase = "copy" /\ pending' = pending \ {C} /\ IsNext(C)
         /\ C \subseteq nodes /\ front \in nodes /\ C \cap Single = {}
         /\ \A n \in C : superOf[n] = n
         /\ superOf' \in [Node -> Node] /\ pts' \in [Node -> SUBSET Obj]
         /\ \A n \in Node : superOf'[n] = To(C, front, superOf[n])
         /\ \A e \in edges : Moved(C, front, e) \in edges' \/ SelfCopy(Moved(C, front, e))
         /\ \A a \in edges' : ~SelfCopy(a) /\ \E e \in edges : a = Moved(C, front, e)
         /\ \A n \in Node : pts[n] \subseteq pts'[To(C, front, n)]
<1> DEFINE merged == MergedPts(C, front)
           ds == {e.dst : e \in {e \in CollapsedEdges(C, front) :
                                   e.kind = "copy" /\ e.src = front}}
<1>1. /\ UNCHANGED <<nodes, body, cons, phase, copyWork, required, handled, resolved>>
      /\ phase = "copy" /\ pending' = pending \ {C} /\ IsNext(C)
      /\ edges' = CollapsedEdges(C, front)
      /\ superOf' = CollapsedSuper(C, front)
      /\ pts' = Propagated(front, ds, merged)
      /\ Cardinality(C) > 1
  BY DEF ProcessCycle
<1>2. C \subseteq nodes /\ front \in nodes /\ (\A n \in C : superOf[n] = n) /\ nodes \subseteq Node
  BY ShapeFacts DEF Shape, ComponentInv
<1>3. C \cap Single = {}
  <2> SUFFICES ASSUME NEW n \in C \cap Single PROVE FALSE
    OBVIOUS
  <2>1. C = {n}
    BY InvFacts DEF Shape
  <2>2. Cardinality({n}) = 1
    BY FS_Singleton
  <2>3. Cardinality(C) > 1
    BY <1>1
  <2>4. QED
    BY <2>1, <2>2, <2>3
<1>4. superOf' \in [Node -> Node] /\ \A n \in Node : superOf'[n] = To(C, front, superOf[n])
  BY <1>1, <1>2, ShapeFacts DEF CollapsedSuper, To
<1>5. \A e \in edges : e = [kind |-> e.kind, src |-> e.src, dst |-> e.dst]
  BY ShapeFacts DEF EdgeType
<1>6. edges' = {e \in {Moved(C, front, e) : e \in edges} : ~SelfCopy(e)}
  <2> DEFINE moved(e) == [e EXCEPT !.src = To(C, front, e.src), !.dst = To(C, front, e.dst)]
  <2>1. ASSUME NEW e \in edges, NEW a, a = moved(e)
        PROVE  a = Moved(C, front, e)
    <3>1. e = [kind |-> e.kind, src |-> e.src, dst |-> e.dst]
      BY <1>5
    <3>2. a = [kind |-> e.kind, src |-> To(C, front, e.src), dst |-> To(C, front, e.dst)]
      BY <2>1, <3>1
    <3>3. QED
      BY <3>2 DEF Moved
  <2>2. edges' = {e \in {moved(e) : e \in edges} : ~SelfCopy(e)}
    BY <1>1 DEF CollapsedEdges, To
  <2> HIDE DEF moved
  <2>3. \A e \in edges : moved(e) = Moved(C, front, e)
    BY <2>1
  <2>4. QED
    BY <2>2, <2>3
<1>7. \A a \in edges' : ~SelfCopy(a) /\ \E e \in edges : a = Moved(C, front, e)
  BY <1>6
<1>8. \A e \in edges : Moved(C, front, e) \in edges' \/ SelfCopy(Moved(C, front, e))
  BY <1>6
<1>9. merged \in [Node -> SUBSET Obj]
  BY <1>2, ShapeFacts DEF MergedPts
<1>10. \A n \in Node : pts[n] \subseteq merged[To(C, front, n)]
  BY <1>2 DEF MergedPts, To
<1>11. pts' \in [Node -> SUBSET Obj] /\ \A n \in Node : merged[n] \subseteq pts'[n]
  BY <1>1, <1>2, <1>9 DEF Propagated
<1>12. \A n \in Node : pts[n] \subseteq pts'[To(C, front, n)]
  BY <1>2, <1>10, <1>11 DEF To
<1>13. QED
  BY <1>1, <1>2, <1>3, <1>4, <1>7, <1>8, <1>11, <1>12

LEMMA ProcessCycleShape ==
  ASSUME Shape, NEW C \in pending, NEW front \in C, ProcessCycle(C, front)
  PROVE  Shape'
<1> DEFINE merged == MergedPts(C, front)
           ds == {e.dst : e \in {e \in edges' : e.kind = "copy" /\ e.src = front}}
           changed == Changed(front, ds, merged)
<1>1. /\ pts' = Propagated(front, ds, merged)
      /\ target' \subseteq target \cup {front}
      /\ lsWork' = lsWork \cup CycleChanged(front, changed)
      /\ updatedFunPtrs' = updatedFunPtrs \cup FunctionPtrs({front} \cup changed, superOf')
  BY DEF ProcessCycle
<1>2. nodes \subseteq Node /\ front \in Node
  BY CycleFacts, ShapeFacts
<1>3. Inv'
  BY ProcessCycleStep DEF Shape
<1>4. SuperInv'
  <2>1. \A n \in Node : superOf[n] \in Node
    BY ShapeFacts
  <2>2. \A n \in Node : superOf'[superOf'[n]] = superOf'[n]
    BY <1>2, <2>1, CycleFacts DEF Shape, SuperInv, To
  <2>3. \A n \in Node : IF n \in nodes' THEN superOf'[n] \in nodes' ELSE superOf'[n] = n
    BY CycleFacts DEF Shape, SuperInv, To
  <2>4. QED
    BY <2>2, <2>3 DEF SuperInv
<1>5. EdgeInv'
  <2> SUFFICES ASSUME NEW a \in edges'
               PROVE  EdgeWithin(a, nodes)' /\ superOf'[a.src] = a.src /\ superOf'[a.dst] = a.dst
    BY DEF EdgeInv
  <2>1. PICK e \in edges : a = Moved(C, front, e)
    BY CycleFacts
  <2>2. /\ EdgeWithin(e, nodes) /\ superOf[e.src] = e.src /\ superOf[e.dst] = e.dst
    BY DEF Shape, EdgeInv
  <2>3. a.kind = e.kind /\ a.src = To(C, front, e.src) /\ a.dst = To(C, front, e.dst)
    BY <2>1 DEF Moved
  <2>4. e.kind = "special" => a.dst = e.dst
    BY <2>3, ShapeFacts, CycleFacts DEF GoodEdge, Single, To
  <2>5. EdgeWithin(a, nodes)'
    BY <2>2, <2>3, <2>4, CycleFacts DEF EdgeWithin, To, SelfCopy
  <2>6. superOf'[a.src] = a.src /\ superOf'[a.dst] = a.dst
    <3>1. e.src \in Node /\ e.dst \in Node
      BY <1>2, <2>2 DEF EdgeWithin
    <3>2. QED
      BY <1>2, <2>2, <2>3, <3>1, CycleFacts DEF To
  <2>7. QED
    BY <2>5, <2>6
<1>6. ds \in SUBSET nodes
  BY <1>5, CycleFacts DEF EdgeInv, EdgeWithin
<1>7. PtsInv'
  <2>1. /\ \A n \in Node : n \notin nodes => pts[n] = NothingKnown[n]
        /\ \A n \in nodes : pts[n] \subseteq nodes
        /\ \A n \in Node : NothingKnown[n] \subseteq pts[superOf[n]]
    BY DEF Shape, PtsInv
  <2>2. PICK d0 \in SUBSET nodes : pts' = Propagated(front, d0, merged)
    BY <1>1, <1>6
  <2>3. C \subseteq nodes /\ front \in nodes /\ nodes' = nodes
    BY CycleFacts
  <2>4. \A n \in Node : n \notin nodes => merged[n] = NothingKnown[n]
    BY <2>1, <2>3 DEF MergedPts
  <2>5. \A n \in nodes : merged[n] \subseteq nodes
    BY <1>2, <2>1, <2>3 DEF MergedPts
  <2>6. \A n \in Node : n \notin nodes' => pts'[n] = NothingKnown[n]
    BY <2>2, <2>3, <2>4 DEF Propagated
  <2>7. \A n \in nodes' : pts'[n] \subseteq nodes'
    BY <1>2, <2>2, <2>3, <2>5 DEF Propagated
  <2>8. \A n \in Node : superOf[n] \in Node
    BY ShapeFacts
  <2>9. \A n \in Node : NothingKnown[n] \subseteq pts'[superOf'[n]]
    BY <2>1, <2>8, CycleFacts
  <2>10. QED
    BY <2>6, <2>7, <2>9 DEF PtsInv
<1>8. ComponentInv'
  <2>1. /\ \A D \in pending : D # {} /\ \A n \in D : n \in nodes /\ superOf[n] = n
        /\ \A D, E \in pending : D \cap E # {} => D = E
    BY DEF Shape, ComponentInv
  <2>2. pending' = pending \ {C} /\ nodes' = nodes
    BY CycleFacts
  <2>3. \A D \in pending' : \A n \in D : n \notin C
    BY <2>1, <2>2
  <2>4. \A D \in pending' : D # {} /\ \A n \in D : n \in nodes' /\ superOf'[n] = n
    BY <1>2, <2>1, <2>2, <2>3, CycleFacts DEF To
  <2>5. QED
    BY <2>1, <2>2, <2>4 DEF ComponentInv
<1>9. ListInv'
  <2>1. lsWork' \subseteq nodes
    BY <1>1, <1>6, CycleFacts DEF Shape, ListInv, CycleChanged, Changed
  <2>2. target' \subseteq nodes
    BY <1>1, CycleFacts DEF Shape, ListInv
  <2>3. updatedFunPtrs' \subseteq nodes
    BY <1>1, <1>6, CycleFacts DEF Shape, ListInv, Changed, FunctionPtrs
  <2>4. QED
    BY <2>1, <2>2, <2>3, CycleFacts DEF Shape, ListInv
<1>10. Closed(nodes)' /\ BodyInv'
  BY CycleFacts DEF Shape, Closed, BodyInv
<1>11. QED
  BY <1>3, <1>4, <1>5, <1>7, <1>8, <1>9, <1>10 DEF Shape

(***************************************************************************)
(* New nodes and edges.                                                    *)
(***************************************************************************)
\* Nodes are created with nothing but themselves.
LEMMA NodesGrow ==
  ASSUME Shape, UNCHANGED <<superOf, pts>>, nodes \subseteq nodes', nodes' \subseteq Node,
         Closed(nodes')
  PROVE  SuperInv' /\ PtsInv' /\ (\A n \in nodes' : superOf[n] \in nodes')
<1>1. SuperInv' /\ (\A n \in nodes' : superOf[n] \in nodes')
  BY DEF Shape, SuperInv
<1>2. ASSUME NEW n \in nodes', NEW o \in pts'[n]
      PROVE  o \in nodes'
  <2>1. CASE n \in nodes
    BY <1>2, <2>1 DEF Shape, PtsInv
  <2>2. CASE n \notin nodes
    <3>1. n \in Node /\ pts[n] = NothingKnown[n]
      BY <2>2 DEF Shape, PtsInv
    <3>2. o \in Obj /\ n = Anon(o)
      BY <1>2, <3>1 DEF NothingKnown
    <3>3. QED
      BY <1>2, <3>2, ObjectNodesClosed DEF Closed
  <2>3. QED
    BY <2>1, <2>2
<1>3. PtsInv'
  BY <1>2 DEF Shape, PtsInv
<1>4. QED
  BY <1>1, <1>3

\* What an edge adds is between nodes of N when the edge is ...
LEMMA ConsequencesWithin ==
  ASSUME Shape, NEW N, nodes \subseteq N,
         NEW e, GoodEdge(e), EdgeWithin(e, N), Watched(e) \in nodes,
         NEW done, \A f \in FieldObjs(e, done) : e.kind = "offset" => Anon(f) \in N,
         NEW c \in Consequences(e, done)
  PROVE  c.kind = "copy" /\ c.src \in N /\ c.dst \in N
<1> USE NodeFacts
<1>1. e.kind \in Kinds /\ e.src \in Node /\ e.dst \in Node /\ e.src \in N /\ e.dst \in N
  BY DEF GoodEdge, EdgeType, EdgeWithin
<1>2. \A n \in nodes : superOf[n] \in nodes /\ \A o \in pts[n] : o \in nodes /\ o \in Obj
  <2>1. nodes \subseteq Node /\ pts \in [Node -> SUBSET Obj]
    BY ShapeFacts
  <2>2. QED
    BY <2>1 DEF Shape, SuperInv, PtsInv
<1>3. CASE e.kind = "load"
  <2>1. PICK o \in pts[e.src] : c = Copy(superOf[o], e.dst)
    BY <1>3 DEF Consequences, LoadCopies
  <2>2. o \in nodes /\ superOf[o] \in nodes
    BY <1>2, <1>3, <2>1 DEF Watched
  <2>3. QED
    BY <1>1, <2>1, <2>2 DEF Copy
<1>4. CASE e.kind = "store"
  <2>1. PICK o \in pts[e.dst] : c = Copy(e.src, superOf[o])
    BY <1>4 DEF Consequences, StoreCopies
  <2>2. o \in nodes /\ superOf[o] \in nodes
    BY <1>2, <1>4, <2>1 DEF Watched
  <2>3. QED
    BY <1>1, <2>1, <2>2 DEF Copy
<1>5. CASE e.kind = "offset"
  <2>1. PICK f \in FieldObjs(e, done) : c = Copy(Anon(f), e.dst)
    BY <1>5 DEF Consequences, OffsetCopies
  <2>2. f \in FieldObjs(e, done) /\ Anon(f) \in N
    BY <1>5, <2>1
  <2>3. QED
    BY <1>1, <1>5, <2>1, <2>2 DEF Copy
<1>6. CASE e.kind = "special"
  <2>1. PICK o \in pts[e.src] :
          Elem[o] # None /\ c = IF Param[e.dst] = None THEN Copy(Anon(Elem[o]), e.dst)
                                                      ELSE Copy(Param[e.dst], Elem[o])
    BY <1>6 DEF Consequences, SpecialCopies
  <2>2. o \in nodes /\ o \in Obj /\ Elem[o] \in Obj
    BY <1>2, <1>6, <2>1, ObjectsAssumption DEF Watched
  <2>3. Elem[o] \in N /\ Anon(Elem[o]) \in N
    BY <2>2, ObjectNodesClosed DEF Shape, Closed
  <2>4. QED
    BY <1>1, <1>6, <2>1, <2>3 DEF Copy, EdgeWithin
<1>7. QED
  <2>1. e.kind \in {"load", "store", "offset", "special"}
    BY <1>1 DEF Consequences, Kinds
  <2>2. QED
    BY <1>3, <1>4, <1>5, <1>6, <2>1

\* ... and so are the copy edges a set of edges adds and records.
LEMMA AddedWithin ==
  ASSUME Shape, NEW N, nodes \subseteq N, N \subseteq Node, \A n \in N : superOf[n] \in N,
         NEW es, FieldsOf(es) \subseteq N,
         \A e \in es : GoodEdge(e) /\ EdgeWithin(e, N) /\ Watched(e) \in nodes
  PROVE  /\ \A a \in AddedBy(es) : /\ a.kind = "copy" /\ EdgeWithin(a, N)
                                   /\ superOf[a.src] = a.src /\ superOf[a.dst] = a.dst
         /\ \A a \in Recorded(es) : a = Copy(a.src, a.dst) /\ a.src \in N /\ a.dst \in N
<1>1. ASSUME NEW e \in es, NEW c \in Consequences(e, Done(e))
      PROVE  c.kind = "copy" /\ c.src \in N /\ c.dst \in N
  <2>1. \A f \in FieldObjs(e, Done(e)) : e.kind = "offset" => Anon(f) \in N
    BY FieldsOfClosed
  <2>2. QED
    BY <2>1, ConsequencesWithin
<1>2. ASSUME NEW a \in AddedBy(es)
      PROVE  /\ a = Copy(a.src, a.dst) /\ EdgeWithin(a, N)
             /\ superOf[a.src] = a.src /\ superOf[a.dst] = a.dst
  <2>1. PICK e \in es : a \in NewEdges(Consequences(e, Done(e)))
    BY DEF AddedBy
  <2>2. PICK c \in Consequences(e, Done(e)) : a = Edge(c) /\ ~SelfCopy(Edge(c))
    BY <2>1 DEF NewEdges, Insertable
  <2>3. c.kind = "copy" /\ c.src \in N /\ c.dst \in N /\ c.src \in Node /\ c.dst \in Node
    BY <1>1
  <2>4. a = [kind |-> "copy", src |-> superOf[c.src], dst |-> superOf[c.dst]]
    BY <2>2, <2>3 DEF Edge
  <2>5. superOf[superOf[c.src]] = superOf[c.src] /\ superOf[superOf[c.dst]] = superOf[c.dst]
    BY <2>3 DEF Shape, SuperInv
  <2>6. QED
    BY <2>2, <2>3, <2>4, <2>5 DEF EdgeWithin, Copy
<1>3. ASSUME NEW e \in es, e.kind = "offset", NEW a \in OffsetCopies(e, Done(e))
      PROVE  a = Copy(a.src, a.dst) /\ a.src \in N /\ a.dst \in N
  <2>1. a \in Consequences(e, Done(e))
    BY <1>3 DEF Consequences
  <2>2. a = Copy(a.src, a.dst)
    BY <1>3 DEF OffsetCopies, Copy
  <2>3. QED
    BY <1>1, <2>1, <2>2
<1>4. \A a \in Recorded(es) : a = Copy(a.src, a.dst) /\ a.src \in N /\ a.dst \in N
  BY <1>2, <1>3 DEF Recorded, EdgeWithin
<1>5. QED
  BY <1>2, <1>4 DEF Copy

LEMMA HandledType ==
  ASSUME Shape, NEW es, \A e \in es : e.src \in Node
  PROVE  /\ HandledBy(es) \in [Ptr -> SUBSET Obj]
         /\ \A n \in Ptr : handled[n] \subseteq HandledBy(es)[n]
<1>1. pts \in [Node -> SUBSET Obj] /\ handled \in [Ptr -> SUBSET Obj]
  BY ShapeFacts DEF Shape, ListInv
<1>2. QED
  BY <1>1 DEF HandledBy

LEMMA ProcessComplexEdgesShape ==
  ASSUME Shape, ProcessComplexEdges
  PROVE  Shape'
<1> DEFINE es == {e \in edges : e.kind # "copy" /\ Watched(e) \in lsWork}
<1>1. /\ UNCHANGED <<superOf, pts, body, cons, pending, updatedFunPtrs, resolved>>
      /\ phase = "copy" /\ pending = {}
      /\ edges' = edges \cup AddedBy(es)
      /\ nodes' = nodes \cup FieldsOf(es)
      /\ handled' = HandledBy(es)
      /\ Record(Recorded(es))
      /\ target' = {e.dst : e \in Recorded(es)} \cap nodes
      /\ lsWork' = {}
      /\ phase' = IF copyWork' = {} THEN "resolve" ELSE "round"
  BY DEF ProcessComplexEdges
<1>2. Inv'
  BY ProcessComplexEdgesStep DEF Shape
<1>3. nodes' \subseteq Node /\ nodes \subseteq nodes' /\ FieldsOf(es) \subseteq nodes'
  BY <1>1, ShapeFacts, FieldsInNode
<1>4. Closed(nodes')
  BY <1>1, FieldsOfClosed, ClosedUnion DEF Shape
<1>5. SuperInv' /\ PtsInv' /\ (\A n \in nodes' : superOf[n] \in nodes')
  BY <1>1, <1>3, <1>4, NodesGrow
<1>6. \A e \in edges : EdgeWithin(e, nodes') /\ superOf[e.src] = e.src /\ superOf[e.dst] = e.dst
  BY <1>3 DEF Shape, EdgeInv, EdgeWithin
<1>7. \A e \in es : GoodEdge(e) /\ EdgeWithin(e, nodes') /\ Watched(e) \in nodes
  BY <1>6, ShapeFacts DEF Shape, ListInv
<1>8. /\ \A a \in AddedBy(es) : /\ EdgeWithin(a, nodes')
                                /\ superOf[a.src] = a.src /\ superOf[a.dst] = a.dst
      /\ \A a \in Recorded(es) : a = Copy(a.src, a.dst) /\ a.src \in nodes' /\ a.dst \in nodes'
  <2>1. PICK fs : fs = es /\ FieldsOf(fs) \subseteq nodes'
    BY <1>3
  <2> HIDE DEF es
  <2>2. QED
    BY <1>3, <1>5, <1>7, <2>1, AddedWithin
<1>9. EdgeInv'
  <2>1. \A e \in edges' : EdgeWithin(e, nodes') /\ superOf[e.src] = e.src
                                               /\ superOf[e.dst] = e.dst
    BY <1>1, <1>6, <1>8
  <2>2. QED
    BY <1>1, <2>1 DEF EdgeInv, EdgeWithin, SelfCopy
<1>10. ComponentInv'
  BY <1>1 DEF ComponentInv
<1>11. ListInv'
  <2>1. handled' \in [Ptr -> SUBSET Obj]
    <3>1. \A e \in es : e.src \in Node
      BY ShapeFacts DEF EdgeType
    <3>2. QED
      BY <1>1, <3>1, HandledType
  <2>2. copyWork' \subseteq nodes' /\ required' = Recorded(es)
    BY <1>1, <1>3 DEF Record
  <2>3. required' \subseteq [kind : {"copy"}, src : Node, dst : Node]
    BY <1>3, <1>8, <2>2 DEF Copy
  <2>4. QED
    BY <1>1, <1>3, <2>1, <2>2, <2>3 DEF Shape, ListInv
<1>12. Closed(nodes)' /\ BodyInv'
  BY <1>1, <1>4 DEF Shape, Closed, BodyInv
<1>13. QED
  BY <1>2, <1>5, <1>9, <1>10, <1>11, <1>12 DEF Shape

\* The edges of constraints are between the nodes they come with.
LEMMA ConstraintsWithin ==
  ASSUME WellFormed(Known), GoodSuper, \A n \in Node : superOf[superOf[n]] = superOf[n],
         NEW N, N \subseteq Node, \A n \in N : superOf[n] \in N,
         NEW c \in Known, NodesOf(c) \subseteq N, ~SelfCopy(Edge(c)),
         c.kind = "special" /\ Param[c.dst] # None => Param[c.dst] \in N
  PROVE  /\ EdgeWithin(Edge(c), N)
         /\ superOf[Edge(c).src] = Edge(c).src /\ superOf[Edge(c).dst] = Edge(c).dst
<1> DEFINE from == IF c.kind = "addr_of" THEN Anon(c.src) ELSE c.src
<1>1. c.src \in Ptr \cup Obj /\ c.dst \in Ptr \cup Obj /\ (c.kind = "addr_of" => c.src \in Obj)
  BY DEF WellFormed
<1>2. from \in N /\ c.dst \in N
  BY <1>1, NodesOfClosed
<1>3. Edge(c) = [kind |-> IF c.kind = "addr_of" THEN "copy" ELSE c.kind,
                 src |-> superOf[from], dst |-> superOf[c.dst]]
  BY DEF Edge
<1>4. c.kind = "special" => superOf[c.dst] = c.dst
  BY <1>2, SuperOfGood DEF Results, Single
<1>5. EdgeWithin(Edge(c), N)
  BY <1>2, <1>3, <1>4 DEF EdgeWithin
<1>6. superOf[superOf[from]] = superOf[from] /\ superOf[superOf[c.dst]] = superOf[c.dst]
  BY <1>2
<1>7. QED
  BY <1>3, <1>5, <1>6

\* push_back brings the node of what it pushes along.
LEMMA PushedWithin ==
  ASSUME NEW cs, LoadsWhatItPushes(cs), \A c \in cs : c.src \in Ptr \cup Obj /\ c.dst \in Ptr \cup Obj,
         NEW N, \A c \in cs : NodesOf(c) \subseteq N
  PROVE  \A c \in cs : c.kind = "special" /\ Param[c.dst] # None => Param[c.dst] \in N
BY NodesOfClosed DEF LoadsWhatItPushes

\* What ResolveCalls does for the pairs it accepts.
Accepted(new) ==
  LET added == UNION {body[t] : t \in new}
      es == NewEdges(added)
      seen == SeenByCallBack(es)
      rec == {e \in es : e.kind = "copy" /\ e.src \in nodes} \cup Recorded(seen)
  IN /\ KeptWithinLimit(new)
     /\ resolved' = resolved \cup new
     /\ cons' = cons \cup added
     /\ nodes' = nodes \cup (UNION {NodesOf(c) : c \in added}) \cup FieldsOf(seen)
     /\ edges' = edges \cup es \cup AddedBy(seen)
     /\ handled' = HandledBy(seen)
     /\ copyWork' = ({e.src : e \in rec} \cap nodes) \cup (nodes' \ nodes)
     /\ required' = rec
     /\ target' = ({e.dst : e \in rec} \cap nodes) \cup (nodes' \ nodes)
     /\ lsWork' = nodes' \ nodes

LEMMA ResolveCallsFacts ==
  ASSUME Shape, ResolveCalls
  PROVE  /\ phase = "resolve" /\ phase' = "round" /\ updatedFunPtrs' = {}
         /\ UNCHANGED <<superOf, pts, body, pending>>
         /\ \E new \in SUBSET Found : Accepted(new)
BY DEF ResolveCalls, Accepted, Record

\* The nodes and edges a resolved call adds.
LEMMA CalleesWithin ==
  ASSUME Shape, UNCHANGED <<superOf, pts, body>>, NEW new \in SUBSET Found, Accepted(new),
         NEW added, added = UNION {body[t] : t \in new}
  PROVE  /\ added \subseteq Known /\ added \subseteq Constraint
         /\ nodes \subseteq nodes' /\ nodes' \subseteq Node /\ Closed(nodes')
         /\ \A c \in added : NodesOf(c) \subseteq nodes'
         /\ \A e \in NewEdges(added) : GoodEdge(e) /\ EdgeWithin(e, nodes')
              /\ superOf[e.src] = e.src /\ superOf[e.dst] = e.dst
<1> DEFINE es == NewEdges(added)
           seen == SeenByCallBack(es)
<1>1. nodes' = nodes \cup (UNION {NodesOf(c) : c \in added}) \cup FieldsOf(seen)
  BY DEF Accepted
<1>2. new \subseteq Site \X Func
  BY DEF Found
<1>3. added \subseteq Known /\ added \subseteq Constraint
  <2>1. \A t \in Site \X Func : body[t] \subseteq Known
    BY DEF Known, AllConstraints
  <2>2. QED
    BY <1>2, <2>1, ShapeFacts
<1>4. \A c \in added : c.src \in Ptr \cup Obj /\ c.dst \in Ptr \cup Obj
  BY <1>3, ShapeFacts DEF WellFormed
<1>5. nodes \subseteq nodes' /\ \A c \in added : NodesOf(c) \subseteq nodes'
  BY <1>1
<1>6. nodes' \subseteq Node
  <2>1. \A c \in added : NodesOf(c) \subseteq Node
    BY <1>4, NodeFacts, NodesInNode
  <2>2. FieldsOf(seen) \subseteq Node
    BY FieldsInNode
  <2>3. nodes \subseteq Node
    BY ShapeFacts
  <2>4. QED
    BY <1>1, <2>1, <2>2, <2>3
<1>7. Closed(nodes')
  <2>1. \A c \in added : Closed(NodesOf(c))
    BY <1>4, NodesOfClosed
  <2>2. Closed(UNION {NodesOf(c) : c \in added})
    BY <2>1, ClosedUnions
  <2>3. Closed(FieldsOf(seen))
    BY FieldsOfClosed
  <2>4. QED
    BY <1>1, <2>2, <2>3, ClosedUnion DEF Shape
<1>8. \A n \in nodes' : superOf[n] \in nodes'
  BY <1>5, <1>6, <1>7, NodesGrow
<1>9. \A c \in added : c.kind = "special" /\ Param[c.dst] # None => Param[c.dst] \in nodes'
  <2> SUFFICES ASSUME NEW t \in new, NEW c \in body[t], c.kind = "special", Param[c.dst] # None
               PROVE  Param[c.dst] \in nodes'
    OBVIOUS
  <2>1. LoadsWhatItPushes(body[t])
    BY <1>2 DEF Shape, BodyInv
  <2>2. body[t] \subseteq added
    OBVIOUS
  <2>3. QED
    BY <1>4, <1>5, <2>1, <2>2, PushedWithin
<1>10. ASSUME NEW e \in es
       PROVE  GoodEdge(e) /\ EdgeWithin(e, nodes') /\ superOf[e.src] = e.src
                                                  /\ superOf[e.dst] = e.dst
  <2>1. PICK c \in added : e = Edge(c) /\ ~SelfCopy(Edge(c))
    BY DEF NewEdges, Insertable
  <2>2. GoodEdge(e)
    BY <1>3, <2>1, ShapeFacts, ConstraintInserted
  <2>3. \A n \in Node : superOf[superOf[n]] = superOf[n]
    BY DEF Shape, SuperInv
  <2>4. WellFormed(Known) /\ GoodSuper
    BY ShapeFacts
  <2>5. PICK N : N = nodes'
    OBVIOUS
  <2>6. EdgeWithin(Edge(c), N) /\ superOf[Edge(c).src] = Edge(c).src
                               /\ superOf[Edge(c).dst] = Edge(c).dst
    BY <1>3, <1>5, <1>6, <1>8, <1>9, <2>1, <2>3, <2>4, <2>5, ConstraintsWithin
  <2>7. QED
    BY <2>1, <2>2, <2>5, <2>6
<1>11. QED
  BY <1>3, <1>5, <1>6, <1>7, <1>10

LEMMA ResolveCallsShape ==
  ASSUME Shape, ResolveCalls
  PROVE  Shape'
<1>1. /\ phase = "resolve" /\ phase' = "round" /\ updatedFunPtrs' = {}
      /\ UNCHANGED <<superOf, pts, body, pending>>
  BY ResolveCallsFacts
<1>2. PICK new \in SUBSET Found : Accepted(new)
  BY ResolveCallsFacts
<1>3. PICK added : added = UNION {body[t] : t \in new}
  OBVIOUS
<1>4. PICK es : es = NewEdges(added)
  OBVIOUS
<1>5. PICK seen : seen = SeenByCallBack(es)
  OBVIOUS
<1>6. /\ nodes \subseteq nodes' /\ nodes' \subseteq Node /\ Closed(nodes')
      /\ \A e \in es : GoodEdge(e) /\ EdgeWithin(e, nodes')
              /\ superOf[e.src] = e.src /\ superOf[e.dst] = e.dst
  BY <1>1, <1>2, <1>3, <1>4, CalleesWithin
<1>7. Inv'
  BY ResolveCallsStep DEF Shape
<1>8. SuperInv' /\ PtsInv' /\ (\A n \in nodes' : superOf[n] \in nodes')
  BY <1>1, <1>6, NodesGrow
<1>9. seen \subseteq es /\ \A e \in seen : Watched(e) \in nodes
  BY <1>5 DEF SeenByCallBack
<1>10. FieldsOf(seen) \subseteq nodes'
  BY <1>2, <1>3, <1>4, <1>5 DEF Accepted
<1>11. /\ \A a \in AddedBy(seen) : /\ EdgeWithin(a, nodes')
                                   /\ superOf[a.src] = a.src /\ superOf[a.dst] = a.dst
       /\ \A a \in Recorded(seen) : a = Copy(a.src, a.dst) /\ a.src \in nodes' /\ a.dst \in nodes'
  BY <1>6, <1>8, <1>9, <1>10, AddedWithin
<1>12. EdgeInv'
  <2>1. edges' = edges \cup es \cup AddedBy(seen)
    BY <1>2, <1>3, <1>4, <1>5 DEF Accepted
  <2>2. \A e \in edges : EdgeWithin(e, nodes') /\ superOf[e.src] = e.src
                                              /\ superOf[e.dst] = e.dst
    BY <1>6 DEF Shape, EdgeInv, EdgeWithin
  <2>3. \A e \in edges' : EdgeWithin(e, nodes') /\ superOf[e.src] = e.src
                                               /\ superOf[e.dst] = e.dst
    BY <1>6, <1>11, <2>1, <2>2
  <2>4. QED
    BY <1>1, <2>3 DEF EdgeInv, EdgeWithin, SelfCopy
<1>13. ComponentInv'
  BY <1>1 DEF Shape, ComponentInv, ListInv
<1>14. ListInv'
  <2>1. /\ handled' = HandledBy(seen) /\ resolved' = resolved \cup new
        /\ required' = {e \in es : e.kind = "copy" /\ e.src \in nodes} \cup Recorded(seen)
        /\ copyWork' \subseteq nodes' /\ target' \subseteq nodes' /\ lsWork' \subseteq nodes'
    BY <1>2, <1>3, <1>4, <1>5, <1>6 DEF Accepted
  <2>2. handled' \in [Ptr -> SUBSET Obj]
    BY <1>6, <1>9, <2>1, HandledType DEF GoodEdge, EdgeType
  <2>3. required' \subseteq [kind : {"copy"}, src : Node, dst : Node]
    BY <1>6, <1>11, <2>1 DEF Copy, GoodEdge, EdgeType
  <2>4. resolved' \subseteq Site \X Func
    BY <2>1 DEF Found, Shape, ListInv
  <2>5. QED
    BY <1>1, <2>1, <2>2, <2>3, <2>4 DEF Shape, ListInv
<1>15. Closed(nodes)' /\ BodyInv'
  BY <1>1, <1>6 DEF Shape, Closed, BodyInv
<1>16. QED
  BY <1>7, <1>8, <1>12, <1>13, <1>14, <1>15 DEF Shape

\* The graph as the builder hands it to solve().
LEMMA InitShape ==
  ASSUME Init
  PROVE  Shape
<1>1. PICK p \in Programs :
        /\ body = p.body
        /\ cons = p.cons
        /\ nodes = UNION {NodesOf(c) : c \in p.cons}
        /\ superOf = [n \in Node |-> n]
        /\ edges = {e \in {Edge(c) : c \in p.cons} : ~SelfCopy(e)}
        /\ pts = NothingKnown
        /\ phase = "round"
        /\ pending = {}
        /\ copyWork = nodes
        /\ lsWork = nodes
        /\ target = nodes
        /\ required = {}
        /\ handled = [n \in Ptr |-> {}]
        /\ updatedFunPtrs = {}
        /\ resolved = {}
  BY DEF Init
<1>2. Inv
  BY InitStep
<1>3. /\ cons \subseteq Known /\ cons \subseteq Constraint /\ WellFormed(Known) /\ GoodSuper
      /\ nodes \subseteq Node
  BY <1>2, InvFacts DEF Inv, ProgramInv
<1>4. \A c \in cons : c.src \in Ptr \cup Obj /\ c.dst \in Ptr \cup Obj
  BY <1>3 DEF WellFormed
<1>5. \A c \in cons : NodesOf(c) \subseteq nodes
  BY <1>1
<1>6. Closed(nodes)
  <2>1. \A c \in cons : Closed(NodesOf(c))
    BY <1>4, NodesOfClosed
  <2>2. QED
    BY <1>1, <2>1, ClosedUnions
<1>7. LoadsWhatItPushes(cons)
  BY <1>1, ProgramsAssumption
<1>8. \A c \in cons : c.kind = "special" /\ Param[c.dst] # None => Param[c.dst] \in nodes
  BY <1>4, <1>5, <1>7, PushedWithin
<1>9. SuperInv
  BY <1>1, <1>3 DEF SuperInv
<1>10. EdgeInv
  <2> SUFFICES ASSUME NEW e \in edges
               PROVE  EdgeWithin(e, nodes) /\ superOf[e.src] = e.src /\ superOf[e.dst] = e.dst
    BY DEF EdgeInv
  <2>1. PICK c \in cons : e = Edge(c) /\ ~SelfCopy(Edge(c))
    BY <1>1
  <2>2. \A n \in Node : superOf[superOf[n]] = superOf[n]
    BY <1>1
  <2>3. \A n \in nodes : superOf[n] \in nodes
    BY <1>1, <1>3
  <2>4. QED
    BY <1>3, <1>5, <1>8, <2>1, <2>2, <2>3, ConstraintsWithin
<1>11. PtsInv
  <2>1. ASSUME NEW n \in nodes, NEW o \in NothingKnown[n]
        PROVE  o \in nodes
    <3>1. o \in Obj /\ n = Anon(o)
      BY <1>3, <2>1 DEF NothingKnown
    <3>2. QED
      BY <1>6, <3>1, ObjectNodesClosed DEF Closed
  <2>2. QED
    BY <1>1, <2>1 DEF PtsInv
<1>12. ComponentInv
  BY <1>1 DEF ComponentInv
<1>13. ListInv
  BY <1>1 DEF ListInv
<1>14. BodyInv
  BY <1>1, ProgramsAssumption DEF BodyInv
<1>15. QED
  BY <1>2, <1>6, <1>9, <1>10, <1>11, <1>12, <1>13, <1>14 DEF Shape

\* Steps that change neither the graph nor the components.
LEMMA IdleShape ==
  ASSUME Shape, UNCHANGED <<graphVars, body, cons, pending, workVars, handled, resolved>>,
         phase' = phase \/ (phase = "resolve" /\ phase' = "done"),
         updatedFunPtrs' \subseteq updatedFunPtrs
  PROVE  Shape'
<1>1. Inv'
  BY Idle DEF Shape, graphVars, workVars
<1>2. ListInv'
  BY DEF Shape, ListInv, graphVars, workVars
<1>3. QED
  BY <1>1, <1>2 DEF Shape, SuperInv, EdgeInv, EdgeWithin, SelfCopy, Closed, PtsInv,
                    ComponentInv, BodyInv, graphVars

LEMMA ShapeInductive == Shape /\ [Next]_vars => Shape'
<1> SUFFICES ASSUME Shape, [Next]_vars PROVE Shape'
  OBVIOUS
<1>1. CASE FindComponents
  BY <1>1, FindComponentsShape
<1>2. CASE \E n \in nodes : ProcessNode(n)
  BY <1>2, ProcessNodeShape
<1>3. CASE \E C \in pending : \E front \in C : ProcessCycle(C, front)
  BY <1>3, ProcessCycleShape
<1>4. CASE ProcessComplexEdges
  BY <1>4, ProcessComplexEdgesShape
<1>5. CASE ResolveCalls
  BY <1>5, ResolveCallsShape
<1>6. CASE Finish
  BY <1>6, IdleShape DEF Finish
<1>7. CASE Returned
  BY <1>7, IdleShape DEF Returned, vars
<1>8. CASE UNCHANGED vars
  BY <1>8, IdleShape DEF vars
<1>9. QED
  BY <1>1, <1>2, <1>3, <1>4, <1>5, <1>6, <1>7, <1>8 DEF Next

\* The types of the solver's variables; an edge never ends at a node that was
\* collapsed into another, which processLoad and the functions beside it assert.
THEOREM SolverTypeCorrect == Spec => []TypeOK
<1>1. Init => Shape
  BY InitShape
<1>2. Shape /\ [Next]_vars => Shape'
  BY ShapeInductive
<1>3. Shape => TypeOK
  <2> SUFFICES ASSUME Shape PROVE TypeOK
    OBVIOUS
  <2>1. edges \subseteq [kind : Kinds \ {"addr_of"}, src : nodes, dst : nodes]
    BY ShapeFacts DEF Shape, EdgeInv, EdgeWithin, EdgeType
  <2>2. pending \subseteq SUBSET nodes
    BY DEF Shape, ComponentInv
  <2>3. body \in [Site \X Func -> SUBSET Constraint] /\ cons \subseteq Constraint
    BY DEF Shape, Inv, ProgramInv
  <2>4. QED
    BY <2>1, <2>2, <2>3, ShapeFacts DEF Shape, ListInv, EdgeInv, TypeOK, Assignments
<1>4. QED
  BY <1>1, <1>2, <1>3, PTL DEF Spec
-----------------------------------------------------------------------------
(***************************************************************************)
(* The second part, for every program whose vector operations come with    *)
(* the calls they are in: nothing is forgotten between two rounds.  Every  *)
(* copy edge has carried everything over or will be processed, what the    *)
(* other edges stand for has been added or will be, every constraint has   *)
(* its edge, and every call site its targets.  The recursion that defines  *)
(* the least solution ends in it; so the solver implements PointsTo.       *)
(***************************************************************************)

\* Constraint c is in the graph: as an edge, or its ends were collapsed together.
Placed(c) == Edge(c) \in edges \/ SelfCopy(Edge(c))

\* The copies a load, store, offset or special edge stands for are in the graph.
Followed(e) ==
  /\ e.kind = "load" => \A o \in pts[e.src] : Placed(Copy(o, e.dst))
  /\ e.kind = "store" => \A o \in pts[e.dst] \ Immutable : Placed(Copy(e.src, o))
  /\ e.kind = "offset" => \A o \in pts[e.src] : Field[o] \in Obj =>
       Field[o] \in pts[e.dst] \/ Placed(Copy(Anon(Field[o]), e.dst))
  /\ e.kind = "special" /\ Param[e.dst] = None => \A o \in pts[e.src] : Elem[o] \in Obj =>
       Placed(Copy(Anon(Elem[o]), e.dst))
  /\ e.kind = "special" /\ Param[e.dst] # None => \A o \in pts[e.src] : Elem[o] \in Obj =>
       Placed(Copy(Param[e.dst], Elem[o]))

Unhandled == UNION pending

(***************************************************************************)
(* While components are handled, a copy edge that still has to carry       *)
(* something over leaves a component still to come, and what such a        *)
(* component can change comes later too.                                   *)
(***************************************************************************)
CopyInv ==
  \A e \in CopyEdges :
    IF phase = "copy"
    THEN /\ e.src \in Unhandled => e.dst \in Unhandled \/ CopySuccs(e.dst) = {}
         /\ \/ pts[e.src] \subseteq pts[e.dst]
            \/ e.src \in Unhandled /\ ShouldProcessCopy(e.src, e.dst)
    ELSE CopyScheduled(e)

ComplexInv == \A e \in edges : e.kind # "copy" => Followed(e) \/ Watched(e) \in lsWork

\* A field access has added the fields of the objects it has handled.
HandledInv ==
  \A n \in Ptr : \A o \in handled[n] :
    /\ n \in Results
    /\ Field[o] \in Obj => Field[o] \in pts[n] \/ Placed(Copy(Anon(Field[o]), n))

InsertedInv == \A c \in cons : Placed(c)

\* A call site has all targets, or as many as it may, or will be looked at.
CallInv ==
  /\ \A t \in resolved : body[t] \subseteq cons
  /\ \A s \in Site :
       \/ \A f \in pts[superOf[FunPtr[s]]] \cap Func : <<s, f>> \in resolved
       \/ NumTargets(resolved, s) = MaxIndirectTarget
       \/ \E m \in updatedFunPtrs : superOf[m] = superOf[FunPtr[s]]

\* A vector operation still to come is on a pointer still to come.
VectorInv ==
  \A t \in Site \X Func : \A c \in body[t] \ cons : c.kind = "special" =>
    /\ c.src \in Ptr \ nodes
    /\ \A u \in Site \X Func : Mentions(body[u], c.src) => c \in body[u]

Complete ==
  Shape /\ CopyInv /\ ComplexInv /\ HandledInv /\ InsertedInv /\ CallInv /\ VectorInv

-----------------------------------------------------------------------------
(***************************************************************************)
(* Edges that are in the graph stay.                                       *)
(***************************************************************************)
LEMMA PlacedCopy ==
  ASSUME NEW m, NEW n
  PROVE  /\ Edge(Copy(m, n)) = Copy(superOf[m], superOf[n])
         /\ Placed(Copy(m, n)) <=> \/ superOf[m] = superOf[n]
                                   \/ Copy(superOf[m], superOf[n]) \in edges
BY DEF Placed, Edge, Copy, SelfCopy

LEMMA PlacedGrows ==
  ASSUME UNCHANGED superOf, edges \subseteq edges', NEW c, Placed(c)
  PROVE  Placed(c)'
BY DEF Placed, Edge, SelfCopy

\* Collapsing a cycle moves the ends of a constraint's edge.
LEMMA PlacedMoved ==
  ASSUME Shape, NEW C \in pending, NEW front \in C, ProcessCycle(C, front),
         NEW c, c.src \in Node, c.dst \in Node, c.kind = "addr_of" => c.src \in Obj,
         Placed(c)
  PROVE  Placed(c)'
<1> DEFINE from == IF c.kind = "addr_of" THEN Anon(c.src) ELSE c.src
           kind == IF c.kind = "addr_of" THEN "copy" ELSE c.kind
<1>1. from \in Node
  BY NodeFacts
<1>2. Edge(c) = [kind |-> kind, src |-> superOf[from], dst |-> superOf[c.dst]]
  BY DEF Edge
<1>3. Edge(c)' = [kind |-> kind, src |-> superOf'[from], dst |-> superOf'[c.dst]]
  BY DEF Edge
<1>4. Edge(c)' = Moved(C, front, Edge(c))
  BY <1>1, <1>2, <1>3, CycleFacts DEF Moved
<1>5. SelfCopy(Edge(c)) => SelfCopy(Moved(C, front, Edge(c)))
  BY DEF SelfCopy, Moved
<1>6. Moved(C, front, Edge(c)) \in edges' \/ SelfCopy(Moved(C, front, Edge(c)))
  BY <1>5, CycleFacts DEF Placed
<1>7. QED
  BY <1>4, <1>6 DEF Placed, SelfCopy

(***************************************************************************)
(* Followed says what the solver's functions do for an edge.               *)
(***************************************************************************)
\* Where the copies an edge stands for may go.
LEMMA ComplexEnds ==
  ASSUME Shape, NEW e, GoodEdge(e), e.kind \notin {"copy", "addr_of"}
  PROVE  /\ e.kind \in {"load", "store", "offset", "special"} /\ e.src \in Node /\ e.dst \in Node
         /\ e.kind # "store" => e.dst \notin Immutable
         /\ pts[e.src] \subseteq Obj /\ pts[e.dst] \subseteq Obj
         /\ \A o \in Obj : superOf[o] \in Immutable <=> o \in Immutable
         /\ \A o \in Obj : superOf[Anon(o)] = Anon(o)
<1>1. e.kind \in Kinds /\ e.src \in Node /\ e.dst \in Node
  BY DEF GoodEdge, EdgeType
<1>2. e.kind \in {"offset", "special"} => e.dst \in Ptr
  BY ShapeFacts, ResultFacts DEF GoodEdge
<1>3. e.kind # "store" => e.dst \notin Immutable
  BY <1>1, <1>2, NodeFacts, ObjectsAssumption DEF GoodEdge, Single
<1>4. \A o \in Obj : superOf[o] \in Immutable <=> o \in Immutable
  BY ShapeFacts, NodeFacts, SuperOfGood DEF Single
<1>5. \A o \in Obj : superOf[Anon(o)] = Anon(o)
  BY ShapeFacts, NodeFacts DEF Single
<1>6. pts[e.src] \subseteq Obj /\ pts[e.dst] \subseteq Obj
  BY <1>1, ShapeFacts
<1>7. QED
  BY <1>1, <1>3, <1>4, <1>5, <1>6 DEF Kinds

\* Nothing is left to add for an edge that was followed.
LEMMA FollowedMeans ==
  ASSUME Shape, NEW e \in edges, e.kind # "copy", Followed(e)
  PROVE  NewEdges(Consequences(e, {})) = {}
<1> DEFINE cs == Consequences(e, {})
<1>1. /\ e.kind \in {"load", "store", "offset", "special"} /\ e.src \in Node /\ e.dst \in Node
      /\ pts[e.src] \subseteq Obj /\ pts[e.dst] \subseteq Obj
      /\ \A o \in Obj : superOf[o] \in Immutable <=> o \in Immutable
  BY ComplexEnds, ShapeFacts DEF Shape, EdgeInv, EdgeWithin
<1>2. \A n \in Node : superOf[superOf[n]] = superOf[n]
  BY DEF Shape, SuperInv
<1>3. ASSUME NEW c \in cs, c.dst \notin Immutable
      PROVE  Placed(c)
  <2> USE NodeFacts
  <2>1. CASE e.kind = "load"
    <3>1. PICK o \in pts[e.src] : c = Copy(superOf[o], e.dst)
      BY <2>1 DEF Consequences, LoadCopies
    <3>2. Placed(Copy(o, e.dst))
      BY <2>1 DEF Followed
    <3>3. superOf[superOf[o]] = superOf[o]
      BY <1>1, <1>2
    <3>4. QED
      BY <3>1, <3>2, <3>3, PlacedCopy
  <2>2. CASE e.kind = "store"
    <3>1. PICK o \in pts[e.dst] : c = Copy(e.src, superOf[o])
      BY <2>2 DEF Consequences, StoreCopies
    <3>2. o \in Obj /\ o \notin Immutable
      BY <1>1, <1>3, <3>1 DEF Copy
    <3>3. Placed(Copy(e.src, o))
      BY <2>2, <3>2 DEF Followed
    <3>4. superOf[superOf[o]] = superOf[o]
      BY <1>1, <1>2
    <3>5. QED
      BY <3>1, <3>3, <3>4, PlacedCopy
  <2>3. CASE e.kind = "offset"
    <3>1. PICK f \in FieldObjs(e, {}) : c = Copy(Anon(f), e.dst)
      BY <2>3 DEF Consequences, OffsetCopies
    <3>2. QED
      BY <2>3, <3>1 DEF FieldObjs, Followed
  <2>4. CASE e.kind = "special"
    <3>1. PICK o \in pts[e.src] :
            Elem[o] # None /\ c = IF Param[e.dst] = None THEN Copy(Anon(Elem[o]), e.dst)
                                                        ELSE Copy(Param[e.dst], Elem[o])
      BY <2>4 DEF Consequences, SpecialCopies
    <3>2. Elem[o] \in Obj
      BY <1>1, <3>1, ObjectsAssumption
    <3>3. QED
      BY <2>4, <3>1, <3>2 DEF Followed
  <2>5. QED
    BY <1>1, <2>1, <2>2, <2>3, <2>4
<1>4. \A c \in cs : c.kind = "copy"
  BY DEF Consequences, LoadCopies, StoreCopies, OffsetCopies, SpecialCopies, Copy
<1>5. QED
  BY <1>3, <1>4 DEF NewEdges, Insertable, Placed

\* An edge whose new edges were added has been followed.
LEMMA FollowedAfter ==
  ASSUME Shape, UNCHANGED <<superOf, pts>>, edges \subseteq edges',
         NEW e, GoodEdge(e), e.kind \notin {"copy", "addr_of"},
         NEW done, NewEdges(Consequences(e, done)) \subseteq edges',
         \A o \in done : e.kind = "offset" /\ Field[o] \in Obj =>
           Field[o] \in pts[e.dst] \/ Placed(Copy(Anon(Field[o]), e.dst))
  PROVE  Followed(e)'
<1>1. /\ e.kind \in {"load", "store", "offset", "special"} /\ e.src \in Node /\ e.dst \in Node
      /\ pts[e.src] \subseteq Obj /\ pts[e.dst] \subseteq Obj
      /\ e.kind # "store" => e.dst \notin Immutable
      /\ \A o \in Obj : superOf[o] \in Immutable <=> o \in Immutable
  BY ComplexEnds
<1>2. \A n \in Node : superOf[superOf[n]] = superOf[n]
  BY DEF Shape, SuperInv
<1>3. \A c \in Consequences(e, done) : c.kind = "copy"
  BY DEF Consequences, LoadCopies, StoreCopies, OffsetCopies, SpecialCopies, Copy
<1>4. ASSUME NEW c \in Consequences(e, done), c.dst \notin Immutable
      PROVE  Edge(c) \in edges' \/ SelfCopy(Edge(c))
  BY <1>4 DEF NewEdges, Insertable
<1>5. ASSUME NEW m, NEW n, Copy(superOf[m], superOf[n]) \in edges' \/ superOf[m] = superOf[n]
      PROVE  Placed(Copy(m, n))'
  BY <1>5 DEF Placed, Edge, Copy, SelfCopy
<1>6. ASSUME NEW m, NEW n, Copy(m, n) \in Consequences(e, done), n \notin Immutable
      PROVE  Copy(superOf[m], superOf[n]) \in edges' \/ superOf[m] = superOf[n]
  <2>1. Copy(m, n).dst = n
    BY DEF Copy
  <2>2. Edge(Copy(m, n)) \in edges' \/ SelfCopy(Edge(Copy(m, n)))
    BY <1>4, <1>6, <2>1
  <2>3. QED
    BY <2>2, PlacedCopy DEF SelfCopy, Copy
<1> USE NodeFacts
<1>7. ASSUME e.kind = "load", NEW o \in pts[e.src]
      PROVE  Placed(Copy(o, e.dst))'
  <2>1. Copy(superOf[o], e.dst) \in Consequences(e, done) /\ o \in Node
    BY <1>1, <1>7 DEF Consequences, LoadCopies
  <2>2. QED
    BY <1>1, <1>2, <1>5, <1>6, <1>7, <2>1
<1>8. ASSUME e.kind = "store", NEW o \in pts[e.dst] \ Immutable
      PROVE  Placed(Copy(e.src, o))'
  <2>1. Copy(e.src, superOf[o]) \in Consequences(e, done) /\ o \in Obj
    BY <1>1, <1>8 DEF Consequences, StoreCopies
  <2>2. superOf[o] \notin Immutable /\ superOf[superOf[o]] = superOf[o]
    BY <1>1, <1>2, <2>1
  <2>3. QED
    BY <1>5, <1>6, <2>1, <2>2
<1>9. ASSUME e.kind = "offset", NEW o \in pts[e.src], Field[o] \in Obj
      PROVE  Field[o] \in pts[e.dst] \/ Placed(Copy(Anon(Field[o]), e.dst))'
  <2>1. CASE o \in done
    BY <1>9, <2>1, PlacedGrows
  <2>2. CASE o \notin done /\ Field[o] \notin pts[e.dst]
    <3>1. Copy(Anon(Field[o]), e.dst) \in Consequences(e, done)
      BY <1>9, <2>2 DEF Consequences, OffsetCopies, FieldObjs
    <3>2. QED
      BY <1>1, <1>5, <1>6, <1>9, <3>1
  <2>3. QED
    BY <2>1, <2>2
<1>10. ASSUME e.kind = "special", NEW o \in pts[e.src], Elem[o] \in Obj
       PROVE  /\ Param[e.dst] = None => Placed(Copy(Anon(Elem[o]), e.dst))'
              /\ Param[e.dst] # None => Placed(Copy(Param[e.dst], Elem[o]))'
  <2>1. Elem[o] # None /\ Elem[o] \notin Immutable
    BY <1>1, <1>10, ObjectsAssumption
  <2>2. (IF Param[e.dst] = None THEN Copy(Anon(Elem[o]), e.dst)
                               ELSE Copy(Param[e.dst], Elem[o])) \in Consequences(e, done)
    BY <1>10, <2>1 DEF Consequences, SpecialCopies
  <2>3. QED
    BY <1>1, <1>5, <1>6, <1>10, <2>1, <2>2
<1>11. QED
  BY <1>7, <1>8, <1>9, <1>10 DEF Followed

-----------------------------------------------------------------------------
(***************************************************************************)
(* The steps.                                                              *)
(***************************************************************************)
LEMMA FindComponentsComplete ==
  ASSUME Complete, FindComponents
  PROVE  Complete'
<1> DEFINE roots == {n \in copyWork : superOf[n] = n}
<1>1. /\ UNCHANGED <<nodes, edges, superOf, pts, body, cons, copyWork, lsWork, target, required,
                     handled, updatedFunPtrs, resolved>>
      /\ phase = "round" /\ phase' = "copy"
      /\ pending' = Components(roots)
  BY DEF FindComponents, graphVars, workVars
<1>2. Shape'
  BY FindComponentsShape DEF Complete
<1>3. CopyInv'
  <2> SUFFICES ASSUME NEW e \in CopyEdges
               PROVE  /\ e.src \in Unhandled' => e.dst \in Unhandled' \/ CopySuccs(e.dst) = {}
                      /\ \/ pts[e.src] \subseteq pts[e.dst]
                         \/ e.src \in Unhandled' /\ ShouldProcessCopy(e.src, e.dst)
    BY <1>1 DEF CopyInv, CopyEdges, CopySuccs, ShouldProcessCopy
  <2>1. PICK rs : pending' = Components(rs) /\ rs = roots
    BY <1>1
  <2>2. Unhandled' = UNION Components(rs)
    BY <2>1 DEF Unhandled
  <2>3. e.src \in Unhandled' => e.dst \in Unhandled' \/ CopySuccs(e.dst) = {}
    <3> SUFFICES ASSUME e.src \in Unhandled', NEW d \in CopyEdges, d.src = e.dst
                 PROVE  e.dst \in Unhandled'
      BY DEF CopySuccs
    <3>1. QED
      BY <2>2, ComponentsPartition
  <2>4. CASE e.src \in copyWork
    <3>1. superOf[e.src] = e.src
      BY DEF Complete, Shape, EdgeInv, CopyEdges
    <3>2. e.src \in Unhandled'
      BY <2>1, <2>2, <2>4, <3>1, ComponentsPartition
    <3>3. QED
      BY <1>1, <2>3, <3>2 DEF Complete, CopyInv, CopyScheduled
  <2>5. CASE e.src \notin copyWork
    BY <1>1, <2>3, <2>5 DEF Complete, CopyInv, CopyScheduled
  <2>6. QED
    BY <2>4, <2>5
<1>4. ComplexInv'
  BY <1>1 DEF Complete, ComplexInv, Followed, Placed, Edge, SelfCopy
<1>5. HandledInv' /\ InsertedInv'
  <2>1. Results' = Results
    BY <1>1 DEF Results, Known, AllConstraints
  <2>2. QED
    BY <1>1, <2>1 DEF Complete, HandledInv, InsertedInv, Placed, Edge, SelfCopy
<1>6. CallInv' /\ VectorInv'
  BY <1>1 DEF Complete, CallInv, VectorInv
<1>7. QED
  BY <1>2, <1>3, <1>4, <1>5, <1>6 DEF Complete

\* The pairs of a function pointer that changed are looked at later.
LEMMA CallsNoted ==
  ASSUME Complete, UNCHANGED <<body, cons, resolved>>, updatedFunPtrs \subseteq updatedFunPtrs',
         \A s \in Site : LET n == superOf'[FunPtr[s]]
                         IN \/ pts'[n] = pts[superOf[FunPtr[s]]]
                            \/ \E m \in updatedFunPtrs' : superOf'[m] = n,
         \A m \in updatedFunPtrs, s \in Site :
           superOf[m] = superOf[FunPtr[s]] => superOf'[m] = superOf'[FunPtr[s]]
  PROVE  CallInv'
<1>1. \A t \in resolved' : body'[t] \subseteq cons'
  BY DEF Complete, CallInv
<1>2. ASSUME NEW s \in Site
      PROVE  \/ \A f \in pts'[superOf'[FunPtr[s]]] \cap Func : <<s, f>> \in resolved
             \/ NumTargets(resolved, s) = MaxIndirectTarget
             \/ \E m \in updatedFunPtrs' : superOf'[m] = superOf'[FunPtr[s]]
  BY DEF Complete, CallInv
<1>3. QED
  BY <1>1, <1>2 DEF CallInv, NumTargets

LEMMA ProcessNodeComplete ==
  ASSUME Complete, NEW n \in nodes, ProcessNode(n)
  PROVE  Complete'
<1>1. PICK ds : ds = {d \in CopySuccs(n) : ShouldProcessCopy(n, d)}
  OBVIOUS
<1>2. PICK changed : changed = Changed(n, ds, pts)
  OBVIOUS
<1>3. /\ UNCHANGED <<nodes, edges, superOf, body, cons, phase, copyWork, target,
                     required, handled, resolved>>
      /\ pending' = pending \ {{n}} /\ phase = "copy" /\ IsNext({n})
      /\ pts' = Propagated(n, ds, pts)
      /\ lsWork' = lsWork \cup changed
      /\ updatedFunPtrs' = updatedFunPtrs \cup FunctionPtrs(changed, superOf)
  BY <1>1, <1>2 DEF ProcessNode
<1>4. Shape /\ Shape'
  BY ProcessNodeShape DEF Complete
<1>5. n \in Node /\ pts \in [Node -> SUBSET Obj] /\ nodes \subseteq Node
  BY <1>4, ShapeFacts
<1>6. \A m \in Node : pts[m] \subseteq pts'[m] /\ (m \notin changed => pts'[m] = pts[m])
  BY <1>2, <1>3, <1>5 DEF Propagated, Changed
<1>7. \A e \in edges : e.src \in Node /\ e.dst \in Node /\ ~SelfCopy(e)
  BY <1>4, <1>5 DEF Shape, EdgeInv, EdgeWithin
<1>8. n \notin ds /\ pts'[n] = pts[n] /\ \A d \in ds : d \in Node /\ pts[n] \subseteq pts'[d]
  <2>1. \A d \in ds : d \in Node /\ d # n
    BY <1>1, <1>7 DEF CopySuccs, CopyEdges, SelfCopy
  <2>2. QED
    BY <1>2, <1>3, <1>5, <1>6, <2>1 DEF Propagated, Changed
<1>9. \A m : m \in Unhandled' <=> m \in Unhandled /\ m # n
  <2>1. \A C, D \in pending : C \cap D # {} => C = D
    BY <1>4 DEF Shape, ComponentInv
  <2>2. {n} \in pending
    BY <1>3 DEF IsNext
  <2>3. QED
    BY <1>3, <2>1, <2>2 DEF Unhandled
<1>10. CopyInv'
  <2> SUFFICES ASSUME NEW e \in CopyEdges
               PROVE  /\ e.src \in Unhandled' => e.dst \in Unhandled' \/ CopySuccs(e.dst) = {}
                      /\ \/ pts'[e.src] \subseteq pts'[e.dst]
                         \/ e.src \in Unhandled' /\ ShouldProcessCopy(e.src, e.dst)'
    BY <1>3 DEF CopyInv, CopyEdges, CopySuccs
  <2>1. e \in edges /\ e.src \in Node /\ e.dst \in Node
    BY <1>7 DEF CopyEdges
  <2>2. /\ e.src \in Unhandled => e.dst \in Unhandled \/ CopySuccs(e.dst) = {}
        /\ \/ pts[e.src] \subseteq pts[e.dst]
           \/ e.src \in Unhandled /\ ShouldProcessCopy(e.src, e.dst)
    BY <1>3 DEF Complete, CopyInv
  <2>3. ShouldProcessCopy(e.src, e.dst) => ShouldProcessCopy(e.src, e.dst)'
    BY <1>3 DEF ShouldProcessCopy
  <2>4. CASE e.src = n
    <3>1. e.dst \in CopySuccs(n)
      BY <2>4 DEF CopySuccs
    <3>2. CASE ShouldProcessCopy(n, e.dst)
      BY <1>1, <1>8, <1>9, <2>4, <3>1, <3>2
    <3>3. CASE ~ShouldProcessCopy(n, e.dst)
      BY <1>6, <1>8, <1>9, <2>1, <2>2, <2>4, <3>3
    <3>4. QED
      BY <3>2, <3>3
  <2>5. CASE e.src # n
    <3>1. e.src \in Unhandled' => e.dst # n
      BY <1>3 DEF IsNext, Unhandled
    <3>2. e.src \in Unhandled' => e.dst \in Unhandled' \/ CopySuccs(e.dst) = {}
      BY <1>9, <2>2, <3>1
    <3>3. CASE e.src \in changed
      <4>1. PICK d \in CopyEdges : d.src = n /\ d.dst = e.src
        BY <1>1, <1>2, <3>3 DEF Changed, CopySuccs
      <4>2. CopySuccs(d.dst) # {}
        BY <4>1 DEF CopySuccs
      <4>3. n \in Unhandled
        BY <1>3 DEF IsNext, Unhandled
      <4>4. e.src \in Unhandled
        BY <1>3, <4>1, <4>2, <4>3 DEF Complete, CopyInv
      <4>5. QED
        BY <1>3, <1>9, <2>5, <3>2, <3>3, <4>4 DEF ShouldProcessCopy
    <3>4. CASE e.src \notin changed
      BY <1>6, <1>9, <2>1, <2>2, <2>3, <2>5, <3>2, <3>4
    <3>5. QED
      BY <3>3, <3>4
  <2>6. QED
    BY <2>4, <2>5
<1>11. \A c : Placed(c) => Placed(c)'
  BY <1>3, PlacedGrows
<1>12. ComplexInv'
  <2> SUFFICES ASSUME NEW e \in edges, e.kind # "copy", Watched(e) \notin lsWork'
               PROVE  Followed(e)'
    BY <1>3 DEF ComplexInv
  <2>1. Followed(e) /\ Watched(e) \notin changed
    BY <1>3 DEF Complete, ComplexInv
  <2>2. pts'[Watched(e)] = pts[Watched(e)] /\ pts[e.dst] \subseteq pts'[e.dst]
    BY <1>6, <1>7, <2>1 DEF Watched
  <2>3. QED
    BY <1>11, <2>1, <2>2 DEF Followed, Watched
<1>13. HandledInv' /\ InsertedInv'
  <2>1. Results' = Results
    BY <1>3 DEF Results, Known, AllConstraints
  <2>2. \A m \in Ptr : pts[m] \subseteq pts'[m]
    BY <1>6, NodeFacts
  <2>3. QED
    BY <1>3, <1>11, <2>1, <2>2 DEF Complete, HandledInv, InsertedInv
<1>14. CallInv'
  <2> SUFFICES ASSUME NEW s \in Site, pts'[superOf[FunPtr[s]]] # pts[superOf[FunPtr[s]]]
               PROVE  \E m \in updatedFunPtrs' : superOf[m] = superOf[FunPtr[s]]
    BY <1>3, CallsNoted
  <2>1. FunPtr[s] \in Node
    BY ObjectsAssumption, NodeFacts
  <2>2. superOf[FunPtr[s]] \in Node /\ superOf[superOf[FunPtr[s]]] = superOf[FunPtr[s]]
    BY <1>4, <2>1, ShapeFacts DEF Shape, SuperInv
  <2>3. superOf[FunPtr[s]] \in changed
    BY <1>6, <2>2
  <2>4. superOf[FunPtr[s]] \in updatedFunPtrs'
    BY <1>3, <2>3 DEF FunctionPtrs, IsFunctionPtr
  <2>5. QED
    BY <2>2, <2>4
<1>15. VectorInv'
  BY <1>3 DEF Complete, VectorInv
<1>16. QED
  BY <1>4, <1>10, <1>12, <1>13, <1>14, <1>15 DEF Complete

\* Which points-to sets a collapsed cycle changes.
LEMMA CyclePropagates ==
  ASSUME Shape, NEW C \in pending, NEW front \in C, ProcessCycle(C, front)
  PROVE  /\ target \subseteq target' /\ lsWork \subseteq lsWork' /\ front \in lsWork'
         /\ updatedFunPtrs \subseteq updatedFunPtrs'
         /\ \A n \in Node \ C : \/ pts'[n] = pts[n]
                                \/ n \in lsWork' /\ Copy(front, n) \in edges'
         /\ \A n \in Node \ C : pts'[n] = pts[n] \/ ~IsFunctionPtr(n, superOf')
                                                 \/ n \in updatedFunPtrs'
         /\ IsFunctionPtr(front, superOf') => front \in updatedFunPtrs'
         /\ \A a \in edges' : a.kind = "copy" /\ a.src = front => pts'[front] \subseteq pts'[a.dst]
<1>1. PICK merged : merged = MergedPts(C, front)
  OBVIOUS
<1>2. PICK ds : ds = {e.dst : e \in {e \in edges' : e.kind = "copy" /\ e.src = front}}
  OBVIOUS
<1>3. PICK changed : changed = Changed(front, ds, merged)
  OBVIOUS
<1>4. /\ pts' = Propagated(front, ds, merged)
      /\ target' = IF C \cap target = {} THEN target ELSE target \cup {front}
      /\ lsWork' = lsWork \cup {front} \cup changed
      /\ updatedFunPtrs' = updatedFunPtrs \cup FunctionPtrs({front} \cup changed, superOf')
  BY <1>1, <1>2, <1>3 DEF ProcessCycle, CycleChanged
<1>5. C \subseteq Node /\ front \in Node /\ pts \in [Node -> SUBSET Obj]
  BY CycleFacts, ShapeFacts
<1>6. \A e \in edges' : e.dst \in Node /\ ~SelfCopy(e) /\ (e.kind = "copy" => e = Copy(e.src, e.dst))
  <2>1. \A e \in edges' : EdgeWithin(e, nodes)' /\ nodes' \subseteq Node
    BY ProcessCycleShape, ShapeFacts, CycleFacts DEF Shape, EdgeInv
  <2>2. \A e \in edges' : \E d \in edges : e = Moved(C, front, d)
    BY CycleFacts
  <2>3. QED
    BY <2>1, <2>2 DEF EdgeWithin, SelfCopy, Moved, Copy
<1>7. \A n \in Node \ C : merged[n] = pts[n]
  BY <1>1 DEF MergedPts
<1>8. \A d \in ds : d \in Node /\ d # front /\ Copy(front, d) \in edges'
  BY <1>2, <1>6 DEF SelfCopy
<1>9. \A n \in Node : pts'[n] = IF n \in ds THEN merged[n] \cup merged[front] ELSE merged[n]
  BY <1>4 DEF Propagated
<1>10. \A n \in Node : n \notin changed => pts'[n] = merged[n]
  BY <1>3, <1>9 DEF Changed
<1>11. \A n \in changed : n \in ds
  BY <1>3 DEF Changed
<1>12. \A a \in edges' : a.kind = "copy" /\ a.src = front => pts'[front] \subseteq pts'[a.dst]
  <2>1. front \notin ds /\ pts'[front] = merged[front]
    BY <1>5, <1>8, <1>9
  <2>2. QED
    BY <1>2, <1>8, <1>9, <2>1
<1>13. \A n \in Node \ C : \/ pts'[n] = pts[n]
                           \/ n \in lsWork' /\ Copy(front, n) \in edges'
  BY <1>4, <1>7, <1>8, <1>10, <1>11
<1>14. \A n \in Node \ C : pts'[n] = pts[n] \/ ~IsFunctionPtr(n, superOf') \/ n \in updatedFunPtrs'
  BY <1>4, <1>7, <1>10 DEF FunctionPtrs
<1>15. IsFunctionPtr(front, superOf') => front \in updatedFunPtrs'
  BY <1>4 DEF FunctionPtrs
<1>16. QED
  BY <1>4, <1>12, <1>13, <1>14, <1>15

LEMMA ProcessCycleComplete ==
  ASSUME Complete, NEW C \in pending, NEW front \in C, ProcessCycle(C, front)
  PROVE  Complete'
<1>1. Shape /\ Shape'
  BY ProcessCycleShape DEF Complete
<1>2. /\ UNCHANGED <<nodes, body, cons, phase, copyWork, required, handled, resolved>>
      /\ phase = "copy" /\ pending' = pending \ {C} /\ IsNext(C)
      /\ C \subseteq nodes /\ front \in nodes /\ C \cap Single = {} /\ nodes \subseteq Node
      /\ \A n \in C : superOf[n] = n
      /\ superOf \in [Node -> Node]
      /\ \A n \in Node : superOf'[n] = To(C, front, superOf[n])
      /\ \A n \in Node : pts[n] \subseteq pts'[To(C, front, n)]
  BY <1>1, CycleFacts, ShapeFacts
<1>3. \A e \in edges : e.src \in Node /\ e.dst \in Node /\ superOf[e.src] = e.src /\ superOf[e.dst] = e.dst
  BY <1>1, <1>2 DEF Shape, EdgeInv, EdgeWithin
<1>4. \A a \in edges' : ~SelfCopy(a) /\ \E e \in edges : a = Moved(C, front, e)
  BY <1>1, CycleFacts
<1>5. \A m : m \in Unhandled' <=> m \in Unhandled /\ m \notin C
  <2>1. \A D, E \in pending : D \cap E # {} => D = E
    BY <1>1 DEF Shape, ComponentInv
  <2>2. QED
    BY <1>2, <2>1 DEF Unhandled
<1>6. CopyInv'
  <2> SUFFICES ASSUME NEW a \in edges', a.kind = "copy"
               PROVE  /\ a.src \in Unhandled' => a.dst \in Unhandled' \/ CopySuccs(a.dst)' = {}
                      /\ \/ pts'[a.src] \subseteq pts'[a.dst]
                         \/ a.src \in Unhandled' /\ ShouldProcessCopy(a.src, a.dst)'
    BY <1>2 DEF CopyInv, CopyEdges
  <2>1. PICK e \in edges : a = Moved(C, front, e)
    BY <1>4
  <2>2. a.kind = e.kind /\ a.src = To(C, front, e.src) /\ a.dst = To(C, front, e.dst)
    BY <2>1 DEF Moved
  <2>3. CASE e.src \in C
    BY <1>1, <1>5, <2>2, <2>3, CyclePropagates DEF To
  <2>4. CASE e.src \notin C
    <3>1. e \in CopyEdges /\ a.src = e.src
      BY <2>2, <2>4 DEF CopyEdges, To
    <3>2. /\ e.src \in Unhandled => e.dst \in Unhandled \/ CopySuccs(e.dst) = {}
          /\ \/ pts[e.src] \subseteq pts[e.dst]
             \/ e.src \in Unhandled /\ ShouldProcessCopy(e.src, e.dst)
      BY <1>2, <3>1 DEF Complete, CopyInv
    <3>3. e.src \in Unhandled' => e.dst \notin C /\ a.dst = e.dst
      <4>1. e.src \in Unhandled' => e.dst \notin C
        BY <1>2, <3>1 DEF IsNext, Unhandled
      <4>2. QED
        BY <2>2, <4>1 DEF To
    <3>4. e.src \in Unhandled' => a.dst \in Unhandled' \/ CopySuccs(a.dst)' = {}
      <4> SUFFICES ASSUME e.src \in Unhandled', CopySuccs(e.dst) = {}
                   PROVE  CopySuccs(e.dst)' = {}
        BY <1>5, <3>2, <3>3
      <4>1. e.dst \notin C
        BY <3>3
      <4>2. ASSUME NEW b \in edges', b.kind = "copy", b.src = e.dst
            PROVE  FALSE
        <5>1. PICK d \in edges : b = Moved(C, front, d)
          BY <1>4
        <5>2. d.kind = "copy" /\ d.src = e.dst
          BY <4>1, <4>2, <5>1 DEF Moved, To
        <5>3. QED
          BY <5>2 DEF CopySuccs, CopyEdges
      <4>3. QED
        BY <4>2 DEF CopySuccs, CopyEdges
    <3>5. ShouldProcessCopy(e.src, e.dst) => ShouldProcessCopy(e.src, e.dst)'
      BY <1>1, <1>2, CyclePropagates DEF ShouldProcessCopy
    <3>6. e.src \in Node /\ e.dst \in Node /\ pts[e.dst] \subseteq pts'[a.dst]
      BY <1>2, <1>3, <2>2
    <3>7. CASE pts'[e.src] = pts[e.src]
      BY <1>5, <2>4, <3>1, <3>2, <3>3, <3>4, <3>5, <3>6, <3>7
    <3>8. CASE pts'[e.src] # pts[e.src]
      <4>1. e.src \in lsWork' /\ Copy(front, e.src) \in edges'
        BY <1>1, <2>4, <3>6, <3>8, CyclePropagates
      <4>2. PICK d \in edges : Copy(front, e.src) = Moved(C, front, d)
        BY <1>4, <4>1
      <4>3. d.kind = "copy" /\ d.src \in C /\ d.dst = e.src
        BY <2>4, <4>2 DEF Copy, Moved, To
      <4>4. d.src \in Unhandled /\ d \in CopyEdges /\ e.dst \in CopySuccs(d.dst)
        BY <3>1, <4>3 DEF Unhandled, CopyEdges, CopySuccs
      <4>5. e.src \in Unhandled
        BY <1>2, <4>3, <4>4 DEF Complete, CopyInv
      <4>6. QED
        BY <1>5, <2>4, <3>1, <3>4, <4>1, <4>5 DEF ShouldProcessCopy
    <3>9. QED
      BY <3>7, <3>8
  <2>5. QED
    BY <2>3, <2>4
<1>7. ASSUME NEW c, c.src \in Node, c.dst \in Node, c.kind = "addr_of" => c.src \in Obj, Placed(c)
      PROVE  Placed(c)'
  BY <1>1, <1>7, PlacedMoved
<1>8. ASSUME NEW m \in Node, NEW n \in Node, Placed(Copy(m, n))
      PROVE  /\ Placed(Copy(m, n))'
             /\ Placed(Copy(m, To(C, front, n)))' /\ Placed(Copy(To(C, front, m), n))'
  <2>1. Placed(Copy(m, n))'
    BY <1>7, <1>8 DEF Copy
  <2>2. \A k \in Node : superOf'[To(C, front, k)] = superOf'[k]
    BY <1>2 DEF To
  <2>3. /\ Edge(Copy(m, To(C, front, n)))' = Edge(Copy(m, n))'
        /\ Edge(Copy(To(C, front, m), n))' = Edge(Copy(m, n))'
    BY <2>2 DEF Edge, Copy
  <2>4. QED
    BY <2>1, <2>3 DEF Placed, SelfCopy
<1>9. ComplexInv'
  <2> SUFFICES ASSUME NEW a \in edges', a.kind # "copy", Watched(a) \notin lsWork'
               PROVE  Followed(a)'
    BY DEF ComplexInv, Watched
  <2>1. PICK e \in edges : a = Moved(C, front, e)
    BY <1>4
  <2>2. a.kind = e.kind /\ a.src = To(C, front, e.src) /\ a.dst = To(C, front, e.dst)
    BY <2>1 DEF Moved
  <2>3. Watched(e) \notin C /\ Watched(a) = Watched(e)
    BY <1>1, <2>2, CyclePropagates DEF Watched, To
  <2>4. Followed(e)
    BY <1>1, <2>2, <2>3, CyclePropagates DEF Complete, ComplexInv
  <2>5. /\ e.kind \in {"load", "store", "offset", "special"} /\ e.src \in Node /\ e.dst \in Node
        /\ pts[e.src] \subseteq Obj /\ pts[e.dst] \subseteq Obj
    BY <1>1, <2>2, ComplexEnds, ShapeFacts DEF Shape, EdgeInv, EdgeWithin
  <2>6. pts'[Watched(e)] = pts[Watched(e)]
    BY <1>1, <2>3, <2>5, CyclePropagates DEF Watched
  <2>7. e.kind \in {"offset", "special"} => a.dst = e.dst /\ e.dst \in Ptr
    BY <1>1, <1>2, <2>2, ShapeFacts, ResultFacts DEF GoodEdge, Single, To
  <2>8. e.kind = "offset" => pts[e.dst] \subseteq pts'[e.dst]
    BY <1>2, <2>2, <2>5, <2>7
  <2> USE NodeFacts
  <2>9. CASE e.kind = "load"
    <3>1. a.src = e.src
      BY <2>2, <2>3, <2>9 DEF Watched, To
    <3>2. \A o \in pts[e.src] : Placed(Copy(o, a.dst))'
      BY <1>8, <2>2, <2>4, <2>5, <2>9 DEF Followed
    <3>3. QED
      BY <2>2, <2>6, <2>9, <3>1, <3>2 DEF Followed, Watched
  <2>10. CASE e.kind = "store"
    <3>1. a.dst = e.dst
      BY <2>2, <2>3, <2>10 DEF Watched, To
    <3>2. \A o \in pts[e.dst] \ Immutable : Placed(Copy(a.src, o))'
      BY <1>8, <2>2, <2>4, <2>5, <2>10 DEF Followed
    <3>3. QED
      BY <2>2, <2>6, <2>10, <3>1, <3>2 DEF Followed, Watched
  <2>11. CASE e.kind \in {"offset", "special"}
    <3>1. a.src = e.src /\ a.dst = e.dst /\ pts'[a.src] = pts[e.src]
      BY <2>2, <2>3, <2>6, <2>7, <2>11 DEF Watched, To
    <3>2. e.kind = "offset" => \A o \in pts[e.src] : Field[o] \in Obj =>
            Field[o] \in pts'[e.dst] \/ Placed(Copy(Anon(Field[o]), e.dst))'
      BY <1>8, <2>4, <2>5, <2>8 DEF Followed
    <3>3. e.kind = "special" /\ Param[e.dst] = None => \A o \in pts[e.src] : Elem[o] \in Obj =>
            Placed(Copy(Anon(Elem[o]), e.dst))'
      BY <1>8, <2>4, <2>5 DEF Followed
    <3>4. e.kind = "special" /\ Param[e.dst] # None => \A o \in pts[e.src] : Elem[o] \in Obj =>
            Placed(Copy(Param[e.dst], Elem[o]))'
      <4>1. e.kind = "special" /\ Param[e.dst] # None => Param[e.dst] \in Node
        BY <2>7, ObjectsAssumption
      <4>2. QED
        BY <1>8, <2>4, <4>1 DEF Followed
    <3>5. QED
      BY <2>2, <2>11, <3>1, <3>2, <3>3, <3>4 DEF Followed
  <2>12. QED
    BY <2>5, <2>9, <2>10, <2>11
<1>10. HandledInv'
  <2>1. Results' = Results
    BY <1>2 DEF Results, Known, AllConstraints
  <2>2. \A n \in Results : pts[n] \subseteq pts'[n] /\ n \in Node
    <3>1. \A n \in Results : n \in Node /\ To(C, front, n) = n
      BY <1>1, <1>2, ShapeFacts DEF Single, To
    <3>2. QED
      BY <1>2, <3>1
  <2>3. QED
    BY <1>2, <1>8, <2>1, <2>2, NodeFacts DEF Complete, HandledInv
<1>11. InsertedInv'
  <2>1. \A c \in cons : c.src \in Node /\ c.dst \in Node /\ (c.kind = "addr_of" => c.src \in Obj)
    BY <1>1, ShapeFacts, NodeFacts DEF WellFormed
  <2>2. QED
    BY <1>2, <1>7, <2>1 DEF Complete, InsertedInv
<1>12. CallInv'
  <2>1. \A s \in Site : FunPtr[s] \in Node /\ superOf[FunPtr[s]] \in Node
    BY <1>2, ObjectsAssumption, NodeFacts
  <2>2. ASSUME NEW s \in Site
        PROVE  \/ pts'[superOf'[FunPtr[s]]] = pts[superOf[FunPtr[s]]]
               \/ \E m \in updatedFunPtrs' : superOf'[m] = superOf'[FunPtr[s]]
    <3>1. IsFunctionPtr(superOf'[FunPtr[s]], superOf')
      BY DEF IsFunctionPtr
    <3>2. CASE superOf[FunPtr[s]] \in C
      <4>1. superOf'[FunPtr[s]] = front /\ superOf'[front] = front
        BY <1>2, <2>1, <3>2 DEF To
      <4>2. QED
        BY <1>1, <3>1, <4>1, CyclePropagates
    <3>3. CASE superOf[FunPtr[s]] \notin C
      <4>1. superOf'[FunPtr[s]] = superOf[FunPtr[s]]
        BY <1>2, <2>1, <3>3 DEF To
      <4>2. superOf'[superOf'[FunPtr[s]]] = superOf'[FunPtr[s]]
        BY <1>1, <1>2, <2>1 DEF Shape, SuperInv
      <4>3. QED
        BY <1>1, <2>1, <3>1, <3>3, <4>1, <4>2, CyclePropagates
    <3>4. QED
      BY <3>2, <3>3
  <2>3. updatedFunPtrs \subseteq Node /\ updatedFunPtrs \subseteq updatedFunPtrs'
    BY <1>1, <1>2, CyclePropagates DEF Shape, ListInv
  <2>4. \A m \in updatedFunPtrs, s \in Site :
          superOf[m] = superOf[FunPtr[s]] => superOf'[m] = superOf'[FunPtr[s]]
    BY <1>2, <2>1, <2>3
  <2>5. QED
    BY <1>2, <2>2, <2>3, <2>4, CallsNoted
<1>13. VectorInv'
  BY <1>2 DEF Complete, VectorInv
<1>14. QED
  BY <1>1, <1>6, <1>9, <1>10, <1>11, <1>12, <1>13 DEF Complete

\* The load, store, offset and special edges of es have been handled.
LEMMA EdgesHandled ==
  ASSUME Complete, UNCHANGED <<superOf, pts>>, edges \subseteq edges', Known' = Known,
         NEW es, \A e \in es : GoodEdge(e) /\ e.kind \notin {"copy", "addr_of"},
         AddedBy(es) \subseteq edges', handled' = HandledBy(es)
  PROVE  HandledInv' /\ \A e \in es : Followed(e)'
<1>1. Shape
  BY DEF Complete
<1>2. ASSUME NEW e \in es
      PROVE  Followed(e)'
  <2>1. NewEdges(Consequences(e, Done(e))) \subseteq edges'
    BY DEF AddedBy
  <2>2. e.kind = "offset" => e.dst \in Ptr
    BY <1>1, ShapeFacts, ResultFacts DEF GoodEdge
  <2>3. \A o \in Done(e) : e.kind = "offset" /\ Field[o] \in Obj =>
          Field[o] \in pts[e.dst] \/ Placed(Copy(Anon(Field[o]), e.dst))
    BY <2>2 DEF Done, Complete, HandledInv
  <2>4. QED
    BY <1>1, <2>1, <2>3, FollowedAfter
<1>3. ASSUME NEW n \in Ptr, NEW o \in handled'[n]
      PROVE  /\ n \in Results
             /\ Field[o] \in Obj => Field[o] \in pts[n] \/ Placed(Copy(Anon(Field[o]), n))'
  <2>1. CASE o \in handled[n]
    <3>1. /\ n \in Results
          /\ Field[o] \in Obj => Field[o] \in pts[n] \/ Placed(Copy(Anon(Field[o]), n))
      BY <2>1 DEF Complete, HandledInv
    <3>2. QED
      BY <3>1, PlacedGrows
  <2>2. CASE o \notin handled[n]
    <3>1. PICK e \in es : e.kind = "offset" /\ e.dst = n /\ o \in pts[e.src]
      BY <1>3, <2>2 DEF HandledBy
    <3>2. Followed(e)'
      BY <1>2
    <3>3. QED
      BY <3>1, <3>2 DEF Followed, GoodEdge
  <2>3. QED
    BY <2>1, <2>2
<1>4. Results' = Results
  BY DEF Results
<1>5. HandledInv'
  BY <1>3, <1>4 DEF HandledInv
<1>6. QED
  BY <1>2, <1>5

LEMMA ProcessComplexEdgesComplete ==
  ASSUME Complete, ProcessComplexEdges
  PROVE  Complete'
<1>1. PICK es : es = {e \in edges : e.kind # "copy" /\ Watched(e) \in lsWork}
  OBVIOUS
<1>2. /\ UNCHANGED <<superOf, pts, body, cons, pending, updatedFunPtrs, resolved>>
      /\ phase = "copy" /\ pending = {} /\ phase' # "copy"
      /\ edges' = edges \cup AddedBy(es)
      /\ nodes' = nodes \cup FieldsOf(es)
      /\ handled' = HandledBy(es)
      /\ required' = Recorded(es)
      /\ copyWork' = ({e.src : e \in Recorded(es)} \cap nodes) \cup (nodes' \ nodes)
      /\ target' = {e.dst : e \in Recorded(es)} \cap nodes
      /\ lsWork' = {}
  BY <1>1 DEF ProcessComplexEdges, Record
<1>3. Shape /\ Shape'
  BY ProcessComplexEdgesShape DEF Complete
<1>4. \A e \in edges : GoodEdge(e) /\ EdgeWithin(e, nodes) /\ EdgeWithin(e, nodes')
  BY <1>2, <1>3, ShapeFacts DEF Shape, EdgeInv, EdgeWithin
<1>5. \A e \in es : e \in edges /\ e.kind \notin {"copy", "addr_of"} /\ Watched(e) \in nodes
  BY <1>1, <1>3, <1>4 DEF Shape, ListInv, EdgeWithin
<1>6. /\ nodes \subseteq nodes' /\ nodes' \subseteq Node /\ FieldsOf(es) \subseteq nodes'
      /\ \A n \in nodes : superOf[n] \in nodes
      /\ \A n \in nodes' : superOf[n] \in nodes'
  <2>1. nodes \subseteq Node /\ nodes' \subseteq Node
    BY <1>3 DEF Shape, Inv, WorkInv
  <2>2. nodes \subseteq nodes' /\ FieldsOf(es) \subseteq nodes'
    BY <1>2
  <2>3. \A n \in Node : IF n \in nodes THEN superOf[n] \in nodes ELSE superOf[n] = n
    BY <1>3 DEF Shape, SuperInv
  <2>4. QED
    BY <2>1, <2>2, <2>3
<1>7. ASSUME NEW a \in AddedBy(es)
      PROVE  a = Copy(a.src, a.dst) /\ a.src \in nodes' /\ a.dst \in nodes
  <2>1. PICK e \in es : a \in NewEdges(Consequences(e, Done(e)))
    BY DEF AddedBy
  <2>2. PICK c \in Consequences(e, Done(e)) : a = Edge(c)
    BY <2>1 DEF NewEdges, Insertable
  <2>3. GoodEdge(e) /\ EdgeWithin(e, nodes) /\ EdgeWithin(e, nodes') /\ Watched(e) \in nodes
    BY <1>4, <1>5
  <2>4. \A f \in FieldObjs(e, Done(e)) : e.kind = "offset" => Anon(f) \in nodes'
    BY <1>6, FieldsOfClosed
  <2>5. c.kind = "copy" /\ c.src \in nodes' /\ c.dst \in nodes'
    <3>1. PICK N : N = nodes'
      OBVIOUS
    <3>2. QED
      BY <1>3, <1>6, <2>3, <2>4, <3>1, ConsequencesWithin
  <2>6. c.dst \in nodes
    <3>1. CASE e.kind = "offset"
      BY <2>3, <3>1 DEF Consequences, OffsetCopies, Copy, EdgeWithin
    <3>2. CASE e.kind # "offset"
      BY <1>3, <2>3, <3>2, ConsequencesWithin
    <3>3. QED
      BY <3>1, <3>2
  <2>7. QED
    BY <1>6, <2>2, <2>5, <2>6 DEF Edge, Copy
<1>8. CopyInv'
  <2> SUFFICES ASSUME NEW a \in edges', a.kind = "copy"
               PROVE  \/ pts[a.src] \subseteq pts[a.dst]
                      \/ /\ a.src \in copyWork' /\ a.dst \in target'
                         /\ Copy(a.src, a.dst) \in required'
    BY <1>2 DEF CopyInv, CopyEdges, CopyScheduled, ShouldProcessCopy
  <2>1. CASE a \in edges
    BY <1>2, <2>1 DEF Complete, CopyInv, CopyEdges, Unhandled
  <2>2. CASE a \in AddedBy(es)
    <3>1. a \in Recorded(es) /\ a.src \in nodes' /\ a.dst \in nodes /\ a = Copy(a.src, a.dst)
      BY <1>7, <2>2 DEF Recorded
    <3>2. QED
      BY <1>2, <3>1
  <2>3. QED
    BY <1>2, <2>1, <2>2
<1>9. HandledInv' /\ \A e \in es : Followed(e)'
  <2>1. Known' = Known
    BY <1>2 DEF Known, AllConstraints
  <2>2. \A e \in es : GoodEdge(e) /\ e.kind \notin {"copy", "addr_of"}
    BY <1>4, <1>5
  <2>3. AddedBy(es) \subseteq edges' /\ edges \subseteq edges'
    BY <1>2
  <2>4. QED
    BY <1>2, <2>1, <2>2, <2>3, EdgesHandled
<1>10. \A c : Placed(c) => Placed(c)'
  BY <1>2, PlacedGrows
<1>11. ComplexInv'
  <2> SUFFICES ASSUME NEW a \in edges', a.kind # "copy" PROVE Followed(a)'
    BY DEF ComplexInv
  <2>1. a \in edges
    <3>1. a \notin AddedBy(es)
      BY <1>7 DEF Copy
    <3>2. QED
      BY <1>2, <3>1
  <2>2. CASE a \in es
    BY <1>9, <2>2
  <2>3. CASE a \notin es
    <3>1. Followed(a)
      BY <1>1, <2>1, <2>3 DEF Complete, ComplexInv
    <3>2. QED
      BY <1>2, <1>10, <3>1 DEF Followed
  <2>4. QED
    BY <2>2, <2>3
<1>12. InsertedInv'
  BY <1>2, <1>10 DEF Complete, InsertedInv
<1>13. CallInv'
  BY <1>2, CallsNoted
<1>14. VectorInv'
  <2>1. \A n \in FieldsOf(es) : n \notin Ptr
    BY NodeFacts DEF FieldsOf, ObjectNodes, FieldObjs
  <2>2. QED
    BY <1>2, <2>1 DEF Complete, VectorInv
<1>15. QED
  BY <1>3, <1>8, <1>9, <1>11, <1>12, <1>13, <1>14 DEF Complete

\* A call site never loses targets.
LEMMA TargetsGrow ==
  ASSUME NEW ts, NEW us, ts \subseteq us, us \subseteq Site \X Func, NEW s
  PROVE  /\ NumTargets(ts, s) \in Nat /\ NumTargets(us, s) \in Nat
         /\ NumTargets(ts, s) <= NumTargets(us, s)
<1> DEFINE T == {t \in ts : t[1] = s}
           U == {t \in us : t[1] = s}
<1>1. IsFiniteSet(Func)
  BY FiniteAssumption, ObjectsAssumption, FS_Subset
<1>2. IsFiniteSet(Site \X Func)
  BY <1>1, FiniteAssumption, FS_Product
<1>3. U \in SUBSET (Site \X Func) /\ T \in SUBSET U
  OBVIOUS
<1>4. IsFiniteSet(U)
  BY <1>2, <1>3, FS_Subset
<1>5. IsFiniteSet(T) /\ Cardinality(T) <= Cardinality(U)
  BY <1>3, <1>4, FS_Subset
<1>6. Cardinality(T) \in Nat /\ Cardinality(U) \in Nat
  BY <1>4, <1>5, FS_CardinalityType
<1>7. QED
  BY <1>5, <1>6 DEF NumTargets

\* resolveFunPtrs leaves no pair of an updated function pointer behind.
LEMMA CallsLookedAt ==
  ASSUME Complete, NEW new \in SUBSET Found, KeptWithinLimit(new), NEW s \in Site
  PROVE  \/ \A f \in pts[superOf[FunPtr[s]]] \cap Func : <<s, f>> \in resolved \cup new
         \/ NumTargets(resolved \cup new, s) = MaxIndirectTarget
<1>1. resolved \subseteq Site \X Func /\ new \subseteq Site \X Func
  BY DEF Complete, Shape, ListInv, Found
<1>2. /\ NumTargets(resolved, s) \in Nat /\ NumTargets(resolved \cup new, s) \in Nat
      /\ NumTargets(resolved, s) <= NumTargets(resolved \cup new, s)
  <2>1. resolved \subseteq resolved \cup new /\ resolved \cup new \subseteq Site \X Func
    BY <1>1
  <2>2. QED
    BY <2>1, TargetsGrow
<1>3. CASE NumTargets(resolved \cup new, s) = MaxIndirectTarget
  BY <1>3
<1>4. CASE {t \in Found : t[1] = s} \subseteq new /\ NumTargets(resolved \cup new, s) <= MaxIndirectTarget
  <2>1. CASE \A f \in pts[superOf[FunPtr[s]]] \cap Func : <<s, f>> \in resolved
    BY <2>1
  <2>2. CASE NumTargets(resolved, s) = MaxIndirectTarget
    BY <1>2, <1>4, <2>2, ObjectsAssumption
  <2>3. CASE \E m \in updatedFunPtrs : superOf[m] = superOf[FunPtr[s]]
    <3> SUFFICES ASSUME NEW f \in pts[superOf[FunPtr[s]]] \cap Func, <<s, f>> \notin resolved
                 PROVE  <<s, f>> \in new
      OBVIOUS
    <3>1. <<s, f>>[1] = s /\ <<s, f>>[2] = f /\ <<s, f>> \in Site \X Func
      OBVIOUS
    <3>2. superOf[FunPtr[s]] \in {superOf[m] : m \in updatedFunPtrs}
      BY <2>3
    <3>3. <<s, f>> \in Found
      BY <3>1, <3>2 DEF Found
    <3>4. QED
      BY <1>4, <3>1, <3>3
  <2>4. QED
    BY <2>1, <2>2, <2>3 DEF Complete, CallInv
<1>5. QED
  BY <1>3, <1>4 DEF KeptWithinLimit

LEMMA ResolveCallsComplete ==
  ASSUME Complete, ResolveCalls
  PROVE  Complete'
<1>1. /\ phase = "resolve" /\ phase' = "round" /\ updatedFunPtrs' = {}
      /\ UNCHANGED <<superOf, pts, body, pending>>
  BY ResolveCallsFacts DEF Complete
<1>2. PICK new \in SUBSET Found : Accepted(new)
  BY ResolveCallsFacts DEF Complete
<1>3. PICK added : added = UNION {body[t] : t \in new}
  OBVIOUS
<1>4. PICK es : es = NewEdges(added)
  OBVIOUS
<1>5. PICK seen : seen = SeenByCallBack(es)
  OBVIOUS
<1>6. PICK rec : rec = {e \in es : e.kind = "copy" /\ e.src \in nodes} \cup Recorded(seen)
  OBVIOUS
<1>7. /\ KeptWithinLimit(new)
      /\ resolved' = resolved \cup new
      /\ cons' = cons \cup added
      /\ nodes' = nodes \cup (UNION {NodesOf(c) : c \in added}) \cup FieldsOf(seen)
      /\ edges' = edges \cup es \cup AddedBy(seen)
      /\ handled' = HandledBy(seen)
      /\ copyWork' = ({e.src : e \in rec} \cap nodes) \cup (nodes' \ nodes)
      /\ required' = rec
      /\ target' = ({e.dst : e \in rec} \cap nodes) \cup (nodes' \ nodes)
      /\ lsWork' = nodes' \ nodes
  BY <1>2, <1>3, <1>4, <1>5, <1>6 DEF Accepted
<1>8. Shape /\ Shape'
  BY ResolveCallsShape DEF Complete
<1>9. /\ added \subseteq Known /\ added \subseteq Constraint
      /\ nodes \subseteq nodes' /\ nodes' \subseteq Node
      /\ \A c \in added : NodesOf(c) \subseteq nodes'
      /\ \A e \in es : GoodEdge(e) /\ EdgeWithin(e, nodes')
           /\ superOf[e.src] = e.src /\ superOf[e.dst] = e.dst
  BY <1>1, <1>2, <1>3, <1>4, <1>8, CalleesWithin
<1>10. new \subseteq Site \X Func
  BY DEF Found
<1>11. \A e \in seen : /\ e \in es /\ e.kind \in {"load", "store", "offset"} /\ Watched(e) \in nodes
  BY <1>5 DEF SeenByCallBack
<1>12. \A a \in AddedBy(seen) : a.kind = "copy" /\ EdgeWithin(a, nodes')
  <2>1. PICK N : N = nodes'
    OBVIOUS
  <2>2. \A n \in N : superOf[n] \in N
    BY <1>1, <1>8, <1>9, <2>1 DEF Shape, SuperInv
  <2>3. FieldsOf(seen) \subseteq N /\ \A e \in seen : GoodEdge(e) /\ EdgeWithin(e, N) /\ Watched(e) \in nodes
    BY <1>7, <1>9, <1>11, <2>1
  <2>4. QED
    BY <1>8, <1>9, <2>1, <2>2, <2>3, AddedWithin
<1>13. CopyInv'
  <2> SUFFICES ASSUME NEW a \in edges', a.kind = "copy"
               PROVE  \/ pts[a.src] \subseteq pts[a.dst]
                      \/ /\ a.src \in copyWork'
                         /\ \/ a.src \in lsWork'
                            \/ a.dst \in target' /\ Copy(a.src, a.dst) \in required'
    BY <1>1 DEF CopyInv, CopyEdges, CopyScheduled, ShouldProcessCopy
  <2>1. CASE a \in edges
    <3>1. copyWork = {}
      BY <1>1, <1>8 DEF Shape, ListInv
    <3>2. QED
      BY <1>1, <2>1, <3>1 DEF Complete, CopyInv, CopyScheduled, CopyEdges
  <2>2. CASE a \in es \cup AddedBy(seen)
    <3>1. a.src \in nodes' /\ a.dst \in nodes'
      BY <1>9, <1>12, <2>2 DEF EdgeWithin
    <3>2. a = Copy(a.src, a.dst)
      BY <1>8, <2>2, ShapeFacts DEF GoodEdge, EdgeType, Copy, Shape, GraphInv, Inv
    <3>3. a.src \in nodes => a \in rec
      BY <1>6, <2>2 DEF Recorded
    <3>4. QED
      BY <1>7, <3>1, <3>2, <3>3
  <2>3. QED
    BY <1>7, <2>1, <2>2
<1>14. \A c : Placed(c) => Placed(c)'
  BY <1>1, <1>7, PlacedGrows
<1>15. Known' = Known
  BY <1>1, <1>7, <1>9, ShapeFacts DEF Known, AllConstraints
<1>16. HandledInv' /\ \A e \in seen : Followed(e)'
  <2>1. \A e \in seen : GoodEdge(e) /\ e.kind \notin {"copy", "addr_of"}
    BY <1>9, <1>11
  <2>2. AddedBy(seen) \subseteq edges' /\ edges \subseteq edges'
    BY <1>7
  <2>3. QED
    BY <1>1, <1>7, <1>15, <2>1, <2>2, EdgesHandled
<1>17. ComplexInv'
  <2> SUFFICES ASSUME NEW a \in edges', a.kind # "copy", Watched(a) \notin lsWork'
               PROVE  Followed(a)'
    BY DEF ComplexInv, Watched
  <2>1. CASE a \in edges
    <3>1. lsWork = {}
      BY <1>1, <1>8 DEF Shape, ListInv
    <3>2. Followed(a)
      BY <2>1, <3>1 DEF Complete, ComplexInv
    <3>3. QED
      BY <1>1, <1>14, <3>2 DEF Followed
  <2>2. CASE a \in es \ edges
    <3>1. Watched(a) \in nodes
      BY <1>7, <1>9, <2>2 DEF EdgeWithin, Watched
    <3>2. a.kind # "special"
      <4> SUFFICES ASSUME a.kind = "special" PROVE FALSE
        OBVIOUS
      <4>1. PICK c \in added : a = Edge(c)
        BY <1>4, <2>2 DEF NewEdges, Insertable
      <4>2. c.kind = "special"
        BY <4>1 DEF Edge
      <4>3. PICK t \in Site \X Func : c \in body[t]
        BY <1>3, <1>10
      <4>4. c \notin cons
        BY <2>2, <4>1, <4>2 DEF Complete, InsertedInv, Placed, SelfCopy
      <4>5. c.src \in Ptr /\ c.src \notin nodes
        BY <4>2, <4>3, <4>4 DEF Complete, VectorInv
      <4>6. superOf[c.src] = c.src
        BY <1>8, <4>5, NodeFacts DEF Shape, SuperInv
      <4>7. QED
        BY <3>1, <4>1, <4>2, <4>5, <4>6 DEF Watched, Edge
    <3>3. a.kind \in {"load", "store", "offset"}
      BY <1>9, <2>2, <3>2 DEF GoodEdge, EdgeType, EdgeWithin, Kinds
    <3>4. a \in seen
      BY <1>5, <2>2, <3>1, <3>3 DEF SeenByCallBack
    <3>5. QED
      BY <1>16, <3>4
  <2>3. CASE a \in AddedBy(seen)
    BY <1>12, <2>3
  <2>4. QED
    BY <1>7, <2>1, <2>2, <2>3
<1>18. InsertedInv'
  <2>1. ASSUME NEW c \in added
        PROVE  Placed(c)'
    <3>1. c.dst \notin Immutable
      BY <1>3, <1>8, <1>10 DEF Shape, BodyInv
    <3>2. Edge(c) \in es \cup edges \/ SelfCopy(Edge(c))
      BY <1>4, <3>1 DEF NewEdges, Insertable
    <3>3. QED
      BY <1>1, <1>7, <3>2 DEF Placed, Edge, SelfCopy
  <2>2. QED
    BY <1>7, <1>14, <2>1 DEF Complete, InsertedInv
<1>19. CallInv'
  <2>1. \A t \in resolved' : body'[t] \subseteq cons'
    BY <1>1, <1>3, <1>7 DEF Complete, CallInv
  <2>2. ASSUME NEW s \in Site
        PROVE  \/ \A f \in pts[superOf[FunPtr[s]]] \cap Func : <<s, f>> \in resolved'
               \/ NumTargets(resolved', s) = MaxIndirectTarget
    BY <1>7, CallsLookedAt
  <2>3. QED
    BY <1>1, <2>1, <2>2 DEF CallInv, NumTargets
<1>20. VectorInv'
  <2> SUFFICES ASSUME NEW t \in Site \X Func, NEW c \in body[t] \ cons', c.kind = "special"
               PROVE  /\ c.src \in Ptr \ nodes'
                      /\ \A u \in Site \X Func : Mentions(body[u], c.src) => c \in body[u]
    BY <1>1 DEF VectorInv
  <2>1. /\ c.src \in Ptr \ nodes
        /\ \A u \in Site \X Func : Mentions(body[u], c.src) => c \in body[u]
    BY <1>7 DEF Complete, VectorInv
  <2>2. c.src \notin FieldsOf(seen)
    BY <2>1, NodeFacts DEF FieldsOf, ObjectNodes, FieldObjs
  <2>3. ASSUME NEW d \in added, c.src \in NodesOf(d)
        PROVE  FALSE
    <3>1. c.src \in {d.src, d.dst}
      BY <2>1, <2>3, NodeFacts DEF NodesOf, ObjectNodes
    <3>2. PICK u \in new : d \in body[u]
      BY <1>3
    <3>3. c \in body[u]
      BY <1>10, <2>1, <3>1, <3>2 DEF Mentions
    <3>4. QED
      BY <1>3, <1>7, <3>3
  <2>4. QED
    BY <1>7, <2>1, <2>2, <2>3
<1>21. QED
  BY <1>8, <1>13, <1>16, <1>17, <1>18, <1>19, <1>20 DEF Complete

\* Nothing is left to resolve, or solve() has returned.
LEMMA IdleComplete ==
  ASSUME Complete, UNCHANGED <<graphVars, body, cons, pending, workVars, handled, resolved>>,
         (phase' = phase /\ updatedFunPtrs' = updatedFunPtrs) \/ Finish
  PROVE  Complete'
<1>1. Shape'
  BY IdleShape DEF Complete, Finish
<1>2. UNCHANGED <<nodes, edges, superOf, pts, copyWork, lsWork, target, required>>
  BY DEF graphVars, workVars
<1>3. (phase = "copy") = (phase' = "copy")
  BY DEF Finish
<1>4. CopyInv'
  BY <1>2, <1>3 DEF Complete, CopyInv, CopyEdges, CopySuccs, CopyScheduled, ShouldProcessCopy,
                    Unhandled
<1>5. ComplexInv'
  BY <1>2 DEF Complete, ComplexInv, Followed, Placed, Edge, SelfCopy
<1>6. HandledInv' /\ InsertedInv'
  <2>1. Results' = Results
    BY DEF Results, Known, AllConstraints
  <2>2. QED
    BY <1>2, <2>1 DEF Complete, HandledInv, InsertedInv, Placed, Edge, SelfCopy
<1>7. CallInv'
  <2>1. CASE updatedFunPtrs' = updatedFunPtrs
    BY <1>2, <2>1 DEF Complete, CallInv, NumTargets
  <2>2. CASE Finish
    <3>1. KeptWithinLimit({}) /\ resolved \cup {} = resolved
      BY <2>2 DEF Finish
    <3>2. \A s \in Site :
            \/ \A f \in pts[superOf[FunPtr[s]]] \cap Func : <<s, f>> \in resolved
            \/ NumTargets(resolved, s) = MaxIndirectTarget
      BY <3>1, CallsLookedAt
    <3>3. QED
      BY <1>2, <3>2 DEF Complete, CallInv, NumTargets
  <2>3. QED
    BY <2>1, <2>2
<1>8. VectorInv'
  BY <1>2 DEF Complete, VectorInv
<1>9. QED
  BY <1>1, <1>4, <1>5, <1>6, <1>7, <1>8 DEF Complete

LEMMA CompleteInductive == Complete /\ [Next]_vars => Complete'
<1> SUFFICES ASSUME Complete, [Next]_vars PROVE Complete'
  OBVIOUS
<1>1. CASE FindComponents
  BY <1>1, FindComponentsComplete
<1>2. CASE \E n \in nodes : ProcessNode(n)
  BY <1>2, ProcessNodeComplete
<1>3. CASE \E C \in pending : \E front \in C : ProcessCycle(C, front)
  BY <1>3, ProcessCycleComplete
<1>4. CASE ProcessComplexEdges
  BY <1>4, ProcessComplexEdgesComplete
<1>5. CASE ResolveCalls
  BY <1>5, ResolveCallsComplete
<1>6. CASE Finish
  BY <1>6, IdleComplete DEF Finish
<1>7. CASE Returned
  BY <1>7, IdleComplete DEF Returned, vars
<1>8. CASE UNCHANGED vars
  BY <1>8, IdleComplete DEF vars
<1>9. QED
  BY <1>1, <1>2, <1>3, <1>4, <1>5, <1>6, <1>7, <1>8 DEF Next

\* Everything is still to do when solve() begins.
LEMMA InitComplete ==
  ASSUME \A p \in Programs : VectorsComeWithTheCall(p), Init
  PROVE  Complete
<1>1. PICK p \in Programs :
        /\ body = p.body
        /\ cons = p.cons
        /\ nodes = UNION {NodesOf(c) : c \in p.cons}
        /\ superOf = [n \in Node |-> n]
        /\ edges = {e \in {Edge(c) : c \in p.cons} : ~SelfCopy(e)}
        /\ pts = NothingKnown
        /\ phase = "round"
        /\ copyWork = nodes
        /\ lsWork = nodes
        /\ handled = [n \in Ptr |-> {}]
        /\ resolved = {}
  BY DEF Init
<1>2. Shape
  BY InitShape
<1>3. \A e \in edges : e.src \in nodes /\ e.dst \in nodes
  BY <1>2 DEF Shape, EdgeInv, EdgeWithin
<1>4. CopyInv
  BY <1>1, <1>3 DEF CopyInv, CopyEdges, CopyScheduled, ShouldProcessCopy
<1>5. ComplexInv
  BY <1>1, <1>3 DEF ComplexInv, Watched
<1>6. HandledInv /\ InsertedInv
  BY <1>1 DEF HandledInv, InsertedInv, Placed
<1>7. CallInv
  <2>1. ASSUME NEW s \in Site
        PROVE  pts[superOf[FunPtr[s]]] = {}
    <3>1. FunPtr[s] \in Ptr /\ FunPtr[s] \in Node /\ superOf[FunPtr[s]] = FunPtr[s]
      BY <1>1, ObjectsAssumption, NodeFacts
    <3>2. QED
      BY <1>1, <3>1, NodeFacts DEF NothingKnown
  <2>2. QED
    BY <1>1, <2>1 DEF CallInv
<1>8. VectorInv
  <2> SUFFICES ASSUME NEW t \in Site \X Func, NEW c \in body[t] \ cons, c.kind = "special"
               PROVE  /\ c.src \in Ptr \ nodes
                      /\ \A u \in Site \X Func : Mentions(body[u], c.src) => c \in body[u]
    BY DEF VectorInv
  <2>1. c \in AllConstraints(p.cons, p.body) \ p.cons
    BY <1>1 DEF AllConstraints
  <2>2. /\ c.src \in Ptr /\ ~Mentions(cons, c.src)
        /\ \A u \in Site \X Func : Mentions(body[u], c.src) => c \in body[u]
    BY <1>1, <2>1 DEF VectorsComeWithTheCall
  <2>3. \A d \in cons : c.src \notin NodesOf(d)
    BY <2>2, NodeFacts DEF NodesOf, ObjectNodes, Mentions
  <2>4. QED
    BY <1>1, <2>2, <2>3
<1>9. QED
  BY <1>2, <1>4, <1>5, <1>6, <1>7, <1>8 DEF Complete

\* Between two rounds every edge is satisfied or scheduled, whatever order the
\* components were handled in and whatever was collapsed: if every vector
\* operation comes with the call it is in, the worklists forget nothing.
THEOREM NothingIsForgotten ==
  ASSUME \A p \in Programs : VectorsComeWithTheCall(p)
  PROVE  Spec => []NothingForgotten
<1>1. Init => Complete
  BY InitComplete
<1>2. Complete /\ [Next]_vars => Complete'
  BY CompleteInductive
<1>3. Complete => NothingForgotten
  <2> SUFFICES ASSUME Complete, phase \in {"round", "resolve", "done"}, NEW e \in edges
               PROVE  IF e.kind = "copy" THEN CopyScheduled(e) ELSE ComplexScheduled(e)
    BY DEF NothingForgotten
  <2>1. CASE e.kind = "copy"
    BY <2>1 DEF Complete, CopyInv, CopyEdges
  <2>2. CASE e.kind # "copy"
    BY <2>2, FollowedMeans DEF Complete, ComplexInv, ComplexScheduled
  <2>3. QED
    BY <2>1, <2>2
<1>4. QED
  BY <1>1, <1>2, <1>3, PTL DEF Spec

-----------------------------------------------------------------------------
(***************************************************************************)
(* Proofs about the constraints, for every set of them: LeastSolution, the *)
(* recursion that adds what is demanded until nothing is, yields a         *)
(* solution, and every solution has all that it has.                       *)
(*                                                                         *)
(* The recursion ends because the points-to sets can only grow so far:     *)
(* what is left of Node \X Obj shrinks with every step.  That there is a   *)
(* function with the recursive definition follows from Demand being        *)
(* monotone, which gives its values another way (Least).                   *)
(***************************************************************************)
\* One step of the recursion.
More(S, cs) == [n \in Node |-> S[n] \cup UNION {Demand(S, c, n) : c \in cs}]

\* What the recursive function in LeastSolution satisfies.
Climbs(h, cs) == h = [S \in Assignments |-> IF More(S, cs) = S THEN S ELSE h[More(S, cs)]]

Within(S, T) == \A n \in Node : S[n] \subseteq T[n]

Least(S, cs) ==
  [n \in Node |-> {o \in Obj : \A T \in Assignments : Within(S, T) /\ More(T, cs) = T
                                  => o \in T[n]}]

\* What the points-to sets do not have yet.
Room(S) == {p \in Node \X Obj : p[2] \notin S[p[1]]}

-----------------------------------------------------------------------------
LEMMA KindsOfNodes ==
  /\ Ptr \subseteq Node /\ Obj \subseteq Node /\ None \notin Obj
  /\ IsFiniteSet(Node) /\ IsFiniteSet(Obj)
<1>1. Ptr \subseteq Node /\ Obj \subseteq Node /\ None \notin Obj
  BY ObjectsAssumption DEF Node
<1>2. IsFiniteSet({Anon(o) : o \in Obj})
  <2>1. {Anon(o) : o \in Obj} \in SUBSET (Obj \X {"anon"})
    BY DEF Anon
  <2>2. IsFiniteSet(Obj \X {"anon"})
    BY FiniteAssumption, FS_Singleton, FS_Product
  <2>3. QED
    BY <2>1, <2>2, FS_Subset
<1>3. IsFiniteSet(Node)
  BY <1>2, FiniteAssumption, FS_Union DEF Node
<1>4. QED
  BY <1>1, <1>3, FiniteAssumption

\* A constraint demands objects only ...
LEMMA DemandType ==
  ASSUME NEW cs, cs \subseteq Constraint, WellFormed(cs), NEW c \in cs, NEW n \in Node,
         NEW S \in Assignments
  PROVE  Demand(S, c, n) \subseteq Obj
<1> USE KindsOfNodes
<1>1. /\ c.src \in Node /\ c.dst \in Node /\ c.kind \in Kinds
      /\ c.kind = "addr_of" => c.src \in Obj
      /\ c.kind = "special" => Param[c.dst] \in Ptr \cup {None}
  BY ObjectsAssumption DEF Constraint, WellFormed
<1>2. \A m \in Node : S[m] \subseteq Obj
  BY DEF Assignments
<1>3. \A o \in S[c.src] : S[o] \subseteq Obj
  BY <1>1, <1>2
<1>4. QED
  BY <1>1, <1>2, <1>3 DEF Demand, Kinds

\* ... and more of them when it is given more.
LEMMA DemandMonotone ==
  ASSUME NEW cs, cs \subseteq Constraint, WellFormed(cs), NEW c \in cs, NEW n \in Node,
         NEW S \in Assignments, NEW T \in Assignments, Within(S, T)
  PROVE  Demand(S, c, n) \subseteq Demand(T, c, n)
<1> USE KindsOfNodes
<1>1. /\ c.src \in Node /\ c.dst \in Node /\ c.kind \in Kinds
      /\ c.kind = "special" => Param[c.dst] \in Ptr \cup {None}
  BY ObjectsAssumption DEF Constraint, WellFormed
<1>2. S[c.src] \subseteq T[c.src] /\ S[c.dst] \subseteq T[c.dst] /\ S[c.src] \subseteq Obj
  BY <1>1 DEF Within, Assignments
<1>3. \A o \in S[c.src] : S[o] \subseteq T[o]
  BY <1>2 DEF Within
<1>4. CASE c.kind \in {"copy", "addr_of", "store", "offset"}
  BY <1>2, <1>4 DEF Demand
<1>5. CASE c.kind = "load"
  BY <1>2, <1>3, <1>5 DEF Demand
<1>6. CASE c.kind = "special" /\ Param[c.dst] = None
  BY <1>2, <1>6 DEF Demand
<1>7. CASE c.kind = "special" /\ Param[c.dst] # None
  <2>1. S[Param[c.dst]] \subseteq T[Param[c.dst]]
    BY <1>1, <1>7 DEF Within
  <2>2. QED
    BY <1>2, <1>7, <2>1 DEF Demand
<1>8. QED
  BY <1>1, <1>4, <1>5, <1>6, <1>7 DEF Kinds

LEMMA MoreFacts ==
  ASSUME NEW cs, cs \subseteq Constraint, WellFormed(cs), NEW S \in Assignments
  PROVE  /\ More(S, cs) \in Assignments /\ Within(S, More(S, cs))
         /\ \A T \in Assignments : Within(S, T) /\ More(T, cs) = T => Within(More(S, cs), T)
         /\ More(S, cs) = S <=> \A c \in cs, n \in Node : Demand(S, c, n) \subseteq S[n]
<1>1. \A n \in Node : S[n] \subseteq Obj
  BY DEF Assignments
<1>2. \A c \in cs, n \in Node : Demand(S, c, n) \subseteq Obj
  BY DemandType
<1>3. More(S, cs) \in Assignments
  BY <1>1, <1>2 DEF More, Assignments
<1>4. Within(S, More(S, cs))
  BY DEF More, Within
<1>5. ASSUME NEW T \in Assignments, Within(S, T), More(T, cs) = T
      PROVE  Within(More(S, cs), T)
  <2>1. \A c \in cs, n \in Node : Demand(T, c, n) \subseteq T[n]
    BY <1>5 DEF More
  <2>2. \A c \in cs, n \in Node : Demand(S, c, n) \subseteq T[n]
    BY <1>5, <2>1, DemandMonotone
  <2>3. QED
    BY <1>5, <2>2 DEF More, Within
<1>6. More(S, cs) = S => \A c \in cs, n \in Node : Demand(S, c, n) \subseteq S[n]
  BY DEF More
<1>7. ASSUME \A c \in cs, n \in Node : Demand(S, c, n) \subseteq S[n]
      PROVE  More(S, cs) = S
  <2>1. \A n \in Node : S[n] \cup UNION {Demand(S, c, n) : c \in cs} = S[n]
    BY <1>7
  <2>2. S = [n \in Node |-> S[n]]
    BY DEF Assignments
  <2>3. QED
    BY <2>1, <2>2 DEF More
<1>8. QED
  BY <1>3, <1>4, <1>5, <1>6, <1>7

\* The recursive function exists.
LEMMA ClimbExists ==
  ASSUME NEW cs, cs \subseteq Constraint, WellFormed(cs)
  PROVE  \E h : Climbs(h, cs)
<1> DEFINE least == [S \in Assignments |-> Least(S, cs)]
<1>1. ASSUME NEW S \in Assignments, More(S, cs) = S
      PROVE  Least(S, cs) = S
  <2>1. \A n \in Node : S[n] \subseteq Obj
    BY DEF Assignments
  <2>2. \A n \in Node : Least(S, cs)[n] = S[n]
    BY <1>1, <2>1 DEF Least, Within
  <2>3. QED
    BY <2>2 DEF Least, Assignments
<1>2. ASSUME NEW S \in Assignments
      PROVE  Least(S, cs) = Least(More(S, cs), cs)
  <2>1. \A T \in Assignments : More(T, cs) = T => (Within(S, T) <=> Within(More(S, cs), T))
    BY MoreFacts DEF Within
  <2>2. QED
    BY <2>1 DEF Least
<1>3. Climbs(least, cs)
  <2>1. \A S \in Assignments :
          Least(S, cs) = IF More(S, cs) = S THEN S ELSE least[More(S, cs)]
    BY <1>1, <1>2, MoreFacts
  <2>2. QED
    BY <2>1 DEF Climbs
<1>4. QED
  BY <1>3

\* Whatever it is, it ends at a fixed point, and at the least above its argument.
LEMMA ClimbEnds ==
  ASSUME NEW cs, cs \subseteq Constraint, WellFormed(cs), NEW h, Climbs(h, cs),
         NEW S \in Assignments
  PROVE  /\ h[S] \in Assignments /\ More(h[S], cs) = h[S] /\ Within(S, h[S])
         /\ \A T \in Assignments : Within(S, T) /\ More(T, cs) = T => Within(h[S], T)
<1> DEFINE Good(R) ==
             /\ h[R] \in Assignments /\ More(h[R], cs) = h[R] /\ Within(R, h[R])
             /\ \A T \in Assignments : Within(R, T) /\ More(T, cs) = T => Within(h[R], T)
           Bad == {R \in Assignments : ~Good(R)}
           rooms == {Room(R) : R \in Bad}
           less == StrictSubsetOrdering(Node \X Obj)
<1>1. SUFFICES ASSUME Bad # {} PROVE FALSE
  OBVIOUS
<1>2. IsWellFoundedOn(less, SUBSET (Node \X Obj))
  BY KindsOfNodes, FS_Product, FS_FiniteSubsetsOfFinite, FS_StrictSubsetOrderingWellFounded
<1>3. rooms \subseteq SUBSET (Node \X Obj) /\ rooms # {}
  <2>1. \A R \in Bad : Room(R) \subseteq Node \X Obj
    BY DEF Room
  <2>2. PICK R \in Bad : TRUE
    BY <1>1
  <2>3. Room(R) \in rooms
    BY <2>2
  <2>4. QED
    BY <2>1, <2>3
<1>4. PICK room \in rooms : \A other \in rooms : <<other, room>> \notin less
  <2> HIDE DEF rooms, less
  <2>1. QED
    BY <1>2, <1>3, WFMin
<1>5. PICK R \in Bad : room = Room(R)
  BY <1>4
<1>6. h[R] = IF More(R, cs) = R THEN R ELSE h[More(R, cs)]
  BY <1>5 DEF Climbs
<1>7. CASE More(R, cs) = R
  <2>1. h[R] = R /\ R \in Assignments
    BY <1>5, <1>6, <1>7
  <2>2. Within(R, R)
    BY DEF Within
  <2>3. Good(R)
    BY <1>7, <2>1, <2>2
  <2>4. QED
    BY <1>5, <2>3
<1>8. CASE More(R, cs) # R
  <2> DEFINE M == More(R, cs)
  <2>1. M \in Assignments /\ Within(R, M) /\ h[R] = h[M]
    BY <1>5, <1>6, <1>8, MoreFacts
  <2>2. <<Room(M), Room(R)>> \in less
    <3>1. Room(M) \subseteq Room(R)
      BY <2>1 DEF Room, Within
    <3>2. PICK n \in Node : M[n] # R[n]
      <4> HIDE DEF M
      <4>1. QED
        BY <1>5, <1>8, <2>1 DEF Assignments, M
    <3>3. PICK o \in Obj : o \in M[n] /\ o \notin R[n]
      <4>1. M[n] \subseteq Obj /\ R[n] \subseteq M[n]
        BY <1>5, <2>1, <3>2 DEF Assignments, Within
      <4>2. QED
        BY <3>2, <4>1
    <3>4. <<n, o>> \in Room(R) /\ <<n, o>> \notin Room(M)
      BY <3>3 DEF Room
    <3>5. Room(M) \in SUBSET (Node \X Obj) /\ Room(R) \in SUBSET (Node \X Obj)
      BY DEF Room
    <3>6. QED
      BY <3>1, <3>4, <3>5 DEF StrictSubsetOrdering
  <2>3. M \notin Bad
    BY <1>4, <1>5, <2>2
  <2>4. Good(M)
    BY <2>1, <2>3
  <2>5. Within(R, h[M])
    BY <2>1, <2>4 DEF Within
  <2>6. \A T \in Assignments : Within(R, T) /\ More(T, cs) = T => Within(M, T)
    BY <1>5, MoreFacts
  <2>7. Good(R)
    BY <2>1, <2>4, <2>5, <2>6
  <2>8. QED
    BY <1>5, <2>7
<1>9. QED
  BY <1>7, <1>8

\* The reference the solver is compared with is what its name says: adding
\* what the constraints demand until nothing is missing ends, in a solution, and
\* every solution contains it.
THEOREM LeastSolutionIsLeast ==
  ASSUME NEW cs, cs \subseteq Constraint, WellFormed(cs)
  PROVE  /\ LeastSolution(cs) \in Assignments
         /\ IsSolution(LeastSolution(cs), cs)
         /\ \A T \in Assignments : IsSolution(T, cs) => Within(LeastSolution(cs), T)
<1> DEFINE h == CHOOSE h : Climbs(h, cs)
<1>1. LeastSolution(cs) = h[NothingKnown]
  BY Zenon DEF LeastSolution, Climbs, More
<1>2. Climbs(h, cs)
  BY ClimbExists
<1>3. NothingKnown \in Assignments
  BY DEF NothingKnown, Assignments
<1> HIDE DEF h
<1>4. /\ h[NothingKnown] \in Assignments /\ More(h[NothingKnown], cs) = h[NothingKnown]
      /\ Within(NothingKnown, h[NothingKnown])
      /\ \A T \in Assignments : Within(NothingKnown, T) /\ More(T, cs) = T
           => Within(h[NothingKnown], T)
  BY <1>2, <1>3, ClimbEnds
<1>5. IsSolution(h[NothingKnown], cs)
  BY <1>4, MoreFacts DEF IsSolution, Within
<1>6. \A T \in Assignments : IsSolution(T, cs) => Within(NothingKnown, T) /\ More(T, cs) = T
  BY MoreFacts DEF IsSolution, Within
<1>7. QED
  BY <1>1, <1>4, <1>5, <1>6

-----------------------------------------------------------------------------
(***************************************************************************)
(* Proof that the solver implements PointsTo, for every program whose      *)
(* vector operations come with the calls they are in.  Only three kinds of *)
(* steps show in the abstract specification: processing components lets    *)
(* the points-to sets grow, resolving calls adds callees, and the end of   *)
(* the loops finishes.                                                     *)
(***************************************************************************)
\* The least solution of the abstract specification is that of the constraints.
LEMMA SameLeastSolution ==
  ASSUME NEW cs
  PROVE  PointsToSpec!LeastSolution(cs) = LeastSolution(cs)
BY Zenon DEF PointsToSpec!LeastSolution, LeastSolution, PointsToSpec!Assignments,
  Assignments, PointsToSpec!Node, Node, PointsToSpec!Anon, Anon, PointsToSpec!Demand,
  Demand, PointsToSpec!NothingKnown, NothingKnown

LEMMA SameWords ==
  /\ \A S, cs : PointsToSpec!IsSolution(S, cs) <=> IsSolution(S, cs)
  /\ PointsToSpec!NothingKnown = NothingKnown
  /\ PointsToSpec!Node = Node
BY Zenon DEF PointsToSpec!IsSolution, IsSolution, PointsToSpec!Node, Node, PointsToSpec!Anon,
  Anon, PointsToSpec!Demand, Demand, PointsToSpec!NothingKnown, NothingKnown

(***************************************************************************)
(* Growing within the least solution.                                      *)
(***************************************************************************)
LEMMA SolWithinLeast == Complete => Within(Sol, LeastSolution(cons))
<1> SUFFICES ASSUME Complete PROVE Within(Sol, LeastSolution(cons))
  OBVIOUS
<1>1. cons \subseteq Constraint /\ WellFormed(cons)
  BY ShapeFacts DEF Complete, WellFormed
<1>2. LeastSolution(cons) \in Assignments /\ IsSolution(LeastSolution(cons), cons)
  BY <1>1, LeastSolutionIsLeast
<1>3. NothingInvented
  BY InvNothingInvented DEF Complete, Shape
<1>4. QED
  BY <1>2, <1>3 DEF NothingInvented, Within

LEMMA SolWithinLeastNext == Complete' => Within(Sol, LeastSolution(cons))'
BY SolWithinLeast, PTL

\* A step that changes nothing but points-to sets, and lets them grow.
LEMMA GrowMapped ==
  ASSUME Complete, Complete', UNCHANGED <<body, cons, resolved>>,
         phase # "done", phase' # "done", Within(Sol, Sol')
  PROVE  PointsToSpec!Grow \/ UNCHANGED PointsToSpec!vars
<1>1. Within(Sol', LeastSolution(cons))
  <2>1. Within(Sol, LeastSolution(cons))'
    BY SolWithinLeastNext
  <2>2. Within(Sol', LeastSolution(cons'))
    BY <2>1
  <2>3. QED
    BY <2>2
<1>2. (phase = "done") <=> FALSE
  OBVIOUS
<1>3. (phase' = "done") <=> FALSE
  OBVIOUS
<1>4. CASE Sol' = Sol
  BY <1>2, <1>3, <1>4, Zenon DEF PointsToSpec!vars
<1>5. CASE Sol' # Sol
  <2>1. \A n \in Node : Sol[n] \subseteq Sol'[n] /\ Sol'[n] \subseteq LeastSolution(cons)[n]
    BY <1>1 DEF Within
  <2>2. QED
    BY <1>2, <1>3, <1>5, <2>1, SameLeastSolution, SameWords, Zenon DEF PointsToSpec!Grow
<1>6. QED
  BY <1>4, <1>5

LEMMA ProcessNodeMapped ==
  ASSUME Complete, Complete', NEW n \in nodes, ProcessNode(n)
  PROVE  PointsToSpec!Grow \/ UNCHANGED PointsToSpec!vars
<1>1. PICK ds : pts' = Propagated(n, ds, pts)
  BY DEF ProcessNode
<1>2. phase = "copy" /\ UNCHANGED <<superOf, body, cons, phase, resolved>>
  BY DEF ProcessNode
<1>3. \A m \in Node : superOf[m] \in Node
  BY ShapeFacts DEF Complete
<1>4. Within(Sol, Sol')
  BY <1>1, <1>2, <1>3 DEF Within, Sol, Propagated
<1>5. QED
  BY <1>2, <1>4, GrowMapped

LEMMA ProcessCycleMapped ==
  ASSUME Complete, Complete', NEW C \in pending, NEW front \in C, ProcessCycle(C, front)
  PROVE  PointsToSpec!Grow \/ UNCHANGED PointsToSpec!vars
<1>1. /\ phase = "copy" /\ UNCHANGED <<body, cons, phase, resolved>>
      /\ \A n \in Node : superOf'[n] = To(C, front, superOf[n])
      /\ \A n \in Node : pts[n] \subseteq pts'[To(C, front, n)]
  BY CycleFacts DEF Complete
<1>2. \A m \in Node : superOf[m] \in Node
  BY ShapeFacts DEF Complete
<1>3. Within(Sol, Sol')
  BY <1>1, <1>2 DEF Within, Sol
<1>4. QED
  BY <1>1, <1>3, GrowMapped

-----------------------------------------------------------------------------
(***************************************************************************)
(* Callees.                                                                *)
(***************************************************************************)
LEMMA ResolveCallsMapped ==
  ASSUME Complete, Complete', ResolveCalls
  PROVE  PointsToSpec!AddCallees
<1>1. phase = "resolve" /\ phase' = "round" /\ UNCHANGED <<superOf, pts, body>>
  BY DEF ResolveCalls
<1>2. PICK new \in SUBSET Found : /\ resolved' = resolved \cup new
                                  /\ cons' = cons \cup UNION {body[t] : t \in new}
  BY DEF ResolveCalls
<1>3. UNCHANGED Sol
  BY <1>1 DEF Sol
<1>4. \A t \in new : t[2] \in Sol[FunPtr[t[1]]] \cap Func
  <2> SUFFICES ASSUME NEW t \in new PROVE t[2] \in Sol[FunPtr[t[1]]] \cap Func
    OBVIOUS
  <2>1. t \in Site \X Func /\ t[2] \in pts[superOf[FunPtr[t[1]]]]
    BY DEF Found
  <2>2. FunPtr[t[1]] \in Node
    BY <2>1, ObjectsAssumption, NodeFacts
  <2>3. QED
    BY <2>1, <2>2 DEF Sol
<1>5. cons' = cons \cup UNION {body[t] : t \in resolved'}
  BY <1>2 DEF Complete, CallInv
<1>6. (phase = "done") <=> FALSE
  BY <1>1
<1>7. (phase' = "done") <=> FALSE
  BY <1>1
<1>8. /\ UNCHANGED body /\ resolved \subseteq resolved'
      /\ \A t \in resolved' \ resolved : t[2] \in Sol[FunPtr[t[1]]] \cap Func
  BY <1>1, <1>2, <1>4
<1>9. QED
  BY <1>3, <1>5, <1>6, <1>7, <1>8, Zenon DEF PointsToSpec!AddCallees

-----------------------------------------------------------------------------
(***************************************************************************)
(* What solve() returns.                                                   *)
(***************************************************************************)
\* A copy that is in the graph has carried everything over.
LEMMA PlacedCarries ==
  ASSUME Complete, phase = "resolve", NEW m \in Node, NEW n \in Node, Placed(Copy(m, n))
  PROVE  Sol[m] \subseteq Sol[n]
<1>1. CASE superOf[m] = superOf[n]
  BY <1>1 DEF Sol
<1>2. CASE Copy(superOf[m], superOf[n]) \in edges
  <2> DEFINE e == Copy(superOf[m], superOf[n])
  <2>1. e \in CopyEdges /\ e.src = superOf[m] /\ e.dst = superOf[n]
    BY <1>2 DEF CopyEdges, Copy
  <2>2. copyWork = {}
    BY DEF Complete, Shape, ListInv
  <2>3. pts[e.src] \subseteq pts[e.dst]
    <3> HIDE DEF e
    <3>1. QED
      BY <2>1, <2>2 DEF Complete, CopyInv, CopyScheduled
  <2>4. QED
    BY <2>1, <2>3 DEF Sol
<1>3. QED
  BY <1>1, <1>2, PlacedCopy

\* Every constraint that is in the graph is satisfied.
LEMMA ConstraintSatisfied ==
  ASSUME Complete, phase = "resolve", NEW c \in cons, NEW n \in Node
  PROVE  Demand(Sol, c, n) \subseteq Sol[n]
<1>1. /\ c.src \in Node /\ c.dst \in Node /\ c.kind \in Kinds
      /\ c.kind = "addr_of" => c.src \in Obj
      /\ c.kind \in {"offset", "special"} => c.dst \in Results /\ superOf[c.dst] = c.dst
  <2>1. c \in Constraint /\ c \in Known /\ WellFormed(Known)
    BY ShapeFacts DEF Complete
  <2>2. c.kind \in {"offset", "special"} => c.dst \in Results
    BY <2>1 DEF Results
  <2>3. QED
    BY <2>1, <2>2, ShapeFacts DEF Complete, Constraint, WellFormed, Single
<1>2. Placed(c)
  BY DEF Complete, InsertedInv
<1>3. /\ \A m \in Node : superOf[m] \in Node /\ superOf[superOf[m]] = superOf[m]
      /\ \A m \in Node : Sol[m] = pts[superOf[m]] /\ Sol[superOf[m]] = Sol[m]
      /\ \A m \in Node : Sol[m] \subseteq Obj
  BY ShapeFacts DEF Complete, Shape, SuperInv, Sol
<1>4. CASE c.kind = "copy"
  <2>1. Placed(Copy(c.src, c.dst))
    BY <1>2, <1>4 DEF Placed, Edge, Copy, SelfCopy
  <2>2. QED
    BY <1>1, <1>4, <2>1, PlacedCarries DEF Demand
<1>5. CASE c.kind = "addr_of"
  <2>1. Anon(c.src) \in Node
    BY <1>1, <1>5, NodeFacts
  <2>2. Placed(Copy(Anon(c.src), c.dst))
    BY <1>2, <1>5 DEF Placed, Edge, Copy, SelfCopy
  <2>3. Sol[Anon(c.src)] \subseteq Sol[c.dst]
    BY <1>1, <2>1, <2>2, PlacedCarries
  <2>4. c.src \in Sol[Anon(c.src)]
    BY <1>1, <1>5, <2>1 DEF Complete, Shape, PtsInv, Sol, NothingKnown
  <2>5. QED
    BY <1>5, <2>3, <2>4 DEF Demand
<1>6. CASE c.kind \in {"load", "store", "offset", "special"}
  <2>1. PICK e \in edges : /\ e.kind = c.kind
                           /\ e.src = superOf[c.src] /\ e.dst = superOf[c.dst]
    <3>1. Edge(c).kind = c.kind /\ Edge(c).src = superOf[c.src] /\ Edge(c).dst = superOf[c.dst]
      BY <1>6 DEF Edge
    <3>2. ~SelfCopy(Edge(c))
      BY <1>6, <3>1 DEF SelfCopy
    <3>3. QED
      BY <1>2, <3>1, <3>2 DEF Placed
  <2>2. Followed(e)
    <3>1. lsWork = {}
      BY DEF Complete, Shape, ListInv
    <3>2. QED
      BY <1>6, <2>1, <3>1 DEF Complete, ComplexInv
  <2>3. pts[e.src] = Sol[c.src] /\ pts[e.dst] = Sol[c.dst] /\ Sol[e.src] = Sol[c.src]
        /\ Sol[e.dst] = Sol[c.dst] /\ e.src \in Node /\ e.dst \in Node
    BY <1>1, <1>3, <2>1
  <2>4. CASE c.kind = "load"
    <3>1. \A o \in Sol[c.src] : Sol[o] \subseteq Sol[e.dst]
      BY <1>1, <1>3, <2>1, <2>2, <2>3, <2>4, NodeFacts, PlacedCarries DEF Followed
    <3>2. QED
      BY <2>3, <2>4, <3>1 DEF Demand
  <2>5. CASE c.kind = "store"
    <3>1. \A o \in Sol[c.dst] \ Immutable : Sol[e.src] \subseteq Sol[o]
      BY <1>1, <1>3, <2>1, <2>2, <2>3, <2>5, NodeFacts, PlacedCarries DEF Followed
    <3>2. QED
      BY <2>3, <2>5, <3>1 DEF Demand
  <2>6. CASE c.kind = "offset"
    <3>1. ASSUME NEW o \in Sol[c.src], Field[o] \in Obj
          PROVE  Field[o] \in Sol[c.dst]
      <4>1. Anon(Field[o]) \in Node /\ Field[o] \in Node
        BY <3>1, NodeFacts
      <4>2. CASE Field[o] \in pts[e.dst]
        BY <2>3, <4>2
      <4>3. CASE Placed(Copy(Anon(Field[o]), e.dst))
        <5>1. Sol[Anon(Field[o])] \subseteq Sol[e.dst]
          BY <2>3, <4>1, <4>3, PlacedCarries
        <5>2. Field[o] \in Sol[Anon(Field[o])]
          BY <3>1, <4>1 DEF Complete, Shape, PtsInv, Sol, NothingKnown
        <5>3. QED
          BY <2>3, <5>1, <5>2
      <4>4. QED
        BY <2>1, <2>2, <2>3, <2>6, <3>1, <4>2, <4>3 DEF Followed
    <3>2. QED
      BY <2>6, <3>1 DEF Demand
  <2>7. CASE c.kind = "special"
    <3>1. e.dst = c.dst
      BY <1>1, <2>1, <2>7
    <3>2. CASE Param[c.dst] = None
      <4>1. ASSUME NEW o \in Sol[c.src], Elem[o] \in Obj
            PROVE  Elem[o] \in Sol[c.dst]
        <5>1. Anon(Elem[o]) \in Node
          BY <4>1, NodeFacts
        <5>2. Placed(Copy(Anon(Elem[o]), e.dst))
          BY <2>1, <2>2, <2>3, <2>7, <3>1, <3>2, <4>1 DEF Followed
        <5>3. Sol[Anon(Elem[o])] \subseteq Sol[e.dst]
          BY <2>3, <5>1, <5>2, PlacedCarries
        <5>4. Elem[o] \in Sol[Anon(Elem[o])]
          BY <4>1, <5>1 DEF Complete, Shape, PtsInv, Sol, NothingKnown
        <5>5. QED
          BY <2>3, <5>3, <5>4
      <4>2. QED
        BY <2>7, <3>2, <4>1 DEF Demand
    <3>3. CASE Param[c.dst] # None
      <4>1. Param[c.dst] \in Node
        BY <1>1, <2>7, <3>3, ResultFacts, ShapeFacts, ObjectsAssumption, NodeFacts DEF Complete
      <4>2. ASSUME NEW o \in Sol[c.src], n = Elem[o]
            PROVE  Sol[Param[c.dst]] \subseteq Sol[n]
        <5>1. o \in Obj /\ Elem[o] \in Obj
          BY <1>1, <1>3, <4>2, ObjectsAssumption
        <5>2. Placed(Copy(Param[e.dst], Elem[o]))
          BY <2>1, <2>2, <2>3, <2>7, <3>1, <3>3, <4>2, <5>1 DEF Followed
        <5>3. QED
          BY <3>1, <4>1, <4>2, <5>2, PlacedCarries
      <4>3. QED
        BY <2>7, <3>3, <4>2 DEF Demand
    <3>4. QED
      BY <3>2, <3>3
  <2>8. QED
    BY <1>6, <2>4, <2>5, <2>6, <2>7
<1>7. QED
  BY <1>1, <1>4, <1>5, <1>6 DEF Kinds

LEMMA FinishMapped ==
  ASSUME Complete, Finish
  PROVE  PointsToSpec!Finish
<1>1. /\ phase = "resolve" /\ phase' = "done" /\ KeptWithinLimit({})
      /\ UNCHANGED <<superOf, pts, body, cons, resolved>>
  BY DEF Finish, graphVars
<1>2. IsSolution(Sol, cons)
  <2>1. \A n \in Node : NothingKnown[n] \subseteq Sol[n]
    BY DEF Complete, Shape, PtsInv, Sol
  <2>2. QED
    BY <1>1, <2>1, ConstraintSatisfied DEF IsSolution
<1>3. PointsToSpec!CallsResolved(resolved, Sol)
  <2>1. ASSUME NEW s \in Site
        PROVE  \/ \A f \in Sol[FunPtr[s]] \cap Func : <<s, f>> \in resolved
               \/ Cardinality({t \in resolved : t[1] = s}) = MaxIndirectTarget
    <3>1. PICK none \in SUBSET Found : none = {}
      OBVIOUS
    <3>2. \/ \A f \in pts[superOf[FunPtr[s]]] \cap Func : <<s, f>> \in resolved \cup none
          \/ NumTargets(resolved \cup none, s) = MaxIndirectTarget
      BY <1>1, <3>1, CallsLookedAt
    <3>3. resolved \cup none = resolved
      BY <3>1
    <3>4. FunPtr[s] \in Node
      BY ObjectsAssumption, NodeFacts
    <3>5. QED
      BY <3>2, <3>3, <3>4 DEF NumTargets, Sol
  <2>2. QED
    BY <2>1, Zenon DEF PointsToSpec!CallsResolved, PointsToSpec!TargetsIn,
      PointsToSpec!Cardinality, Cardinality
<1>4. UNCHANGED Sol
  BY <1>1 DEF Sol
<1>5. (phase' = "done") = TRUE
  BY <1>1
<1>6. QED
  BY <1>1, <1>2, <1>3, <1>4, <1>5, SameWords, Zenon DEF PointsToSpec!Finish

-----------------------------------------------------------------------------
\* Every step maps to a step or a stutter.
LEMMA StepMapped ==
  ASSUME Complete, Complete', [Next]_vars
  PROVE  [PointsToSpec!Next]_(PointsToSpec!vars)
<1>1. ASSUME UNCHANGED <<superOf, pts, body, cons, resolved>>,
             (phase = "done") <=> (phase' = "done")
      PROVE  UNCHANGED PointsToSpec!vars
  <2>1. UNCHANGED Sol
    BY <1>1 DEF Sol
  <2>2. (phase = "done") = (phase' = "done")
    BY <1>1
  <2>3. QED
    BY <1>1, <2>1, <2>2, Zenon DEF PointsToSpec!vars
<1>2. CASE FindComponents
  BY <1>1, <1>2 DEF FindComponents, graphVars
<1>3. CASE \E n \in nodes : ProcessNode(n)
  <2>1. phase = "copy"
    BY <1>3 DEF ProcessNode
  <2>2. QED
    BY <1>3, <2>1, ProcessNodeMapped DEF PointsToSpec!Next
<1>4. CASE \E C \in pending : \E front \in C : ProcessCycle(C, front)
  <2>1. phase = "copy"
    BY <1>4 DEF ProcessCycle
  <2>2. QED
    BY <1>4, <2>1, ProcessCycleMapped DEF PointsToSpec!Next
<1>5. CASE ProcessComplexEdges
  BY <1>1, <1>5 DEF ProcessComplexEdges
<1>6. CASE ResolveCalls
  <2>1. phase = "resolve"
    BY <1>6 DEF ResolveCalls
  <2>2. QED
    BY <1>6, <2>1, ResolveCallsMapped DEF PointsToSpec!Next
<1>7. CASE Finish
  <2>1. phase = "resolve"
    BY <1>7 DEF Finish
  <2>2. QED
    BY <1>7, <2>1, FinishMapped DEF PointsToSpec!Next
<1>8. CASE Returned \/ UNCHANGED vars
  BY <1>1, <1>8 DEF Returned, vars, graphVars
<1>9. QED
  BY <1>2, <1>3, <1>4, <1>5, <1>6, <1>7, <1>8 DEF Next

LEMMA InitMapped ==
  ASSUME Init
  PROVE  PointsToSpec!Init
<1>1. /\ superOf = [n \in Node |-> n] /\ pts = NothingKnown
      /\ resolved = {} /\ phase = "round"
  BY DEF Init
<1>2. Sol = NothingKnown
  BY <1>1 DEF Sol, NothingKnown
<1>3. (phase = "done") = FALSE
  BY <1>1
<1>4. QED
  BY <1>1, <1>2, <1>3, SameWords, Zenon DEF PointsToSpec!Init

\* The solver computes what a points-to analysis promises: whatever is collapsed
\* and in whatever order, the points-to sets stay within the least solution, a
\* callee is one its call site can reach, and what solve() returns is a solution
\* in which every call site has all its targets, or as many as it may have.
THEOREM SolverImplementsPointsTo ==
  ASSUME \A p \in Programs : VectorsComeWithTheCall(p)
  PROVE  Spec => Implements
<1>1. Init => Complete /\ PointsToSpec!Init
  BY InitComplete, InitMapped
<1>2. Complete /\ [Next]_vars => Complete'
  BY CompleteInductive
<1>3. Complete /\ Complete' /\ [Next]_vars => [PointsToSpec!Next]_(PointsToSpec!vars)
  BY StepMapped
<1>4. QED
  BY <1>1, <1>2, <1>3, PTL DEF Spec, Implements, PointsToSpec!Spec
=============================================================================
