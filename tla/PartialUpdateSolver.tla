------------------------ MODULE PartialUpdateSolver ------------------------
(***************************************************************************)
(* The solver of the pointer analysis                                      *)
(* (PointerAnalysis/Solver/PartialUpdateSolver.h): rounds of two phases,   *)
(*   "copy"     the strongly connected components that the unhandled nodes *)
(*              reach are taken in topological order; cycles are collapsed *)
(*              and points-to sets propagated along copy edges;            *)
(*   then load, store, offset and special edges of the changed nodes add   *)
(*              copy edges, recorded for the next round;                   *)
(* until nothing is unhandled.  Then the indirect calls whose pointers     *)
(* changed are resolved ("resolve"), which may add nodes and constraints,  *)
(* and the rounds start again.                                             *)
(*                                                                         *)
(* A bit of a worklist that is not set in the code means "to do": the sets *)
(* here hold the nodes whose bit is not set.                               *)
(***************************************************************************)
EXTENDS ConstraintGraph

CONSTANT Programs  \* records [cons, body]: initial constraints, and those
                   \* each <<call site, function>> adds when it is resolved

\* The constraints a program may ever pose.
AllConstraints(cs, b) == cs \cup UNION {b[t] : t \in Site \X Func}

ASSUME ProgramsAssumption ==
  \A p \in Programs :
    /\ p.cons \subseteq Constraint
    /\ p.body \in [Site \X Func -> SUBSET Constraint]
    /\ WellFormed(AllConstraints(p.cons, p.body))
    /\ LoadsWhatItPushes(p.cons)
    /\ \A t \in Site \X Func :
         LoadsWhatItPushes(p.body[t]) /\ \A c \in p.body[t] : c.dst \notin Immutable

(***************************************************************************)
(* The vector operations of a callee are on pointers that come with it.    *)
(* The call back of the solver does not see a vector operation on a        *)
(* pointer that was known before the call was resolved.                    *)
(***************************************************************************)
Mentions(cs, n) == \E d \in cs : n \in {d.src, d.dst}

VectorsComeWithTheCall(p) ==
  \A c \in AllConstraints(p.cons, p.body) \ p.cons : c.kind = "special" =>
    /\ c.src \in Ptr
    /\ ~Mentions(p.cons, c.src)
    /\ \A t \in Site \X Func : Mentions(p.body[t], c.src) => c \in p.body[t]

VARIABLES
  body,         \* of the program being analysed
  cons,         \* history: every constraint of the program so far
  phase,        \* "round", "copy", "resolve" or "done"
  pending,      \* copySCCStack: the components still to be handled
  copyWork,     \* copyWorkList: nodes whose copy edges are unhandled
  lsWork,       \* lsWorkList: nodes whose points-to set has changed
  target,       \* targetList: nodes at the end of a recorded copy edge
  required,     \* requiredEdge: the recorded copy edges
  handled,      \* handledGEPMap: objects an offset target has dealt with
  updatedFunPtrs,  \* function pointers whose points-to set has changed
  resolved      \* the <<call site, function>> pairs resolved so far

workVars == <<copyWork, lsWork, target, required>>

vars == <<graphVars, body, cons, phase, pending, workVars, handled,
          updatedFunPtrs, resolved>>

IsFunctionPtr(n, sup) == \E s \in Site : sup[FunPtr[s]] = n

FunctionPtrs(S, sup) == {n \in S : IsFunctionPtr(n, sup)}

-----------------------------------------------------------------------------
\* analyze() has built the constraint graph; solve() begins.
Init ==
  \E p \in Programs :
    /\ body = p.body
    /\ cons = p.cons
    /\ nodes = UNION {NodesOf(c) : c \in p.cons}
    /\ superOf = [n \in Node |-> n]
    /\ edges = {e \in {Edge(c) : c \in p.cons} : ~SelfCopy(e)}
    /\ pts = NothingKnown
    /\ phase = "round"
    /\ pending = {}
    /\ copyWork = nodes
    /\ lsWork = nodes
    /\ target = nodes
    /\ required = {}
    /\ handled = [n \in Ptr |-> {}]
    /\ updatedFunPtrs = {}
    /\ resolved = {}

(***************************************************************************)
(* A round starts with the list of components; it is not updated while     *)
(* they are handled.                                                       *)
(***************************************************************************)
FindComponents ==
  /\ phase = "round"
  /\ phase' = "copy"
  /\ pending' = Components({n \in copyWork : superOf[n] = n})
  /\ UNCHANGED <<graphVars, body, cons, workVars, handled, updatedFunPtrs, resolved>>

\* The stack yields the components in topological order.
IsNext(C) ==
  /\ C \in pending
  /\ \A e \in CopyEdges : e.dst \in C => \A D \in pending \ {C} : e.src \notin D

ShouldProcessCopy_OnlyChanged(n, d) == n \in lsWork

ShouldProcessCopy(n, d) ==
  \/ n \in lsWork
  \/ d \in target /\ n \in copyWork /\ Copy(n, d) \in required

\* processCopy(n, d): the points-to set of d changes unless it has all of n's.
Changed(n, ds, p) == {d \in ds : ~(p[n] \subseteq p[d])}

Propagated(n, ds, p) == [d \in Node |-> IF d \in ds THEN p[d] \cup p[n] ELSE p[d]]

ProcessNode(n) ==
  LET ds == {d \in CopySuccs(n) : ShouldProcessCopy(n, d)}
      changed == Changed(n, ds, pts)
  IN /\ phase = "copy"
     /\ IsNext({n})
     /\ pending' = pending \ {{n}}
     /\ pts' = Propagated(n, ds, pts)
     /\ lsWork' = lsWork \cup changed
     /\ updatedFunPtrs' = updatedFunPtrs \cup FunctionPtrs(changed, superOf)
     /\ UNCHANGED <<nodes, edges, superOf, body, cons, phase, copyWork, target,
                    required, handled, resolved>>

\* The nodes marked as changed: the front, and those its copies changed.
CycleChanged(front, changed) == {front} \cup changed

(***************************************************************************)
(* processCopySCC: a component of several nodes is collapsed into one of   *)
(* them, whose copy edges are then all processed.                          *)
(***************************************************************************)
ProcessCycle(C, front) ==
  LET merged == MergedPts(C, front)
      ds == {e.dst : e \in {e \in CollapsedEdges(C, front) :
                              e.kind = "copy" /\ e.src = front}}
      changed == Changed(front, ds, merged)
      sup == CollapsedSuper(C, front)
  IN /\ phase = "copy"
     /\ Cardinality(C) > 1
     /\ IsNext(C)
     /\ pending' = pending \ {C}
     /\ edges' = CollapsedEdges(C, front)
     /\ superOf' = sup
     /\ pts' = Propagated(front, ds, merged)
     /\ target' = IF C \cap target = {} THEN target ELSE target \cup {front}
     /\ lsWork' = lsWork \cup CycleChanged(front, changed)
     /\ updatedFunPtrs' = updatedFunPtrs \cup FunctionPtrs({front} \cup changed, sup)
     /\ UNCHANGED <<nodes, body, cons, phase, copyWork, required, handled, resolved>>

-----------------------------------------------------------------------------
(***************************************************************************)
(* Handling a set of load, store, offset and special edges: the edges they *)
(* add, the copy edges recorded for the next round, the fields created.    *)
(***************************************************************************)
Done(e) == IF e.kind = "offset" THEN handled[e.dst] ELSE {}

AddedBy(es) == UNION {NewEdges(Consequences(e, Done(e))) : e \in es}

Recorded(es) ==
  AddedBy(es) \cup UNION {OffsetCopies(e, Done(e)) : e \in {e \in es : e.kind = "offset"}}

FieldsOf(es) ==
  UNION {UNION {ObjectNodes(f) : f \in FieldObjs(e, Done(e))} :
           e \in {e \in es : e.kind = "offset"}}

HandledBy(es) ==
  [n \in Ptr |-> handled[n] \cup
     UNION {pts[e.src] : e \in {e \in es : e.kind = "offset" /\ e.dst = n}}]

\* recordCopyEdge for every edge of rec; only existing nodes have a bit.
Record(rec) ==
  /\ copyWork' = ({e.src : e \in rec} \cap nodes) \cup (nodes' \ nodes)
  /\ required' = rec

(***************************************************************************)
(* Once all components are handled the worklist of copy edges is emptied,  *)
(* the edges of the changed nodes are handled, and the bit vectors are     *)
(* extended to the nodes created meanwhile: unhandled in copyWorkList,     *)
(* handled in the others.                                                  *)
(***************************************************************************)
ProcessComplexEdges ==
  LET es == {e \in edges : e.kind # "copy" /\ Watched(e) \in lsWork}
      rec == Recorded(es)
  IN /\ phase = "copy"
     /\ pending = {}
     /\ edges' = edges \cup AddedBy(es)
     /\ nodes' = nodes \cup FieldsOf(es)
     /\ handled' = HandledBy(es)
     /\ Record(rec)
     /\ target' = {e.dst : e \in rec} \cap nodes
     /\ lsWork' = {}
     /\ phase' = IF copyWork' = {} THEN "resolve" ELSE "round"
     /\ UNCHANGED <<superOf, pts, body, cons, pending, updatedFunPtrs, resolved>>

-----------------------------------------------------------------------------
(***************************************************************************)
(* resolveFunPtrs: every function an updated function pointer points to    *)
(* becomes a target of its call sites, up to Max_Indirect_Target.          *)
(***************************************************************************)
Found ==
  {t \in (Site \X Func) \ resolved :
     LET n == superOf[FunPtr[t[1]]]
     IN n \in {superOf[m] : m \in updatedFunPtrs} /\ t[2] \in pts[n]}

NumTargets(ts, s) == Cardinality({t \in ts : t[1] = s})

KeptWithinLimit(new) ==
  \A s \in Site :
    \/ {t \in Found : t[1] = s} \subseteq new
         /\ NumTargets(resolved \cup new, s) <= MaxIndirectTarget
    \/ NumTargets(resolved \cup new, s) = MaxIndirectTarget

\* CallBack::onNewConstraint looks at an edge only if its watched end is old.
SeenByCallBack_StoresMissed(es) ==
  {e \in es : e.kind \in {"load", "offset"} /\ e.src \in nodes}

SeenByCallBack(es) ==
  {e \in es : e.kind \in {"load", "store", "offset"} /\ Watched(e) \in nodes}

(***************************************************************************)
(* New targets add nodes and constraints; the call back records the copy   *)
(* edges that leave old nodes and handles the new edges of old nodes.  New *)
(* nodes are unhandled in every worklist.                                  *)
(***************************************************************************)
ResolveCalls ==
  /\ phase = "resolve"
  /\ Found # {}
  /\ \E new \in SUBSET Found :
       LET added == UNION {body[t] : t \in new}
           es == NewEdges(added)
           seen == SeenByCallBack(es)
           rec == {e \in es : e.kind = "copy" /\ e.src \in nodes} \cup Recorded(seen)
       IN /\ KeptWithinLimit(new)
          /\ new # {}
          /\ resolved' = resolved \cup new
          /\ cons' = cons \cup added
          /\ nodes' = nodes \cup (UNION {NodesOf(c) : c \in added}) \cup FieldsOf(seen)
          /\ edges' = edges \cup es \cup AddedBy(seen)
          /\ handled' = HandledBy(seen)
          /\ Record(rec)
          /\ target' = ({e.dst : e \in rec} \cap nodes) \cup (nodes' \ nodes)
          /\ lsWork' = nodes' \ nodes
          /\ phase' = "round"
  /\ updatedFunPtrs' = {}
  /\ UNCHANGED <<superOf, pts, body, pending>>

\* Nothing new was resolved: the fixed point is reached.
Finish_Reanalyzes ==
  /\ phase = "resolve"
  /\ phase' = "round"
  /\ updatedFunPtrs' = {}
  /\ UNCHANGED <<graphVars, body, cons, pending, workVars, handled, resolved>>

Finish ==
  /\ phase = "resolve"
  /\ KeptWithinLimit({})
  /\ phase' = "done"
  /\ updatedFunPtrs' = {}
  /\ UNCHANGED <<graphVars, body, cons, pending, workVars, handled, resolved>>

\* solve() has returned.
Returned == phase = "done" /\ UNCHANGED vars

Next ==
  \/ FindComponents
  \/ \E n \in nodes : ProcessNode(n)
  \/ \E C \in pending : \E front \in C : ProcessCycle(C, front)
  \/ ProcessComplexEdges
  \/ ResolveCalls
  \/ Finish
  \/ Returned

Spec == Init /\ [][Next]_vars /\ WF_vars(Next)

-----------------------------------------------------------------------------
(***************************************************************************)
(* Types; and no edge ends at a collapsed node, which processLoad and the  *)
(* functions beside it assert.                                             *)
(***************************************************************************)
TypeOK ==
  /\ body \in [Site \X Func -> SUBSET Constraint]
  /\ cons \subseteq Constraint
  /\ nodes \subseteq Node
  /\ edges \subseteq [kind : Kinds \ {"addr_of"}, src : nodes, dst : nodes]
  /\ superOf \in [Node -> Node]
  /\ \A e \in edges : superOf[e.src] = e.src /\ superOf[e.dst] = e.dst
  /\ pts \in Assignments
  /\ phase \in {"round", "copy", "resolve", "done"}
  /\ pending \subseteq SUBSET nodes
  /\ copyWork \cup lsWork \cup target \cup updatedFunPtrs \subseteq nodes
  /\ required \subseteq [kind : {"copy"}, src : Node, dst : Node]
  /\ handled \in [Ptr -> SUBSET Obj]
  /\ resolved \subseteq Site \X Func

(***************************************************************************)
(* Between two rounds every edge is satisfied or scheduled: a copy edge    *)
(* that has not carried everything over starts at a node the round will    *)
(* visit, and shouldProcessCopy will let it through; the edges a load,     *)
(* store, offset or special edge stands for have been added unless its     *)
(* pointer is still marked as changed.                                     *)
(***************************************************************************)
CopyScheduled(e) ==
  \/ pts[e.src] \subseteq pts[e.dst]
  \/ e.src \in copyWork /\ ShouldProcessCopy(e.src, e.dst)

ComplexScheduled(e) ==
  \/ NewEdges(Consequences(e, {})) = {}
  \/ Watched(e) \in lsWork

NothingForgotten ==
  phase \in {"round", "resolve", "done"} =>
    \A e \in edges : IF e.kind = "copy" THEN CopyScheduled(e) ELSE ComplexScheduled(e)

\* The points-to set a client is given for a node (getPointsTo).
Sol == [n \in Node |-> pts[superOf[n]]]

PointsToSpec == INSTANCE PointsTo WITH sol <- Sol, finished <- phase = "done"

(***************************************************************************)
(* The solver is an implementation of PointsTo: collapsing, the worklists  *)
(* and the call back lose no object and invent none, and when solve()      *)
(* returns the points-to sets are a solution.                              *)
(***************************************************************************)
Implements == PointsToSpec!Spec

\* The two loops of the solver end: solve() returns.
Termination == <>(phase = "done")

=============================================================================
