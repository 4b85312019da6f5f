------------------------- MODULE PointerConstraints -------------------------
(***************************************************************************)
(* The constraints a program poses on the points-to sets of its pointers   *)
(* and what they mean (PointerAnalysis/Graph/ConstraintGraph,              *)
(* PointerAnalysis/Solver/SolverBase.h).                                   *)
(*                                                                         *)
(* A node of the constraint graph is a pointer, an abstract object, or the *)
(* anonymous pointer an object gets when it is created (object id + 1),    *)
(* which points to that object and nothing else.                           *)
(***************************************************************************)
EXTENDS Naturals, FiniteSets

CONSTANTS
  Ptr,        \* pointer nodes
  Obj,        \* objects: allocation sites, their fields, functions
  Func,       \* the objects that are functions
  Site,       \* indirect call sites
  FunPtr,     \* call site -> the pointer it calls through
  MaxIndirectTarget,  \* option Max_Indirect_Target: targets kept per site
  Immutable,  \* objects of constant globals
  Field,      \* object -> the object a field access yields, None if there is none
  Elem,       \* std::vector object -> its element object, None for other objects
  Param,      \* target of a special constraint -> the pointer pushed back,
              \* None when the constraint is an element access
  None

Anon(o) == <<o, "anon">>

Node == Ptr \cup Obj \cup {Anon(o) : o \in Obj}

Kinds == {"load", "store", "copy", "addr_of", "offset", "special"}

Constraint == [kind : Kinds, src : Node, dst : Node]

ASSUME ObjectsAssumption ==
  /\ Func \subseteq Obj
  /\ Immutable \subseteq Obj
  /\ None \notin Node
  /\ Field \in [Obj -> Obj \cup {None}]
  /\ Elem \in [Obj -> (Obj \ Immutable) \cup {None}]
  /\ \A o \in Obj : Elem[o] # None => Elem[Elem[o]] = None
  /\ Param \in [Ptr -> Ptr \cup {None}]
  /\ FunPtr \in [Site -> Ptr]
  /\ MaxIndirectTarget \in Nat

ASSUME FiniteAssumption == IsFiniteSet(Ptr) /\ IsFiniteSet(Obj) /\ IsFiniteSet(Site)

ASSUME NodesAssumption ==
  /\ Ptr \cap Obj = {}
  /\ \A o \in Obj : Anon(o) \notin Ptr \cup Obj

(***************************************************************************)
(* What the builder of the constraints guarantees: nobody uses anonymous   *)
(* pointers; the result of a field access or a vector operation is an      *)
(* instruction or a node of its own, which nothing else defines, though    *)
(* one may store through it; a constant global gets its addresses when it  *)
(* is initialised, before it becomes immutable.                            *)
(***************************************************************************)
WellFormed(cs) ==
  /\ \A c \in cs : c.src \in Ptr \cup Obj /\ c.dst \in Ptr \cup Obj
  /\ \A c \in cs : c.kind = "addr_of" => c.src \in Obj
  /\ \A c \in cs : c.kind \in {"offset", "special"} =>
       c.dst \in Ptr /\ \A d \in cs : d.dst = c.dst => d.kind \in {c.kind, "store"}
  /\ \A c \in cs : c.dst \in Immutable => c.kind = "addr_of"

\* modelVectorAPIs: push_back loads the value it pushes into a node of its own.
LoadsWhatItPushes(cs) ==
  \A c \in cs : c.kind = "special" /\ Param[c.dst] # None =>
    \E d \in cs : d.kind = "load" /\ d.dst = Param[c.dst]

(***************************************************************************)
(* The objects constraint c demands in node n when the points-to sets are  *)
(* S: processCopy, processLoad, processStore, processOffset, and           *)
(* processSpecial for operator[] / begin and for push_back of a vector.    *)
(***************************************************************************)
Demand(S, c, n) ==
  CASE c.kind = "copy" /\ n = c.dst -> S[c.src]
    [] c.kind = "addr_of" /\ n = c.dst -> {c.src}
    [] c.kind = "load" /\ n = c.dst -> UNION {S[o] : o \in S[c.src]}
    [] c.kind = "store" /\ n \in S[c.dst] \ Immutable -> S[c.src]
    [] c.kind = "offset" /\ n = c.dst -> {Field[o] : o \in S[c.src]} \cap Obj
    [] c.kind = "special" /\ Param[c.dst] = None /\ n = c.dst ->
         {Elem[o] : o \in S[c.src]} \cap Obj
    [] c.kind = "special" /\ Param[c.dst] # None /\ n \in {Elem[o] : o \in S[c.src]} ->
         S[Param[c.dst]]
    [] OTHER -> {}

\* The points-to sets before any constraint is looked at.
NothingKnown == [n \in Node |-> {o \in Obj : n = Anon(o)}]

Assignments == [Node -> SUBSET Obj]

IsSolution(S, cs) ==
  /\ \A n \in Node : NothingKnown[n] \subseteq S[n]
  /\ \A c \in cs, n \in Node : Demand(S, c, n) \subseteq S[n]

(***************************************************************************)
(* The least solution, by adding what is demanded until nothing is.        *)
(***************************************************************************)
LeastSolution(cs) ==
  LET More(S) == [n \in Node |-> S[n] \cup UNION {Demand(S, c, n) : c \in cs}]
      lfp[S \in Assignments] == IF More(S) = S THEN S ELSE lfp[More(S)]
  IN lfp[NothingKnown]

=============================================================================
