------------------------ MODULE SimpleArrayAnalysis ------------------------
(***************************************************************************)
(* Whether two accesses to array elements can touch the same element in    *)
(* different iterations of an OpenMP loop (Analysis/                       *)
(* SimpleArrayAnalysis.cpp).  The analysis has two halves: the names that  *)
(* LLVM gave to the values an index is computed from, and the SCEV         *)
(* expression of the address.                                              *)
(*                                                                         *)
(* An IR with an index names one of program.index:                         *)
(*   geps     last operands of its GEPs, the outermost dimension at last   *)
(*   fn       the function                                                 *)
(*   struct   TRUE if the GEP is for a field of a structure                *)
(*   blocks   the blocks from the one of the GEP to the start of its       *)
(*            function: their type, and the phi they start with            *)
(*   scev     rest + const + step * omp iteration + inner * inner iteration*)
(*            (up to count, -1 if not known), where rest stands for what   *)
(*            SCEV knows nothing of                                        *)
(* program.values has the values by name: op is "math" (binary operators   *)
(* and casts), "sext", "load", "gep", "phi" or "none" (no instruction), and*)
(* arg the operand that is no constant; type is the kind of its name.      *)
(* IndexType::IndvarsNext is never returned: its prefix is tested second.  *)
(***************************************************************************)
EXTENDS Integers, FiniteSetsExt, SequencesExt

VARIABLES program, threads

None == "none"
Unnamed == ""

Value(v) == program.values[v]

LOCAL IndexOf(n) == program.index[threads[n[1]].events[n[2]].ir.index]

-----------------------------------------------------------------------------
IsMathOp(v) == Value(v).op \in {"math", "sext"}

NameType(name) == IF name \in {None, Unnamed} THEN "Unknown" ELSE Value(name).type

NameOf(v) == IF Value(v).type = Unnamed THEN Unnamed ELSE v

IndexType(v) ==
  IF Value(v).type # Unnamed THEN Value(v).type
  ELSE IF IsMathOp(v) THEN "Intermediate" ELSE "Unknown"

Asked == {"computeIdxName", "getInductionVarName", "idxprom"}

\* The name of the variable that an index is computed from, by the function
\* that is asked for it: "idxprom" is getInductionVarNameForIdxprom.
VariableName[asked \in Asked, v \in DOMAIN program.values] ==
  LET rhs == Value(v).arg
      follow == IF IsMathOp(rhs) THEN VariableName["computeIdxName", rhs]
                ELSE IF Value(rhs).op = "none" THEN None ELSE NameOf(rhs)
      pointer == Value(rhs).arg
      ofLoad == IF Value(pointer).op = "gep"
                THEN VariableName["getInductionVarName", Value(pointer).arg]
                ELSE NameOf(pointer)
      type == IndexType(v)
  IN CASE asked = "idxprom" ->
            IF Value(rhs).op = "load" THEN ofLoad
            ELSE IF IndexType(rhs) = "StoreMerge" THEN rhs
            ELSE VariableName["computeIdxName", rhs]
       [] asked = "getInductionVarName" ->
            CASE type = "Intermediate" -> VariableName["computeIdxName", v]
              [] type = "Indvars" -> v
              [] type = "Idxprom" -> VariableName["idxprom", v]
              [] OTHER -> None
       [] asked = "computeIdxName" ->
            IF ~IsMathOp(v) THEN None
            ELSE IF IndexType(rhs) = "Indvars" THEN follow
            ELSE CASE type = "Indvars" -> v
                   [] type = "Idxprom" -> VariableName["idxprom", v]
                   [] OTHER -> follow

computeIdxName(v) == VariableName["computeIdxName", v]

getInductionVarName(v) == VariableName["getInductionVarName", v]

IsOmpRelevant(name) == NameType(name) \in {"Indvars", "Idxprom", "StoreMerge"}

-----------------------------------------------------------------------------
(***************************************************************************)
(* ArrayAccess: the dimensions that count.                                 *)
(***************************************************************************)
\* The outermost dimension that is no idxprom, and the name behind it.
OuterMost(geps) ==
  LET plain == {i \in DOMAIN geps : IndexType(geps[i]) # "Idxprom"}
      name == computeIdxName(geps[Max(plain)])
  IN IF plain = {} \/ ~IsOmpRelevant(name) THEN [at |-> 0, name |-> None]
     ELSE [at |-> Max(plain), name |-> name]

MultiDim(geps, outer) == IF outer # None THEN geps # <<>> ELSE Len(geps) > 1

\* The innermost dimensions that are idxproms of one root.
Collapsing(geps) ==
  Max({i \in 0..Len(geps) :
         /\ \A k \in 1..i : IndexType(geps[k]) = "Idxprom" /\ getInductionVarName(geps[k]) # None
         /\ \A k \in 2..i : getInductionVarName(geps[k]) = getInductionVarName(geps[1])})

InnerDimensions(allGEPs, outer) ==
  IF outer.at = 0 THEN allGEPs ELSE RemoveAt(allGEPs, outer.at)

RelevantGEP(v) == IsOmpRelevant(getInductionVarName(v))

Dimensions(geps, outer, level) ==
  CASE MultiDim(geps, outer) /\ level >= 2 ->
         [geps |-> geps, outer |-> outer, root |-> getInductionVarName(geps[1]),
          level |-> IF level = Len(geps) THEN level ELSE level - 1]
    [] MultiDim(geps, outer) /\ level < 2 ->
         [geps |-> SelectSeq(geps, RelevantGEP), outer |-> outer, root |-> None, level |-> 0]
    [] OTHER -> [geps |-> geps, outer |-> outer, root |-> None, level |-> 0]

AccessWithin(geps, outer) == Dimensions(geps, outer, Collapsing(geps))

AccessBelow(allGEPs, outer) == AccessWithin(InnerDimensions(allGEPs, outer), outer.name)

ArrayAccess(allGEPs) == AccessBelow(allGEPs, OuterMost(allGEPs))

\* The phi of the loop the access is in: of its own block, or of the nearest
\* block before it that looks like the head of a loop.
getOMPParallelLoopIndex(index) ==
  LET blocks == index.blocks
      heads == {i \in DOMAIN blocks : blocks[i].type \in {"ForPreheader", "OMPInnerForBody"}
                                      /\ blocks[i].phi # None}
  IN CASE blocks[1].type = "OMPInnerForBody" -> blocks[1].phi
       [] blocks[1].type = "ForBody" /\ heads # {} -> blocks[Min(heads)].phi
       [] OTHER -> None

\* optional::value() throws when there is no loop.
AlignedName(name, parallelIdx) ==
  IF parallelIdx = None THEN "throws" ELSE IF name = parallelIdx THEN "NoRace" ELSE "Race"

AlignedGEP(v, parallelIdx) ==
  getInductionVarName(v) # None /\ parallelIdx # None /\ getInductionVarName(v) = parallelIdx

InnerAligned(v, parallelIdx) ==
  parallelIdx # None /\ NameType(getInductionVarName(v)) = "Indvars"

ByCollapse(access) == access.root # None

OutermostType(access, parallelIdx) ==
  CASE ByCollapse(access) -> AlignedName(access.root, parallelIdx)
    [] ~ByCollapse(access) /\ access.outer # None -> AlignedName(access.outer, parallelIdx)
    [] OTHER -> IF AlignedGEP(Last(access.geps), parallelIdx) THEN "NoRace" ELSE "Race"

\* The dimensions that the test of the outermost one has settled.
Settled(access) ==
  IF ByCollapse(access) THEN access.level ELSE IF access.outer # None THEN 0 ELSE 1

AccessTypeForMultiDim(access, parallelIdx) ==
  LET inner == 1..(Len(access.geps) - Settled(access))
      type == OutermostType(access, parallelIdx)
  IN IF type = "NoRace" /\ \E i \in inner : ~InnerAligned(access.geps[i], parallelIdx)
     THEN "Race" ELSE type

\* "NoRace", "Race", "ND" (not determined) or "throws".
TypeOfAccess(access, geps, parallelIdx) ==
  LET aligned == IF access.outer # None THEN access.outer = parallelIdx
                                        ELSE AlignedGEP(geps[1], parallelIdx)
  IN CASE MultiDim(access.geps, access.outer) -> AccessTypeForMultiDim(access, parallelIdx)
       [] OTHER -> IF aligned THEN "NoRace" ELSE "ND"

AccessType(index) ==
  TypeOfAccess(ArrayAccess(index.geps), index.geps, getOMPParallelLoopIndex(index))

-----------------------------------------------------------------------------
(***************************************************************************)
(* OpenMPLoopManager: the loops that start with a static init call, and    *)
(* their bounds, known if one store of a constant dominates the call.      *)
(***************************************************************************)
Unresolved == {}

ResolveBound(stores) ==
  LET dominating == SelectSeq(stores, LAMBDA s : s.dominates)
  IN IF Len(dominating) = 1 THEN dominating[1].constant ELSE Unresolved

LoopBound(loop) == ResolveBound(loop.lower) \X ResolveBound(loop.upper)

IsOMPFor(scev) == scev.loop # None /\ program.loops[scev.loop].static

Magnitude(x) == IF x < 0 THEN -x ELSE x

\* No inner loop: the element of one iteration against those of the others.
OverlapOfIterations(distance, step, loop) ==
  /\ distance >= step
  /\ distance # step =>
       \A bound \in LoopBound(loop) :
         Max({Magnitude(bound[1]), Magnitude(bound[2])}) >= distance \div step

\* The next iteration of either starts behind the last element of both, where
\* the numbers of inner iterations are known.  The gaps are 0 if they are no
\* constants.
Start(scev) == scev.const + scev.step
LastElement(scev) == scev.const + scev.inner * scev.count

Gap(s, t) == IF t.count >= 0 THEN Start(s) - LastElement(t) ELSE 0

\* Mutant: the two accesses are not compared with each other.
BoundedByNext_OwnGaps(s, t) == Gap(s, s) > 0 /\ Gap(t, t) > 0

BoundedByNext(s, t) == \A a \in {s, t}, b \in {s, t} : Gap(a, b) > 0

OverlapByScev(s, t, diff) ==
  \/ ~IsOMPFor(s) \/ ~IsOMPFor(t) \/ s.loop # t.loop
  \/ /\ s.inner = 0 /\ t.inner = 0
     /\ OverlapOfIterations(Magnitude(diff), Magnitude(s.step), program.loops[s.loop])
  \/ /\ s.inner # 0 \/ t.inner # 0
     /\ ~BoundedByNext(s, t)

\* The difference of two addresses is known if only their constants differ.
ConstantDiff(s, t) == [s EXCEPT !.const = t.const] = t

HasIndex(n) == "index" \in DOMAIN threads[n[1]].events[n[2]].ir

IsLoopArrayAccess(m, n) ==
  HasIndex(m) /\ HasIndex(n) /\ ~IndexOf(m).struct /\ ~IndexOf(n).struct

OverlapOfTypes(types, i, j) ==
  CASE "throws" \in types -> "throws"
    [] types = {"NoRace"} -> "no"
    [] "Race" \in types /\ "throws" \notin types -> "yes"
    [] OTHER -> IF OverlapByScev(i.scev, j.scev, 0) THEN "yes" ELSE "no"

\* canIndexOverlap, asked of two array accesses: "yes", "no" or "throws".
OverlapOfIndices(i, j) ==
  CASE i.fn # j.fn -> "no"
    [] i.fn = j.fn /\ ~ConstantDiff(i.scev, j.scev) -> "yes"
    [] OTHER ->
         IF i.scev.const = j.scev.const THEN OverlapOfTypes({AccessType(x) : x \in {i, j}}, i, j)
         ELSE IF OverlapByScev(i.scev, j.scev, i.scev.const - j.scev.const) THEN "yes" ELSE "no"

CanIndexOverlap(m, n) == OverlapOfIndices(IndexOf(m), IndexOf(n))
=============================================================================
