------------------------------ MODULE MemLayout ------------------------------
(***************************************************************************)
(* How the field sensitive memory model lays out a type                    *)
(* (PointerAnalysis/Models/MemoryModel/FieldSensitive/Layout): the         *)
(* elements of an array are one, so the offset in the layout (logical) is  *)
(* less than the offset in memory (physical) behind an array.              *)
(***************************************************************************)
EXTENDS Bitcode, TLC

ArraySize(a) == a.num * a.size

Shifted(arrays, p) == [q \in {k + p : k \in DOMAIN arrays} |-> arrays[q - p]]

\* mergeMemoryLayout: the layout of a part; the arrays in an element of an array
\* are known to the array.
Merge(layout, sub, p, l) ==
  [layout EXCEPT
     !.element = @ \cup {e + l : e \in sub.element},
     !.pointer = @ \cup {e + l : e \in sub.pointer},
     !.arrays = IF IsArray(layout.ty) THEN [@ EXCEPT ![0].sub = sub.arrays] ELSE @ @@ Shifted(sub.arrays, p)]

\* Adds a part, and moves behind it; maxL and maxP are where the next one begins.
RECURSIVE LayoutOf(_)
WithPart(layout, ty) ==
  LET sub == LayoutOf(ty)
      added == IF IsAggregate(ty) THEN Merge(layout, sub, layout.maxP, layout.maxL)
               ELSE [layout EXCEPT !.element = @ \cup {layout.maxL},
                                   !.pointer = @ \cup (IF ty = Pointer THEN {layout.maxL} ELSE {})]
  IN [added EXCEPT !.maxL = @ + (IF IsAggregate(ty) THEN sub.maxL ELSE TypeSize(ty)),
                   !.maxP = @ + TypeSize(ty)]

Padded(layout, p) == [layout EXCEPT !.maxL = @ + p - layout.maxP, !.maxP = p]

Blank(ty) == [ty |-> ty, element |-> {}, pointer |-> {}, arrays |-> <<>>, maxL |-> 0, maxP |-> 0]

ArrayLayoutOf(ty) ==
  LET array == [num |-> ty[2], size |-> TypeSize(ty[3]), layoutSize |-> 0, sub |-> <<>>]
      layout == WithPart([Blank(ty) EXCEPT !.arrays = 0 :> array], ty[3])
  IN [layout EXCEPT !.maxP = TypeSize(ty), !.arrays[0].layoutSize = layout.maxL]

StructLayoutOf(ty) ==
  Padded(FoldLeft(LAMBDA layout, k : WithPart(Padded(layout, FieldOffset(ty, k)), ty[2][k]),
                  Blank(ty), [k \in DOMAIN ty[2] |-> k]),
         TypeSize(ty))

LayoutOf(ty) ==
  IF TypeSize(ty) = 0 THEN [Blank(ty) EXCEPT !.element = {0}]
  ELSE IF IsArray(ty) THEN ArrayLayoutOf(ty)
  ELSE IF IsStruct(ty) THEN StructLayoutOf(ty)
  ELSE Blank(ty)

\* indexBetweenArrays: the logical offset of a physical one, and the physical offset
\* of the same place in the first element.
RECURSIVE Between(_, _)
\* Mutant: what the arrays before lose is not counted.
Between_KeepsArrays(arrays, p) ==
  LET behind(a) == a + ArraySize(arrays[a]) <= p
      inside == {a \in DOMAIN arrays : a < p /\ ~behind(a)}
      a == CHOOSE a \in inside : TRUE
      first == (p - a) % arrays[a].size
      rest == IF DOMAIN arrays[a].sub = {} THEN <<first, first>> ELSE Between(arrays[a].sub, first)
  IN IF inside = {} THEN <<p, p>> ELSE <<a + rest[1], a + rest[2]>>

Between(arrays, p) ==
  LET behind(a) == a + ArraySize(arrays[a]) <= p
      before == {a \in DOMAIN arrays : a < p /\ behind(a)}
      inside == {a \in DOMAIN arrays : a < p /\ ~behind(a)}
      lost == FoldSet(LAMBDA a, n : n + ArraySize(arrays[a]) - arrays[a].layoutSize, 0, before)
      a == CHOOSE a \in inside : TRUE
      first == (p - a) % arrays[a].size
      rest == IF DOMAIN arrays[a].sub = {} THEN <<first, first>> ELSE Between(arrays[a].sub, first)
  IN IF inside = {} THEN <<p - lost, p>> ELSE <<a - lost + rest[1], a + rest[2]>>

Nowhere == -1

IndexPhysicalOffset(layout, p) ==
  IF DOMAIN layout.arrays = {} THEN <<p, p>>
  ELSE IF p >= layout.maxP THEN <<Nowhere, p>>
  ELSE Between(layout.arrays, p)

\* getLogicalOffset: the number of the field.
FieldNumber(layout, l) ==
  IF l \in layout.element THEN Cardinality({e \in layout.element : e < l}) ELSE Nowhere

\* isArrayExistAtOffset: an array of elements of a size; of the arrays that begin
\* before, only the first that is long enough is looked into.
RECURSIVE ArrayExistsAt(_, _, _)
\* Mutant: the arrays in the elements are not looked into.
ArrayExistsAt_Outermost(arrays, p, size) == p \in DOMAIN arrays /\ arrays[p].size = size

ArrayExistsAt(arrays, p, size) ==
  LET near == {a \in DOMAIN arrays : a < p /\ a + ArraySize(arrays[a]) >= size}
  IN IF p \in DOMAIN arrays
     THEN \/ arrays[p].size = size
          \/ arrays[p].size = 1 /\ 1 < size
          \/ arrays[p].size > size /\ ArrayExistsAt(arrays[p].sub, 0, size)
     ELSE near # {} /\ ArrayExistsAt(arrays[Min(near)].sub, p - Min(near), size)

-----------------------------------------------------------------------------
(* Types (Util/Util.cpp).                                                   *)

RECURSIVE TypeAtOffset(_, _)
TypeAtOffset(ty, p) ==
  LET holds(k) == \/ TypeSize(ty[2][k]) = 0 /\ p = FieldOffset(ty, k)
                  \/ p \in FieldOffset(ty, k)..(FieldOffset(ty, k) + TypeSize(ty[2][k]) - 1)
      holders == IF IsStruct(ty) THEN {k \in DOMAIN ty[2] : holds(k)} ELSE {}
  IN IF p = 0 THEN ty
     ELSE IF IsArray(ty) THEN TypeAtOffset(ty[3], p % TypeSize(ty[3]))
     ELSE IF holders = {} THEN None
     ELSE TypeAtOffset(ty[2][Min(holders)], p - FieldOffset(ty, Min(holders)))

RECURSIVE TypesEqual(_, _)
TypesEqual(s, t) ==
  \/ s = t
  \/ /\ \E u \in {s, t} : IsArray(u) /\ u[3] = Byte
     /\ TypeSize(s) = TypeSize(t)
  \/ /\ IsStruct(s) /\ IsStruct(t) /\ Len(s[2]) = Len(t[2])
     /\ \A k \in DOMAIN s[2] : TypesEqual(s[2][k], t[2][k])

RECURSIVE StripArrays(_)
StripArrays(ty) == IF IsArray(ty) THEN StripArrays(ty[3]) ELSE ty

\* A structure that ends in an array of no elements is one that ends in an array of
\* any number of them.
IsFlexible(ty) == IsStruct(ty) /\ ty[2] # <<>> /\ IsArray(Last(ty[2])) /\ Last(ty[2])[2] = 0

RECURSIVE UnboundedArray(_)
Converted(ty) == Struct(Append(Front(ty[2]), UnboundedArray(Last(ty[2])[3])))
UnboundedArray(ty) == IF IsFlexible(ty) THEN Converted(ty) ELSE Array(Unbounded, ty)

\* The types that are found at the beginning of a type.
RECURSIVE Leading(_)
Leading(ty) ==
  LET first == Part(ty, 0)
  IN IF ~IsAggregate(ty) \/ ty = Struct(<<>>) THEN {} ELSE {first} \cup Leading(first)

RECURSIVE IsZeroOffsetTypeInRootType(_, _)
IsZeroOffsetTypeInRootType(root, elem) ==
  \/ root = None
  \/ TypesEqual(root, elem)
  \/ IsFlexible(elem) /\ Converted(elem) = root
  \/ IsArray(root) /\ IsZeroOffsetTypeInRootType(StripArrays(root), elem)
  \/ IF IsArray(root) /\ IsArray(elem) THEN TypesEqual(StripArrays(root), StripArrays(elem))
     ELSE \E t \in Leading(root) : TypesEqual(t, elem)

\* getGEPStepSize: what the variable index of a GEP steps over.
StepSize(gep) ==
  LET idx == Tail(gep.args)
      k == Min({k \in DOMAIN idx : ~IsConstant(idx[k])})
  IN TypeSize(PointeeOf(gep.ty, SubSeq(idx, 1, k)))
=============================================================================
