----------------------------- MODULE FSMemModel -----------------------------
(***************************************************************************)
(* The field sensitive memory model                                        *)
(* (PointerAnalysis/Models/MemoryModel/FieldSensitive,                     *)
(* DefaultHeapModel).  A site <<context, value>> allocates a block; an     *)
(* object <<site, offset>> is a field of it, the offset is the physical    *)
(* one with the elements of arrays collapsed.                              *)
(***************************************************************************)
EXTENDS MemLayout

\* Blocks; nothing is known of a block that is field insensitive (FI).
AggregateBlock(ty) == [kind |-> "aggregate", layout |-> LayoutOf(ty), immutable |-> FALSE]
FIBlock == [kind |-> "fi", layout |-> Blank(Byte), immutable |-> FALSE]
ScalarBlock == [FIBlock EXCEPT !.kind = "scalar"]

BlockOfType(ty) == IF IsAggregate(ty) THEN AggregateBlock(ty) ELSE ScalarBlock

GlobalBlock(g) == [BlockOfType(g.ty) EXCEPT !.immutable = g.constant /\ g.initializer # None]

\* An alloca has the number of elements as its operand, if it is not one.
StackBlock(i) ==
  BlockOfType(IF i.args = <<>> \/ i.args = <<Const(1)>> THEN i.ty
              ELSE Array(IF IsConstant(i.args[1]) THEN i.args[1][2] ELSE Unbounded, i.ty))

-----------------------------------------------------------------------------
(* What a heap allocation is for: the type that the next instruction casts  *)
(* to (or the one cast of the result, when a wrapper was inlined), and the  *)
(* size.                                                                    *)

After(F, i) ==
  UNION {{F.code[b][k + 1] : k \in {k \in 1..(Len(F.code[b]) - 1) : F.code[b][k] = i}} : b \in DOMAIN F.code}

IsInlined(i) == "inlined" \in DOMAIN i

NextBitCastDestType(F, i) ==
  LET next == {n \in After(F, i) : n.op = "bitcast"}
      casts == IF IsInlined(i) THEN {u \in Users(F, Res(i.id)) : u.op = "bitcast"} ELSE {}
      chosen == IF next # {} THEN next ELSE casts
  IN IF Cardinality(chosen) = 1 THEN (CHOOSE c \in chosen : TRUE).to ELSE None

InferMallocType(F, i, size) ==
  LET ty == NextBitCastDestType(F, i)
      known == size[1] = "c"
  IN CASE ty = None -> IF size = Const(1) THEN Byte ELSE None
       [] ty # None /\ IsFlexible(ty) -> Converted(ty)
       [] ty # None /\ ~IsFlexible(ty) /\ ~known -> IF TypeSize(ty) = 1 THEN None ELSE UnboundedArray(ty)
       [] ty # None /\ ~IsFlexible(ty) /\ known ->
            IF size[2] = TypeSize(ty) THEN ty
            ELSE IF size[2] % TypeSize(ty) = 0 THEN Array(size[2] \div TypeSize(ty), ty)
            ELSE None

InferCallocType(F, i) ==
  LET ty == NextBitCastDestType(F, i)
      number == i.args[1]
      size == i.args[2]
  IN IF ty = None \/ size[1] # "c" THEN None
     ELSE IF size[2] # TypeSize(ty) \/ number[1] # "c" THEN UnboundedArray(ty)
     ELSE IF number[2] = 1 THEN InferMallocType(F, i, size)
     ELSE Array(number[2], ty)

HeapBlock(F, i) ==
  LET ty == IF i.callee = "calloc" THEN InferCallocType(F, i) ELSE InferMallocType(F, i, i.args[1])
  IN IF ty = None THEN FIBlock ELSE BlockOfType(ty)

-----------------------------------------------------------------------------
(* The objects of a block: none or one, where there is nothing to index.    *)

ObjectAt(blocks, site, p) ==
  LET block == blocks[site]
      at == IndexPhysicalOffset(block.layout, p)
  IN IF p = 0 \/ block.kind = "fi" THEN {<<site, 0>>}
     ELSE IF block.kind = "scalar" \/ FieldNumber(block.layout, at[1]) = Nowhere THEN {}
     ELSE {<<site, at[2]>>}

OffsetType(layout, p) == IF p = 0 THEN layout.ty ELSE TypeAtOffset(layout.ty, p)

Indices(gep) == Tail(gep.args)
HasConstantIndices(gep) == \A k \in DOMAIN Indices(gep) : IsConstant(Indices(gep)[k])
ConstantOffset(gep) == ByteOffset(gep.ty, [k \in DOMAIN Indices(gep) |-> Indices(gep)[k][2]])

\* Types are filtered, but not for steps back, and not for what is void in C.
Filtered(layout, p, gep) ==
  /\ ConstantOffset(gep) >= 0 /\ gep.ty # Byte
  /\ ~IsZeroOffsetTypeInRootType(OffsetType(layout, p), gep.ty)

IndexObject(blocks, obj, gep) ==
  LET block == blocks[obj[1]]
  IN IF block.kind = "fi" THEN {obj}
     ELSE IF block.kind = "scalar" THEN {}
     ELSE IF ~HasConstantIndices(gep)
     THEN IF ArrayExistsAt(block.layout.arrays, obj[2], StepSize(gep)) THEN {obj} ELSE {}
     ELSE IF Filtered(block.layout, obj[2], gep) \/ obj[2] + ConstantOffset(gep) < 0 THEN {}
     ELSE ObjectAt(blocks, obj[1], obj[2] + ConstantOffset(gep))

-----------------------------------------------------------------------------
(* The pointers in the initializers of globals: what has them, and what     *)
(* they lead to, through the casts and GEPs of a constant expression.       *)

RECURSIVE Base(_)
Base(v) ==
  IF v[1] # "ce" THEN [value |-> v, off |-> 0]
  ELSE LET base == Base(v[2].args[1])
       IN [base EXCEPT !.off = @ + (IF v[2].op = "gep" THEN ConstantOffset(v[2]) ELSE 0)]

InitialPointers(mod, blocks, ctx) ==
  LET inits(g) == IF mod.globals[g].initializer = None THEN {}
                  ELSE Scalars(mod.globals[g].ty, mod.globals[g].initializer, 0)
      pointers(g) == {s \in inits(g) : s[2] = Pointer /\ s[3] # Const(0)}
      led(s) == ObjectAt(blocks, <<ctx, Base(s[3]).value>>, Base(s[3]).off)
  IN UNION {UNION {ObjectAt(blocks, <<ctx, Glob(g)>>, s[1]) \X led(s) : s \in pointers(g)} : g \in DOMAIN mod.globals}
=============================================================================
