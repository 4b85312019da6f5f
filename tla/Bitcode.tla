------------------------------ MODULE Bitcode ------------------------------
(***************************************************************************)
(* The bitcode that the passes rewrite and the programs run (LLVM is not   *)
(* part of the repository).  A module has functions and globals; a         *)
(* function has its blocks in order, and an instruction [op, id, args, ..] *)
(* the following operands:                                                 *)
(*   <<"c", n>>  constant       <<"v", id>>  result of an instruction      *)
(*   <<"a", k>>  argument       <<"g", name>>, <<"f", name>>  global,      *)
(*   function                   <<"ce", inst>>  constant expression        *)
(* Where a pointer leads is <<root, offset in bytes>>; a GEP and a cast    *)
(* have the type that their operand leads to, a cast also the new one.     *)
(***************************************************************************)
EXTENDS Integers, FiniteSetsExt, SequencesExt

Const(n) == <<"c", n>>
Res(id) == <<"v", id>>
Arg(k) == <<"a", k>>
Glob(g) == <<"g", g>>
Fun(f) == <<"f", f>>

IsConstant(v) == v[1] \in {"c", "g", "f", "ce"}

InstsOf(F) == UNION {ToSet(F.code[b]) : b \in DOMAIN F.code}

Inst(F, id) == CHOOSE i \in InstsOf(F) : i.id = id

\* Instructions that use a value directly; a constant expression is in between.
Users(F, v) == {i \in InstsOf(F) : v \in ToSet(i.args)}

UsersIn(mod, v) == UNION {Users(mod.fns[f], v) : f \in DOMAIN mod.fns}

StoreUsers(mod, v) == {i \in UsersIn(mod, v) : i.op = "store"}

IsCall(i) == i.op \in {"call", "invoke"}

\* A call through a pointer has it as its first operand.
Indirect == "*"

\* The runtime's calls that are given a function: a parallel and a teams region.
Callbacks == {"fork", "fork_teams"}

IsFork(i) == IsCall(i) /\ i.callee \in Callbacks

IsVolatile(i) == "volatile" \in DOMAIN i

\* The calls of a function, made directly or by the runtime that is given it; the
\* runtime passes two values of its own and the variables of the region.
Sites(mod, f) ==
  {i \in UNION {InstsOf(mod.fns[c]) : c \in DOMAIN mod.fns} :
     IsCall(i) /\ (i.callee = f \/ (IsFork(i) /\ i.args[2] = Fun(f)))}

None == <<"none">>

Actual(site, k) ==
  IF ~IsFork(site) THEN site.args[k] ELSE IF k <= 2 THEN None ELSE site.args[k]

\* The parameters with an attribute, such as those that are passed by copy.
Params(F, attribute) == IF attribute \in DOMAIN F THEN F[attribute] ELSE {}

\* Replaces operands, and the instructions of a block by others.
Substitute(F, sub) ==
  [F EXCEPT !.code = [b \in DOMAIN @ |-> [k \in DOMAIN @[b] |->
     [@[b][k] EXCEPT !.args = [n \in DOMAIN @ |-> IF @[n] \in DOMAIN sub THEN sub[@[n]] ELSE @[n]]]]]]

Rewrite(F, Op(_)) ==
  [F EXCEPT !.code = [b \in DOMAIN @ |-> FlattenSeq([k \in DOMAIN @[b] |-> Op(@[b][k])])]]

Erase(F, insts) == Rewrite(F, LAMBDA i : IF i \in insts THEN <<>> ELSE <<i>>)

\* Control flow.
Succ(F, b) == LET t == Last(F.code[b]) IN IF "succ" \in DOMAIN t THEN ToSet(t.succ) ELSE {}

Preds(F, b) == {p \in DOMAIN F.code : b \in Succ(F, p)}

RECURSIVE ReachableFrom(_, _)
ReachableFrom(F, S) ==
  LET more == S \cup UNION {Succ(F, b) : b \in S}
  IN IF more = S THEN S ELSE ReachableFrom(F, more)

\* Types, and what they occupy; all pointers have one type.
Byte == <<"byte">>
Integer == <<"int">>
Pointer == <<"pointer">>
Struct(fields) == <<"struct", fields>>
Array(n, elem) == <<"array", n, elem>>

Unbounded == 1000     \* bound: stands for the number of elements that is not known

IsStruct(ty) == ty[1] = "struct"
IsArray(ty) == ty[1] = "array"
IsAggregate(ty) == IsStruct(ty) \/ IsArray(ty)

RECURSIVE Align(_)
Align(ty) ==
  CASE IsStruct(ty) -> Max({1} \cup {Align(t) : t \in ToSet(ty[2])})
    [] IsArray(ty) -> Align(ty[3])
    [] OTHER -> IF ty = Byte THEN 1 ELSE IF ty = Integer THEN 4 ELSE 8

RoundUp(n, align) == ((n + align - 1) \div align) * align

RECURSIVE TypeSize(_)
FieldsEnd(fields) == FoldLeft(LAMBDA n, t : RoundUp(n, Align(t)) + TypeSize(t), 0, fields)
TypeSize(ty) ==
  CASE IsStruct(ty) -> RoundUp(FieldsEnd(ty[2]), Align(ty))
    [] IsArray(ty) -> ty[2] * TypeSize(ty[3])
    [] OTHER -> Align(ty)

FieldOffset(ty, k) == RoundUp(FieldsEnd(SubSeq(ty[2], 1, k - 1)), Align(ty[2][k]))

\* Into a type with the number of a GEP; the first only steps over whole elements.
Part(ty, n) == IF IsStruct(ty) THEN ty[2][n + 1] ELSE ty[3]

PartOffset(ty, n) == IF IsStruct(ty) THEN FieldOffset(ty, n + 1) ELSE n * TypeSize(ty[3])

ByteOffset(ty, numbers) ==
  FoldLeft(LAMBDA at, n : [ty |-> Part(at.ty, n), off |-> at.off + PartOffset(at.ty, n)],
           [ty |-> ty, off |-> numbers[1] * TypeSize(ty)], Tail(numbers)).off

\* Where the operands of a GEP lead to; operands that are not constant are of arrays.
PointeeOf(ty, idx) == FoldLeft(LAMBDA t, v : IF IsStruct(t) THEN Part(t, v[2]) ELSE t[3], ty, Tail(idx))

\* An initializer of an aggregate is <<"agg", parts>>; all zeros are Const(0).  The
\* scalars in it, with their offsets.
RECURSIVE Scalars(_, _, _)
Scalars(ty, init, off) ==
  IF init[1] = "agg"
  THEN UNION {Scalars(Part(ty, n - 1), init[2][n], off + PartOffset(ty, n - 1)) : n \in DOMAIN init[2]}
  ELSE {<<off, ty, init>>}
=============================================================================
