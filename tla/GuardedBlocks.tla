--------------------------- MODULE GuardedBlocks ---------------------------
(***************************************************************************)
(* The blocks that a check guards: of the thread number, of the flag for   *)
(* the last iteration of a loop, and of the answer of a reduction          *)
(* (Analysis/OpenMP/OpenMP.cpp; computeGuardedBlocks and                   *)
(* computeLastprivateBlocks, Analysis/OpenMPAnalysis.cpp).                 *)
(***************************************************************************)
EXTENDS Bitcode

\* The comparisons <<instruction, constant>> of a value, or of what is loaded
\* from it, with a constant.
RECURSIVE ConstCmpEqs(_, _)
ConstCmpEqs(F, value) ==
  UNION {CASE user.op = "load" -> ConstCmpEqs(F, Res(user.id))
           [] user.op = "eq" ->
                LET constants == {v \in ToSet(user.args) : v[1] = "c"}
                IN {<<user, v[2]>> : v \in constants}
           [] OTHER -> {} : user \in Users(F, value)}

BranchesOn(F, cmp) == {i \in Users(F, Res(cmp.id)) : i.op = "cond"}

\* Mutant: one guarded predecessor is enough.
Grown_AnyPred(F, guarded) ==
  guarded \cup {b \in UNION {Succ(F, g) : g \in guarded} : Preds(F, b) \cap guarded # {}}

\* Blocks whose predecessors are all guarded are guarded too.
Grown(F, guarded) ==
  guarded \cup {b \in UNION {Succ(F, g) : g \in guarded} : Preds(F, b) \subseteq guarded}

RECURSIVE GuardedFrom(_, _)
GuardedFrom(F, guarded) ==
  IF Grown(F, guarded) = guarded THEN guarded ELSE GuardedFrom(F, Grown(F, guarded))

\* getGuardedBlocks: the target of the branch is taken to be guarded whatever its
\* predecessors are.  The worklist must not be empty at first.
Target(branch, taken) == branch.succ[IF taken THEN 1 ELSE 2]

TargetOK(F, branch, taken) == Succ(F, Target(branch, taken)) # {}

GetGuardedBlocks(F, branch, taken) == GuardedFrom(F, {Target(branch, taken)})

-----------------------------------------------------------------------------
IsForStaticInit(i) == IsCall(i) /\ i.callee = "for_static_init"

\* The code for the last iteration, where the flag is not 0.
LastprivateBlocks(F) ==
  UNION {UNION {UNION {GetGuardedBlocks(F, branch, FALSE) : branch \in BranchesOn(F, cmp[1])} :
                cmp \in {c \in ConstCmpEqs(F, init.args[1]) : c[2] = 0}} :
         init \in {i \in InstsOf(F) : IsForStaticInit(i)}}

\* Everything between the switch after the reduce and its default case.
RECURSIVE UpTo(_, _, _)
UpTo(F, exit, blocks) ==
  LET more == blocks \cup (UNION {Succ(F, b) : b \in blocks} \ {exit})
  IN IF more = blocks THEN blocks ELSE UpTo(F, exit, more)

\* Mutant: the walk does not stop at the default case.
ReduceBlocks_PastExit(F, switch) == UpTo(F, "", ToSet(switch.succ))

ReduceBlocks(F, switch) == UpTo(F, switch.succ[1], ToSet(switch.succ) \ {switch.succ[1]})
=============================================================================
