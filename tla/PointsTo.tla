------------------------------ MODULE PointsTo ------------------------------
(***************************************************************************)
(* What a points-to analysis promises, whatever order it works in: the     *)
(* points-to sets only grow, never beyond the least solution of the        *)
(* constraints; a callee joins the program only when some call site can    *)
(* reach it; and when the analysis says it is finished, the points-to sets *)
(* are a solution and every call site has the callees it can reach.        *)
(***************************************************************************)
EXTENDS PointerConstraints

VARIABLES
  body,      \* <<call site, function>> -> constraints of the call and callee
  cons,      \* the constraints of the program known so far
  sol,       \* node -> objects it may point to
  resolved,  \* the <<call site, function>> pairs known so far
  finished

vars == <<body, cons, sol, resolved, finished>>

TargetsIn(ts, s) == {t \in ts : t[1] = s}

CallsResolved(ts, S) ==
  \A s \in Site : \/ \A f \in S[FunPtr[s]] \cap Func : <<s, f>> \in ts
                  \/ Cardinality(TargetsIn(ts, s)) = MaxIndirectTarget

Init ==
  /\ sol = NothingKnown
  /\ resolved = {}
  /\ finished = FALSE

Grow ==
  /\ UNCHANGED <<body, cons, resolved, finished>>
  /\ sol' # sol
  /\ LET least == LeastSolution(cons) IN
       \A n \in Node : sol[n] \subseteq sol'[n] /\ sol'[n] \subseteq least[n]

AddCallees ==
  /\ UNCHANGED <<body, sol, finished>>
  /\ resolved \subseteq resolved'
  /\ \A t \in resolved' \ resolved : t[2] \in sol[FunPtr[t[1]]] \cap Func
  /\ cons' = cons \cup UNION {body[t] : t \in resolved'}

Finish ==
  /\ finished' = TRUE
  /\ IsSolution(sol, cons)
  /\ CallsResolved(resolved, sol)
  /\ UNCHANGED <<body, cons, sol, resolved>>

Next == ~finished /\ (Grow \/ AddCallees \/ Finish)

Spec == Init /\ [][Next]_vars

=============================================================================
