----------------------- MODULE MCPartialUpdateSolver -----------------------
(***************************************************************************)
(* Programs for PartialUpdateSolver: constraint graphs without calls, and  *)
(* graphs whose calls through a pointer bring further constraints.         *)
(***************************************************************************)
EXTENDS PartialUpdateSolver

CONSTANTS p, q, r, g,     \* pointers, g the result of a field access
          a, aField, b,   \* an aggregate, its field, a scalar
  c,              \* a constant global that holds the address of b
  fp, f1, f2, f3, \* a function pointer and functions
  s1,             \* the call through fp
  x, y,           \* pointers of the caller and of the callee
  gv,             \* a global pointer to a std::vector
  it, fake, elem, \* results of begin, of push_back, and the value pushed
  vec, vecElem,   \* the vector and its element object
  MaxCons         \* bound on the constraints chosen freely

NoBody == [t \in Site \X Func |-> {}]

\* The sets of at most k elements of S.
UpTo(k, S) == {{}} \cup {{f[i] : i \in 1..k} : f \in [1..k -> S]}

Con(k, m, n) == [kind |-> k, src |-> m, dst |-> n]

MCField == [o \in Obj |-> IF o = a /\ aField \in Obj THEN aField ELSE None]

MCFunPtr == [s \in Site |-> fp]

MCElem == [o \in Obj |-> IF o = vec THEN vecElem ELSE None]

MCParam == [n \in Ptr |-> IF n = fake THEN elem ELSE None]

(***************************************************************************)
(* Every constraint graph of three pointers that point to an aggregate, a  *)
(* scalar and a constant global, and up to MaxCons other constraints, a    *)
(* field access among them or not.                                         *)
(***************************************************************************)
Addresses == {Con("addr_of", a, p), Con("addr_of", b, q),
              Con("addr_of", c, r), Con("addr_of", b, c)}

Plain ==
  {Con(k, t[1], t[2]) : k \in {"copy", "load", "store"},
                        t \in {t \in {p, q, r} \X {p, q, r} : t[1] # t[2]}}
  \cup {Con("load", p, p), Con("store", p, p)}

AroundField ==
  {Con("copy", g, r), Con("store", q, g), Con("load", g, r), Con("store", g, p)}

FieldAccess == {Con("offset", m, g) : m \in {p, r}}

AllPrograms ==
  {[cons |-> Addresses \cup cs, body |-> NoBody] :
     cs \in UpTo(MaxCons, Plain)}
  \cup
  {[cons |-> Addresses \cup {fa} \cup cs, body |-> NoBody] :
     fa \in FieldAccess,
     cs \in UpTo(MaxCons - 1, Plain \cup AroundField)}

(***************************************************************************)
(* A caller with an indirect call, and a callee f1 that is reached through *)
(* it; whatever is added may make fp point to f2.                          *)
(***************************************************************************)
Caller ==
  {Con("copy", p, x), Con("copy", x, p), Con("load", p, x), Con("store", p, p),
   Con("copy", x, fp), Con("store", fp, p)}

Callee ==
  {Con("addr_of", b, y), Con("copy", p, y), Con("copy", y, x), Con("store", y, p),
   Con("copy", q, y), Con("copy", y, fp),
   Con("offset", p, g), Con("copy", g, x)}

FunctionPrograms ==
  {[cons |-> {Con("addr_of", f1, fp), Con("addr_of", f2, q), Con("addr_of", a, p)} \cup cs,
    body |-> [t \in Site \X Func |-> IF t[2] = f1 THEN fs ELSE {Con("store", p, x)}]] :
     cs \in UpTo(MaxCons - 1, Caller), fs \in UpTo(MaxCons - 1, Callee)}

(***************************************************************************)
(* Vectors: push_back (the special constraint to fake, with the value elem *)
(* loaded from its argument) and begin or operator[] (to it), either in    *)
(* the caller, through the global or a local pointer q, or in the callee.  *)
(* The call may reach three functions, of which Max_Indirect_Target are    *)
(* kept.                                                                   *)
(***************************************************************************)
PushBack(v) == {Con("load", x, elem), Con("special", v, fake)}

Access(v) == {Con("special", v, it), Con("load", it, y)}

Assign(v) == {Con("special", v, it), Con("store", x, it)}

Uses(v) == {{}, PushBack(v), Access(v), Assign(v), PushBack(v) \cup Access(v)}

WithVector(inCaller, inCallee) ==
  [cons |-> {Con("addr_of", vec, gv), Con("addr_of", f1, fp), Con("addr_of", f2, fp),
             Con("addr_of", f3, fp), Con("addr_of", a, p), Con("addr_of", b, x),
             Con("store", p, x)} \cup inCaller,
   body |-> [t \in Site \X Func |-> IF t[2] = f1 THEN inCallee ELSE {}]]

VectorPrograms ==
  {WithVector({l} \cup us, {}) :
     l \in {Con("addr_of", vec, q), Con("copy", gv, q)}, us \in Uses(gv) \cup Uses(q)}
  \cup
  {WithVector(us, {Con("copy", gv, q), Con("store", y, x)} \cup vs) :
     us \in Uses(gv), vs \in Uses(q)}

IndirectPrograms == FunctionPrograms \cup VectorPrograms

MCPrograms == AllPrograms \cup IndirectPrograms

ASSUME \A prog \in MCPrograms : VectorsComeWithTheCall(prog)

\* The callee uses the global vector itself.
LateVectorPrograms ==
  {WithVector(us, vs) : us \in Uses(gv), vs \in {PushBack(gv), Access(gv)}}

=============================================================================
