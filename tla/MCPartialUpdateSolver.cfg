SPECIFICATION Spec
CONSTANTS
  p = p
  q = q
  r = r
  g = g
  a = a
  aField = aField
  b = b
  c = c
  fp = fp
  f1 = f1
  f2 = f2
  f3 = f3
  s1 = s1
  x = x
  y = y
  gv = gv
  it = it
  fake = fake
  elem = elem
  vec = vec
  vecElem = vecElem
  None = None
  Ptr = {fp, p, q, r, x, y, g, gv, it, fake, elem}
  Obj = {f1, f2, f3, a, aField, b, c, vec, vecElem}
  Func = {f1, f2, f3}
  Site = {s1}
  Immutable = {c}
  MaxIndirectTarget = 2
  MaxCons = 3
  FunPtr <- MCFunPtr
  Field <- MCField
  Elem <- MCElem
  Param <- MCParam
  Programs <- MCPrograms
INVARIANTS
  TypeOK
  NothingForgotten
PROPERTIES
  Implements
  Termination
