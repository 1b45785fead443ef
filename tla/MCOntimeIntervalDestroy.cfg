SPECIFICATION Spec
CONSTANTS
  Sub = {s1}
  Cond = {c1, c2}
  Tid = {t1, t2}
  Req = {r1, r2}
  None = None
SYMMETRY Symmetry
INVARIANTS
  DestroyWaits
