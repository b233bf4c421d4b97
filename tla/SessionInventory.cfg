CONSTANTS
  s1 = s1
  s2 = s2
  t1 = t1
  t2 = t2
  t3 = t3
  u1 = u1
  u2 = u2
  c1 = c1
  c2 = c2
  c3 = c3
  Sids = {s1, s2}
  Tokens = {t1, t2, t3}
  Users = {u1, u2}
  Owner <- OneUser
  Callers = {c1, c2, c3}
  Mixes <- TwoMixes
SPECIFICATION Spec
INVARIANTS
  TypeOK
  OneToken
  InventoryComplete
  ReportedIsGone
  WalkComplete
PROPERTIES
  EndsOnce
  RevocationStaysInScope
SYMMETRY Symmetry
CHECK_DEADLOCK FALSE
