CONSTANTS
  r1 = r1
  r2 = r2
  i1 = i1
  i2 = i2
  l1 = l1
  s1 = s1
  s2 = s2
  NoOne = NoOne
  Requests = {r1, r2}
  Recoverers = {i1}
  Logins = {l1}
  Sessions = {s1}
  MaxSettlementAttempts = 1
  MaxFaults = 1
  Punctual = TRUE
  LateWrites = FALSE
SPECIFICATION Spec
INVARIANTS
  TypeOK
  SingleWriter
  AuditNeverOverstates
CHECK_DEADLOCK FALSE
