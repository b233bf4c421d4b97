CONSTANTS
  r1 = r1
  r2 = r2
  i1 = i1
  i2 = i2
  l1 = l1
  s1 = s1
  s2 = s2
  NoOne = NoOne
  Requests = {r1}
  Recoverers = {i1}
  Logins = {l1}
  Sessions = {s1, s2}
  MaxSettlementAttempts = 1
  MaxFaults = 1
  Punctual = FALSE
  LateWrites = TRUE
SPECIFICATION FairSpec
INVARIANTS
  EpochMatchesIntent
  NoStampAhead
PROPERTIES
  OutcomeImmutable
  CleanupSparesCurrentGeneration
  ImplementsBoundary
  Terminalizes
CHECK_DEADLOCK FALSE
