CONSTANTS
  b1 = b1
  b2 = b2
  r1 = r1
  a1 = a1
  a2 = a2
  a3 = a3
  u1 = u1
  Browsers = {b1, b2}
  Reconcilers = {r1}
  AuthRequests = {a1, a2, a3}
  Users = {u1}
  Prompt <- ReusePrompt
  Asks <- ReuseAsks
  Poisoned = {}
  Batch = 2
  MaxFaults = 0
SPECIFICATION Spec
PROPERTIES
  RevocationSticks
CHECK_DEADLOCK FALSE
