CONSTANTS
  c1 = c1
  c2 = c2
  Clients = {c1, c2}
  Initial = c1
  Requests = {r1, r2}
  Ops = {"create_app", "update_app", "enable_app", "disable_app", "delete_app", "create_client", "update_client", "update_scopes", "enable_client", "disable_client", "delete_client", "rotate"}
  MaxFaults = 0
SPECIFICATION Spec
INVARIANTS
  NoSilentLeak
SYMMETRY Symmetry
CHECK_DEADLOCK FALSE
