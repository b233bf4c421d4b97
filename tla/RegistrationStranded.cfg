CONSTANT Parts = {"registration"}
SPECIFICATION Spec
INVARIANT PendingRetainsVerifier
CHECK_DEADLOCK FALSE
