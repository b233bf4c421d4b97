CONSTANT Parts = {"enrollment", "ceremony", "onboarding", "gate", "queue", "registration", "notes", "recovery", "front"}
SPECIFICATION Spec
INVARIANTS
  EntryTypes
  UsedOnce
  LimitsHold
  ProofBacked
  LeftoversCovered
  AuthorityUnique
PROPERTIES
  SettledStays
CHECK_DEADLOCK FALSE
