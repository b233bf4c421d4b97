CONSTANT Parts = {"healing", "enrollment", "onboarding", "ledger", "queue", "registration", "notes", "staff", "policy", "privacy"}
SPECIFICATION Spec
PROPERTIES
  Settles
  InventoryHeals
CHECK_DEADLOCK FALSE
