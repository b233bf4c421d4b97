CONSTANTS
  Parts = {"application", "stepup", "access", "ledger", "staff", "policy",
           "privacy", "provider", "bootstrap"}
  c1 = c1
  c2 = c2
  q1 = q1
  q2 = q2
SPECIFICATION Spec
INVARIANTS
  AdminTypes
  EffectsOnce
  AnswersHold
  RowsReal
  LeftoversTraced
  QuestionBound
PROPERTIES
  AuthorityInForce
SYMMETRY Symmetry
CHECK_DEADLOCK FALSE
