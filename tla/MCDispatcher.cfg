SPECIFICATION Spec
CONSTANTS
  k1 = k1
  k2 = k2
  a1 = a1
  NoAction = NoAction
  Whole = Whole
  EventKind <- Kinds
  Action <- Actions
  Matchers <- MatcherShapes
  Envelopes <- Deliveries
  Call = {c1}
  MaxRegistrations = 3
INVARIANTS
  TypeOK
  RunsInOrder
  OutcomeAccountsForTheRun
CHECK_DEADLOCK FALSE
