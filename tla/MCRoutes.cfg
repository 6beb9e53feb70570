SPECIFICATION RoutesSpec
CONSTANTS
  k1 = k1
  k2 = k2
  a1 = a1
  a2 = a2
  NoAction = NoAction
  Whole = Whole
  EventKind <- Kinds
  Action <- Actions
  Matchers <- MatcherShapes
  MaxRegistrations = 3
INVARIANTS
  TableTypeOK
  TableHoldsRegistrations
  LookupAsDeclared
CHECK_DEADLOCK FALSE
