SPECIFICATION FairSpec
CONSTANTS
  k1 = k1
  k2 = k2
  a1 = a1
  NoAction = NoAction
  Whole = Whole
  EventKind <- Kinds
  Action <- Actions
  Matchers <- MatcherShapes
  Envelopes <- FewDeliveries
  Call = {c1, c2}
  MaxRegistrations = 2
PROPERTIES
  ImplementsContract
  EndsUnlessAHandlerHangs
CHECK_DEADLOCK FALSE
