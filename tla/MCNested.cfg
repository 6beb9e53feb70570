SPECIFICATION Spec
CONSTANTS
  issues = issues
  installation = installation
  opened = opened
  reopened = reopened
  deleted = deleted
  NoAction = NoAction
  Whole = Whole
  EventKind <- Kinds
  Action <- Actions
  Trees <- Composed
  Deliveries <- Sent
  Place = {1, 2}
INVARIANTS
  NestedRunsInPlace
  FailureCanBeTraced
CHECK_DEADLOCK FALSE
