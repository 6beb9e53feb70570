SPECIFICATION FairSpec
CONSTANTS
  pull_request = pull_request
  push = push
  opened = opened
  synchronize = synchronize
  reopened = reopened
  future = future
  id1 = id1
  id2 = id2
  NoAction = NoAction
  Whole = Whole
  EventKind <- Kinds
  Action <- Actions
  DeliveryId <- Ids
  Deliveries <- Copies
  Programs <- Dispatchers
  Call = {c1, c2}
INVARIANTS
  InboxTypeOK
  RoutedOnceAsStored
  SuccessIsAccountedFor
  DeadLettersAreUnknownKinds
PROPERTIES
  FirstReceiptKept
  EndsUnlessItsHandlerHangs
CHECK_DEADLOCK FALSE
