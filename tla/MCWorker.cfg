SPECIFICATION Spec
CONSTANTS
  ping = ping
  installation = installation
  push = push
  old = old
  new = new
  i1 = i1
  i2 = i2
  d1 = d1
  d2 = d2
  Empty = Empty
  NoAction = NoAction
  Whole = Whole
  EventKind <- Kinds
  Action = {}
  Secret <- Secrets
  Installation <- Installations
  DeliveryId <- Ids
  Deliveries <- Requests
  Call = {c1, c2}
  MaxRebinds = 1
INVARIANTS
  WorkerTypeOK
  SuccessMeansForwarded
  OnlySignedIsForwarded
CHECK_DEADLOCK FALSE
