SPECIFICATION Spec
CONSTANTS
  t1 = t1
  t2 = t2
  s1 = s1
  s1b = s1b
  s2 = s2
  Target <- Targets
  Secret <- Secrets
  Owner <- Owners
  Requests <- MCRequests
  Bodies <- MCBodies
  Request = {r1}
  Limits = {2}
  MaxUsize = 3
  MaxU64 = 7
  MaxChanges = 1
INVARIANTS
  ReceiverTypeOK
  HandledIsAuthentic
  NothingReadForARefusedRequest
  AnswerFollowsTheContract
CHECK_DEADLOCK FALSE
