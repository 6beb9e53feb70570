SPECIFICATION Spec
CONSTANTS
  Char = {"p", "f", "d", "s", "o", "quote", "backslash", "number"}
  Role = {"edge", "service"}
  Vocabularies <- Known
  Receipts <- Sent
  Annotations = {"action", "trace"}
  Declared <- Views
  Values <- Written
  MaxHops = 2
INVARIANTS
  WireTypeOK
  AsIfReceivedHere
  ReadAsWritten
  MetaIsOfTheBytes
  KindsAgree
CHECK_DEADLOCK FALSE
