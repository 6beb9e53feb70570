SPECIFICATION Spec
CONSTANTS
  Sha256Bytes = 2
  Texts <- HeaderValues
INVARIANTS
  ParsedAsDenoted
PROPERTIES
  PrintedAndParsedBack
CHECK_DEADLOCK FALSE
