SPECIFICATION BodySpec
CONSTANTS
  Request = {r1}
  Bodies <- MCBodies
  Limits <- MCLimits
  MaxUsize = 3
  MaxU64 = 7
INVARIANTS
  BodyTypeOK
  BufferedWithinLimit
  BufferIsTheDataTaken
  RefusedForItsReason
CHECK_DEADLOCK FALSE
