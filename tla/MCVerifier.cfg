SPECIFICATION FairSpec
CONSTANTS
  Handle = {h1, h2}
  Secret = {s1, s2}
  Cell = {m1, m2}
  MaxSecrets = 3
  NoSecrets = NoSecrets
  NoCell = NoCell
INVARIANTS
  VerifierTypeOK
  FreedWithItsLastHandle
  EverySecretTried
PROPERTIES
  SigningSecretStays
  ImplementsValues
CHECK_DEADLOCK FALSE
