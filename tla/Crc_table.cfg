SPECIFICATION Spec
CONSTANTS
  Bytes <- MCBytes
  Errors <- MCErrors
  MaxLen = 5
INVARIANT CrcIsRemainder
INVARIANT DamageIsFound
\* A payload ends.
CHECK_DEADLOCK FALSE
