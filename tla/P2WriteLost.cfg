SPECIFICATION Spec
CONSTANTS
  CHUNK = 2
  MaxBytes = 4
  MaxFlush = 2
INVARIANT NothingLost
