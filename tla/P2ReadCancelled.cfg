SPECIFICATION Spec
CONSTANTS
  CHUNK = 2
  MaxUnits = 2
INVARIANT TakenOnlyInReady
