SPECIFICATION StreamSpec
CONSTANTS
  CHUNK = 2
  MaxBytes = 4
  MaxFlush = 2
  MaxUnits = 4
INVARIANTS
  Accounted
  InOrder
  ClosedAfterData
PROPERTIES
  FlushHonest
  WrittenIsSent
  RequestsComplete
  ReadImplementsPipe
  ReadDelivered
