SPECIFICATION Spec
CONSTANTS
  CHUNK = 2
  PLIMIT = 2
  BUFLIMIT = 1
  HsLen = 1
  Clients = {TRUE}
  MaxRecord = 1
  MaxRecv = 1
  MaxSend = 2
INVARIANT CloseNotifyLast
