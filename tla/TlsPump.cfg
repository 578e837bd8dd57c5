SPECIFICATION FairSpec
CONSTANTS
  CHUNK = 2
  PLIMIT = 1
  BUFLIMIT = 1
  HsLen = 2
  Clients = {TRUE, FALSE}
  MaxRecord = 2
  MaxRecv = 2
  MaxSend = 2
INVARIANTS
  TypeOK
  HandshakeHonest
  SentInOrder
  TerminalOrder
PROPERTIES
  EndIsTold
  ImplementsPipe
