SPECIFICATION Spec
CONSTANTS
  h1 = h1
  v4 = v4
  v6 = v6
  n1 = n1
  HandleSpace <- MCHandles
  RealAddrs <- MCReal
  V6Addrs <- MCV6
  Names <- MCNames
  Answers <- MCAnswers
  SENDBUF = 1
  MaxCalls = 2
  MaxSend = 2
  MaxRecv = 1
INVARIANTS
  TunnelAsResolved
  VerdictsEarned
  VerdictsOwed
CHECK_DEADLOCK FALSE
