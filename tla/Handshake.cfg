SPECIFICATION Spec
CONSTANTS
  Ed25519Keys = {"e1", "x1"}
  RsaKeys = {"r1"}
  Authorities = {"ca", "other"}
  Roots = {"ca"}
  StrangerKeys = {"x1"}
  Alpn = {"p"}
  Signers <- MCSigners
  MaxWirings = 4
  MaxCalls = 2
  MaxIdentities = 1
  MaxResources = 2
  TicketsSent = 1
  MaxMeetings = 2
  MaxSessions = 0
  MaxHandshakes = 3
INVARIANTS
  EachWiringOnce
  TrustKept
  EarlyDataOnce
  CompatibleMeet
CHECK_DEADLOCK FALSE
