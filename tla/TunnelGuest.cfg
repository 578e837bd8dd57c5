SPECIFICATION FairSpec
CONSTANTS
  CHUNK = 2
  MaxCalls = 2
  MaxData = 2
INVARIANTS
  SocketAnswers
  SendVerdictEarned
PROPERTY SendDirectionEnds
CHECK_DEADLOCK FALSE
