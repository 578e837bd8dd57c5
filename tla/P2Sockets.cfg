SPECIFICATION FairSpec
CONSTANTS
  h1 = h1
  h2 = h2
  v4 = v4
  v6 = v6
  good = good
  bad = bad
  NoName = NoName
  HandleSpace <- MCHandles
  RealAddrs <- MCReal
  V6Addrs <- MCV6
  Names <- MCNames
  BadNames <- MCBad
  Answers <- MCAnswers
  Lookups = {1}
  MaxResolves = 2
  Reps = {1}
  MaxGen = 2
  MaxTasks = 2
INVARIANTS
  ResolvedAsAsked
  ReadyMeansFinished
  ConnectedAsDialed
PROPERTIES
  ResolutionYields
  OutcomeStands
  ConnectSettles
CHECK_DEADLOCK FALSE
