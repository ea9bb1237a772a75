CONSTANTS
  c1 = c1
  c2 = c2
  c3 = c3
  a1 = a1
  a2 = a2
  g1 = g1
  g2 = g2
  t1 = t1
  s1 = s1
  s2 = s2
  Life = life
  None = None
  CandidateLimit = 2
  ContextLimit = 1
  AiSelector = TRUE
  Cap = 1
  MaxEntries = 4
  MaxCalls = 3
  MaxBonds = 3
  MaxPlans = 3
  MaxRounds = 2
  MaxSegments = 2
  DefaultWindow = 2
  MemoryLimit = 2
  MaxHistory = 3
  MaxChannels = 2
  MaxWakes = 2
  MaxArrivals = 3
  MaxBlocks = 3
  MaxPerAnswer = 2
  MaxFaults = 1
  Chats <- TwoChats
  Backends <- BothBackends
  Told <- FromTwoChats
  Recalled <- InGroup
  Consolidations <- Consolidated
  PlansOf <- PlansInChats
  Policies <- BothPolicies
  Asked <- AskedAbout
  TurnChats <- ThreeChats
  LivesOf <- InTwoChats
  AnswersOf <- Answers
  Protocols <- EveryProtocol
  Openings <- Opened
SPECIFICATION FollowedSpec
INVARIANTS
  TypeOK
  CapAtRest
  ToldIsStored
  ContextKeepsVisibility
  OneActivePerSource
  ReportedAsItWent
  BondsExact
  RequestsWellFormed
  HistoryTellsWhatWasSaid
  SentOnceInOrder
  RequestsFaithful
CHECK_DEADLOCK FALSE
