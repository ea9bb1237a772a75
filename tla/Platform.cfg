CONSTANTS
  MaxSubscriptions = 3
  MaxEmits = 2
  MaxOff = 2
  Names <- MCNames
  Core <- MCCore
  Anchor = "cognition"
  CoreHooks <- MCCoreHooks
  Plugins <- MCPlugins
  MaxLives = 2
  MaxChanges = 2
  Upstreams <- MCUpstreams
  MaxSaid = 2
  MaxCalled = 2
  ChoiceIds = {0, 1}
  Tools = {1, 2}
  Ambient <- MCAmbient
  Calls = {"first", "second"}
  RequestsOf <- MCRequests
  Errors <- MCErrors
  MaxRetries = 1
  MaxRecords = 4
  MaxItems = 2
  RecentLimit = 1
  MaxHeard = 5
SPECIFICATION Spec
INVARIANTS
  HeardByAll
  HooksInTheirPlace
  Released
  StreamFaithful
  StreamEndsHonestly
  ObservedAsItWent
CHECK_DEADLOCK FALSE
