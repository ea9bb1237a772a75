CONSTANTS
  main = main
  alt = alt
  spare = spare
  pMain = pMain
  pSpare = pSpare
  NoProvider = NoProvider
  NoSlot = NoSlot
  r1 = r1
  r2 = r2
  r3 = r3
  Requests = {r1, r2, r3}
  Providers = {pMain, pSpare}
  Slots = {main, alt, spare}
  SlotProvider <- ThreeSlots
  DefaultSlot = NoSlot
  Chains <- MainToSpare
  FallbackEnabled = TRUE
  FallbackOnNonRetryable = FALSE
  MaxRetries = 1
  BreakerEnabled = TRUE
  Threshold = 2
  Cooldown = 1
  MaxTime = 3
SPECIFICATION Spec
INVARIANTS TypeOK OpensOnThresholdVisits ProbesSpaced ProbeHasOwner
SYMMETRY AnyRequest
CHECK_DEADLOCK FALSE
