CONSTANTS
  g1 = g1
  g2 = g2
  both = both
  own = own
  msg1 = msg1
  msg2 = msg2
  wake1 = wake1
  sys1 = sys1
  sys2 = sys2
  None = None
  Stimuli = {msg1, msg2}
  Habitats = {g1, g2}
  HabitatOf <- InGroups
  Priority <- InstantFirst
  Lives = {both, own}
  LivesOf <- Residents
  Messages = {msg1, msg2}
  Wakes = {}
  TargetOf <- WakesOwn
  MaxFaults = 0
SPECIFICATION Spec
INVARIANT NoUpdateLost
CHECK_DEADLOCK FALSE
