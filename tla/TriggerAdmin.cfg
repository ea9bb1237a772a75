CONSTANTS
  m1 = m1
  m2 = m2
  c1 = c1
  t1 = t1
  t2 = t2
  NoTask = NoTask
  Managers = {m1, m2}
  Up = {m1}
  Clients = {c1}
  Tasks = {t1}
  Conditions <- RestartConditions
  OwnerOf <- OneOwner
  MaxTasksPerOwner = 2
  Grace = 1
  MaxTime = 2
  MaxSkew = 0
  MaxStarts = 1
  MaxCalls = 1
  MaxFaults = 1
SPECIFICATION FairSpec
INVARIANTS DisabledMeansPaused RefiresBounded OnceIsNotLost
PROPERTY RunningRecovers
