CONSTANTS
  m1 = m1
  m2 = m2
  c1 = c1
  t1 = t1
  t2 = t2
  NoTask = NoTask
  Managers = {m1, m2}
  Up = {m1}
  Clients = {}
  Tasks = {t1}
  Conditions <- RestartConditions
  OwnerOf <- OneOwner
  MaxTasksPerOwner = 2
  Grace = 1
  MaxTime = 2
  MaxSkew = 0
  MaxStarts = 1
  MaxCalls = 0
  MaxFaults = 0
SPECIFICATION Spec
INVARIANT OneWakePerOccurrence
