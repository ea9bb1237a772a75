CONSTANTS
  m1 = m1
  m2 = m2
  c1 = c1
  t1 = t1
  t2 = t2
  NoTask = NoTask
  Managers = {m1}
  Up = {m1}
  Clients = {c1}
  Tasks = {t1}
  Conditions <- FullConditions
  OwnerOf <- OneOwner
  MaxTasksPerOwner = 2
  Grace = 1
  MaxTime = 3
  MaxSkew = 0
  MaxStarts = 0
  MaxCalls = 1
  MaxFaults = 0
SPECIFICATION Spec
PROPERTY RemovedStaysRemoved
