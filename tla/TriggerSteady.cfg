CONSTANTS
  m1 = m1
  m2 = m2
  c1 = c1
  t1 = t1
  t2 = t2
  NoTask = NoTask
  Managers = {m1, m2}
  Up = {m1, m2}
  Clients = {}
  Tasks = {t1, t2}
  Conditions <- SteadyConditions
  OwnerOf <- OneOwner
  MaxTasksPerOwner = 2
  Grace = 1
  MaxTime = 2
  MaxSkew = 1
  MaxStarts = 0
  MaxCalls = 0
  MaxFaults = 2
SPECIFICATION FairSteadySpec
INVARIANTS TypeOK OccurrencesInOrder RunCountExact
PROPERTIES LedgerSpec DueIsFired
