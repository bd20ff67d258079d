SPECIFICATION FairSpec
CONSTANTS
  r1 = r1
  r2 = r2
  w1 = w1
  w2 = w2
  NoAlert = NoAlert
  Nobody = Nobody
  Replicas <- OneReplica
  Workers <- TwoWorkers
  Alerts <- ThreeAlerts
  LowRisk <- None
  Foreign <- SecondAlert
  BatchSize = 3
  LookBack = 2
  BackfillWindow = 9
  NewTenantWindow = 0
  PriorHistory = TRUE
  QueueCap = 2
  MaxCache = 1
  MaxDaily = 0
  MaxLate = 2
  MaxCrashes = 2
  MaxFaults = 0
INVARIANT NeverHeldTwice
 
 
PROPERTY EventuallyHandled
