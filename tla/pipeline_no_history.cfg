SPECIFICATION Spec
CONSTANTS
  r1 = r1
  r2 = r2
  w1 = w1
  w2 = w2
  NoAlert = NoAlert
  Nobody = Nobody
  Replicas <- OneReplica
  Workers <- OneWorker
  Alerts <- TwoAlerts
  LowRisk <- None
  Foreign <- None
  BatchSize = 2
  LookBack = 1
  BackfillWindow = 9
  NewTenantWindow = 0
  PriorHistory = FALSE
  QueueCap = 2
  MaxCache = 9
  MaxDaily = 0
  MaxLate = 0
  MaxCrashes = 1
  MaxFaults = 0
INVARIANT DroppedIsRefetched
