SPECIFICATION Spec
CONSTANTS
  r1 = r1
  r2 = r2
  w1 = w1
  w2 = w2
  NoAlert = NoAlert
  Nobody = Nobody
  Replicas <- OneReplica
  Workers <- TwoWorkers
  Alerts <- ThreeAlerts
  LowRisk <- SecondAlert
  Foreign <- None
  BatchSize = 2
  LookBack = 2
  BackfillWindow = 9
  NewTenantWindow = 0
  PriorHistory = TRUE
  QueueCap = 1
  MaxCache = 9
  MaxDaily = 1
  MaxLate = 1
  MaxCrashes = 2
  MaxFaults = 2
SYMMETRY SymWorkers
INVARIANT TypeOK
INVARIANT SeenIsAccountedFor
INVARIANT DroppedIsRefetched
PROPERTY OneReplicaKeepsLedger
