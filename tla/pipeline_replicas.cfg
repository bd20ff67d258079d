SPECIFICATION AllSpec
CONSTANTS
  r1 = r1
  r2 = r2
  w1 = w1
  w2 = w2
  Tasks = {t1, t2, t3}
  ThreadOf <- OwnThread
  Slots = {s1, s2}
  Tenants = {"a", "b"}
  MaxDeaths = 1
  Rows = {1}
  Said <- FourNames
  Procs = {1, 2}
  MaxMoves = 1
  Files <- ThreeFiles
  CheckEvery = 1
  Stale = 1
  Watched = TRUE
  MaxQueue = 1
  MaxDecided = 1
  MaxChanges = 1
  Triages = {1, 2}
  Owners = {"a"}
  Values = {hn, u, e}
  Emails = {e}
  Notes <- OneNote
  Texts <- TwoTexts
  Configured = FALSE
  Earlier <- OneStored
  MaxCalls = 2
  MaxStarts = 1
  Home = "a"
  Hosts = {"h", "web"}
  Patterned = {"web"}
  Loaders = {t1, t2}
  MaxEdits = 1
  MaxLoads = 2
  Agents = {"001"}
  Enrolled <- AllEnrolled
  t1 = t1
  t2 = t2
  t3 = t3
  s1 = s1
  s2 = s2
  hn = hn
  u = u
  e = e
  Absent = Absent
  Null = Null
  NoAlert = NoAlert
  Nobody = Nobody
  Replicas <- TwoReplicas
  Workers <- OneWorker
  Alerts <- TwoAlerts
  LowRisk <- None
  Foreign <- None
  BatchSize = 2
  LookBack = 1
  BackfillWindow = 9
  NewTenantWindow = 0
  PriorHistory = TRUE
  QueueCap = 1
  MaxCache = 9
  MaxDaily = 0
  MaxLate = 1
  MaxCrashes = 1
  MaxFaults = 1
SYMMETRY SymAll
 
INVARIANT OnceEachReplica
 
PROPERTY StoreHolds
