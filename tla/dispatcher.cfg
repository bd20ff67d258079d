SPECIFICATION AllSpec
CONSTANTS
  hot = hot
  warm = warm
  mild = mild
  w1 = w1
  w2 = w2
  NoAlert = NoAlert
  Alerts <- ThreeKinds
  Malicious <- OnlyHot
  RiskOf <- Risks
  Workers <- TwoWorkers
  QueueCap = 2
  MaxSubmits = 4
  Enriched = {1, 2, 3}
  Poison = {2}
  MAX_SIZE = 2
  MaxOutages = 2
  Incidents = {i1}
  Others = 1
  MaxAttempts = 2
  Limit = 1
  Stale = 3
  MaxFaults = 1
  MaxTier = 1
  Order <- ThreeFeeds
  Dead = {"bad"}
  Reported = {1}
  Interval = 1
  ListedFor = 1
  LiveFor = 1
  MaxTime = 2
CHECK_DEADLOCK FALSE
INVARIANT TasksCounted
INVARIANT CleanDrain
PROPERTY NoWorkAfterSentinels
PROPERTY MostUrgentFirst
PROPERTY ImplementsPool
INVARIANT NothingLost
PROPERTY AnnouncementsHold
PROPERTY EventuallyDelivered
PROPERTY FeedsHold
