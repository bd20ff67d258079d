SPECIFICATION AllSpec
CONSTANTS
  w1 = w1
  w2 = w2
  p1 = p1
  p2 = p2
  d1 = d1
  d2 = d2
  d3 = d3
  a1 = a1
  a2 = a2
  v1 = v1
  v2 = v2
  Unset = Unset
  Fields = {"x", "y"}
  Admins = {a1, a2}
  Builders = {"b"}
  MaxKeys = 3
  MaxRestarts = 3
  JobThreads = {1}
  Each = {"sla"}
  Whole = {"prune"}
  Tenants = {"a", "b"}
  Default = "a"
  MaxChanges = 1
  Ids = {1, 2}
  Batch = 1
  Configured <- TwoTables
  MaxAdded = 1
  Validators = {v1, v2}
  Malformed = {"m"}
  Illogical = {"i"}
  Sound = {"s", "t"}
  MaxRuns = 2
  Subjects = {"u"}
  Tokens = {1, 2}
  Lifetime = 2
  MaxTime = 3
  MaxStarts = 2
  MaxFailures = 1
  Accounts = {"m", "a", "x", "y"}
  Mssp = "m"
  Admin = "a"
  MaxUsers = 3
  Community = FALSE
  MaxSteps = 3
  Analysts = {"x", "y"}
  Seniors = {"s"}
  Nobody = "nobody"
  MaxAsks = 4
  Actors = {"p", "u"}
  Providers = {"p"}
  Clients = {"h", "x", "y"}
  Home = "h"
  Window = 2
  MaxSwitches = 2
  MaxEdits = 2
  MaxReloads = 2
  MaxBegins = 1
  Faulty = {2}
  Entries <- PageOrLow
  Standing <- TwoStanding
  Triaged <- SomeAlerts
  Bands = {1, 3}
  MaxDecisions = 6
  Prior = 1
  MinLabels = 2
  Share = 2
  Cap = 1
  LastDay = 2
  LastSlot = 3
  Weekend = {2}
  DefaultDays = {0, 1}
  DefaultStart = 1
  DefaultEnd = 2
  Zones = {5}
  Nothing = Nothing
  Workers <- TwoWorkers
  Desks <- TwoDesks
  Decisions <- TwoDecisions
  Escalated <- HeldOne
  VerdictOf <- AiVerdict
  SeverityOf <- Rank
  KeyOf <- SameKey
  JoinKeys <- SameKeys
  HumanVerdicts <- BothVerdicts
  Statuses <- OpenOrClosed
  MaxRequests = 3
  MaxFaults = 1
SYMMETRY Symmetric
CHECK_DEADLOCK FALSE
INVARIANT NeverSweptUp
INVARIANT FiledOnce
 
PROPERTY VerdictKept
INVARIANT TenantsHold
 
 
INVARIANT ManagerHolds
PROPERTY HandsHold
