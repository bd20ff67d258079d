SPECIFICATION AllSpec
CONSTANTS
  w1 = w1
  w2 = w2
  c1 = c1
  c2 = c2
  Nobody = Nobody
  Workers <- TwoWorkers
  Cap = 3
  Est = 2
  MaxCost = 1
  CallsPerTriage = 2
  MaxFaults = 1
  MaxLeaks = 1
  Callers <- TwoCallers
  Permits = {1, 2}
  Cooldown = 1
  Attempts = 2
  MaxFailed = 2
  MaxTime = 0
  Threshold = 2
  MaxOutages = 1
INVARIANT RowsAreCalls
 
PROPERTY EventuallyAnswered
INVARIANT CallsHold
PROPERTY CallsEnd
