SPECIFICATION Spec
CONSTANTS
  w1 = w1
  w2 = w2
  p1 = p1
  p2 = p2
  d1 = d1
  d2 = d2
  d3 = d3
  Nothing = Nothing
  Workers <- OneWorker
  Desks <- OneDesk
  Decisions <- TwoDecisions
  Escalated <- HeldOne
  VerdictOf <- AiVerdict
  SeverityOf <- Rank
  KeyOf <- SameKey
  JoinKeys <- SameKeys
  HumanVerdicts <- BothVerdicts
  Statuses <- OpenOrClosed
  MaxRequests = 2
  MaxFaults = 0
CHECK_DEADLOCK FALSE
PROPERTY RollupIsConservative
