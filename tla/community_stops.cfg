SPECIFICATION Spec
CONSTANTS
  Absent = Absent
  Null = Null
  Files <- OnlyNoFile
  CheckEvery = 3
  Stale = 2
  Watched = FALSE
  MaxQueue = 1
  MaxDecided = 1
  MaxChanges = 0
  MaxFaults = 0
PROPERTY CommunityKeepsFetching
