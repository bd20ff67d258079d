SPECIFICATION Spec
CONSTANTS
  w1 = w1
  w2 = w2
  a1 = a1
  a2 = a2
  a3 = a3
  Nothing = Nothing
  Workers <- OneWorker
  Alerts <- TwoAlerts
  FpOf <- OneFingerprint
  Enrichments <- Plain
  ModelVerdicts <- OneVerdict
  NoiseVerdict = "false_positive"
  AutoCloseAt = 2
  EscalateBelow = 1
  CacheAt = 2
  NoiseConf = 1
  TopConf = 2
  MaxRestarts = 1
  MaxAdmin = 0
PROPERTY HeldShut
