SPECIFICATION FairSpec
CONSTANTS
  Dictations = {d1}
  Prewarm = prewarm
  Models = {m1}
  Fallbacks = {TRUE, FALSE}
  None = none
  MaxRetries = 1
  FailLimit = 2
  MaxBoots = 1
  MaxEvents = 1
  Faults = {"hang", "protocol"}
  Verdicts = {"passed", "retry"}
CHECK_DEADLOCK FALSE
PROPERTIES
  EveryDecodeEnds
