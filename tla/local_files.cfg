SPECIFICATION Spec
CONSTANTS
  Values = {v1, v2}
  Missing = missing
  Absent = absent
  Empty = empty
  Corrupt = corrupt
  MaxFileCalls = 4
  NoFile = noFile
  MaxRuns = 2
  NoOutbox = noOutbox
  Torn = torn
  MaxEntries = 2
  MaxBatch = 2
  MaxEvents = 4
  MaxChanges = 3
  MaxLaunches = 2
  Facts = {a, b}
  NoDay = noDay
  LastDay = 2
  MaxSwitches = 1
  MaxProcesses = 2
  MaxSpoilt = 1
  Computers = {"c1", "c2"}
  Syncs = {"s1", "s2", "s3"}
  On <- MCOn
  Words = {w1, w2}
  Texts = {1, 2}
  MaxActive = 1
  Oldest = 2
  Skew = 0
  Off = {"c1"}
  MaxClock = 3
  MaxEdits = 2
  MaxLosses = 1
CHECK_DEADLOCK FALSE
INVARIANTS
  VerdictIsTrue
  OffLeavesNothing
  QueueSurvives
  CountedOnce
  OffForgetsTheDay
PROPERTIES
  FileIsOneCell
  ComputersAgree
