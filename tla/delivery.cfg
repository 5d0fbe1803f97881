SPECIFICATION Spec
CONSTANTS
  Windows = {"editor", "browser", "term", "admin", "uac", "voicewave"}
  Host <- MCHost
  Admin = {"admin"}
  Secure = {"uac"}
  Own = "voicewave"
  NoWindow = noWindow
  Unknown = unknown
  MaxInserts = 2
  MaxMoves = 2
  MaxUndos = 2
  LogSize = 1
  MaxDictations = 2
  MaxRecords = 2
  MaxFaults = 1
  MaxErasures = 1
  AnnounceEvery = 2
  Nil = nil
  LastDate = 3
  MaxSpoken = 3
  MaxRows = 2
  MaxMishaps = 1
CHECK_DEADLOCK FALSE
INVARIANTS
  HistoryTellsWhatLanded
  EachCountsOnce
PROPERTIES
  EnterFollowsTheNewest
  UndoIsForTheLast
