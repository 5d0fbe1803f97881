SPECIFICATION Spec
CONSTANTS
  Speech = {s1}
  Loads = {re}
  Reload = re
  Readiers = {ready}
  Download = dl
  Pids = {p1, p2, p3}
  Nobody = nobody
  MaxAsked = 3
  MinSpeech = 2
  MaxSilence = 2
  PreRoll = 1
  EdgePad = 1
  Fallback = 2
  Warmup = 2
  Debounce = 1
  ReleaseTail = 3
  MinWait = 2
  FastExit = 1
  Confirm = 1
  PreReleasePad = 2
  MaxHold = 5
  MaxHandsFree = 6
  FirstSpeech = 2
  Trailing = 2
  HandsFreeSilence = 3
  Workers = {w1, w2, w3}
  Devices = {d1, d2}
  Nothing = nothing
  MaxCalls = 2
  Window = 3
  SpeedWindow = 4
  Threshold = 3
  Budget = 2
  MaxPasses = 3
  Texts <- MCTexts
  PunctuationOnly = "..."
  Letters = {"a", "b", "c"}
  CommonWords = {"a", "the", "go", "of"}
  Losses = {300, 750, 1300}
  NoSpeeches = {0, 900}
  Compressions = {1500, 2500, 2800}
  Durations = {600, 2500, 5000}
  Cards = {"rtx", "arc"}
  Kind <- MCKind
  Memory <- MCMemory
  Models = {"fw", "turbo"}
  FwModel = "fw"
  Accepted = "turbo"
  Preference = ""
  Callers = {"command"}
  MaxRecords = 2
  MaxRetries = 2
  Ttl = 2
  MaxBoots = 3
  LastDay = 3
  MaxChanges = 1
  None = None
  Takes = {"t1", "t2"}
  Mics = {"m1", "m2"}
  Volumes = {4, 8}
  Cooldown = 2
  LastHour = 3
  MaxMeddling = 1
CHECK_DEADLOCK FALSE
INVARIANTS
  OneSharedWorker
  CancelledDownloadStops
  SpeechIsKept
  ReleaseLetsWordsEnd
  OneStreamPlays
  SecondVersionReturns
  BetterOfTwo
  UpgradeIsKept
  OneBadSessionIsForgiven
  OfferFollowsACheck
  NoticesAreSpaced
