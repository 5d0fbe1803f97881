SPECIFICATION FairSpec
CONSTANTS
  MaxSession = 3
  MaxInputs = 3
  Hotkey = hotkey
  Ui = {ui1}
  Timers = {timer1}
  Free = free
  Ops = {"start", "retry", "fixture", "undo", "check", "escape"}
  Faults = {"missingModel", "micError", "noSpeech", "cap", "engine", "decodeError", "insertError"}
  Spoken = {"textEnter", "enter"}
PROPERTIES
  FailedRetryKeepsItsRecording
  EveryDictationEnds
