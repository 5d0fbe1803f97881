SPECIFICATION Spec
CONSTANTS
  MaxSession = 4
  MaxInputs = 4
  Hotkey = hotkey
  Ui = {ui1}
  Timers = {timer1}
  Free = free
  Ops = {"start", "cancel", "retry"}
  Faults = {"cap", "decodeError"}
  Spoken = {"text"}
PROPERTIES
  FailedRetryKeepsItsRecording
