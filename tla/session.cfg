SPECIFICATION Spec
CONSTANTS
  MaxSession = 4
  MaxInputs = 4
  Hotkey = hotkey
  Ui = {ui1}
  Timers = {timer1, timer2}
  Free = free
  Ops = {"start", "stop", "cancel", "press", "release", "toggle", "escape"}
  Faults = {"cap", "timeout"}
  Spoken = {"textEnter"}
SYMMETRY Symmetry
INVARIANTS
  ReplacedRunsAreCancelled
  CancelledNeverDelivers
  RestIsClean
PROPERTIES
  StaleRunsLeaveTheSessionAlone
