SPECIFICATION Spec
CONSTANTS
  Keys <- MCKeys
  Kind <- MCKind
  Escape = "esc"
  NoKey = "none"
  ToggleKey = "x"
  Choices <- MCChoices
  Default <- CtrlWindows
  Rebinders = {rebind1}
  Recorders = {TRUE, FALSE}
  MaxHeld = 3
  Monitor = monitor
  Free = free
INVARIANTS
  NoGhostKeys
  NothingStuckInApps
  RebindSettles
PROPERTIES
  EdgesFollowKeys
