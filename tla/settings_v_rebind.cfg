SPECIFICATION SettingsSpec
CONSTANTS
  Commands = {c1, c2}
  Writers = {"copy", "rebind", "model"}
  Free = free
  MaxWrites = 3
CHECK_DEADLOCK FALSE
INVARIANTS
  RebindSticks
