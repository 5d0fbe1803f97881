SPECIFICATION Spec
CONSTANTS
  None = None
  Kinds <- AllKinds
  Requests = {r1, r2}
  Controls = {c1}
  Size = 2
  Budget = 1
  MaxCalls = 4
  MaxBoots = 2
INVARIANTS
  PlacedModelsAreWhole
  NoFrozenBar
SYMMETRY Symmetry
CHECK_DEADLOCK FALSE
