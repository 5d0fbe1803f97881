SPECIFICATION Spec
CONSTANTS
  Dictations = {d1}
  Prewarm = prewarm
  Models = {m1}
  Fallbacks = {TRUE, FALSE}
  None = none
  MaxRetries = 2
  FailLimit = 2
  MaxBoots = 2
  MaxEvents = 2
  Faults = {"backend", "hang"}
  Verdicts = {"passed", "failed", "retry", "inconclusive"}
CHECK_DEADLOCK FALSE
INVARIANTS
  OnlyCheckedModelsOnGpu
PROPERTIES
  GpuTroubleLosesNothing
