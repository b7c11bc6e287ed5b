\* Both durability modes, a second flusher, a crash or power failure.
CONSTANTS
  c1 = c1
  Others = {c1}
  Modes = {TRUE, FALSE}
  MaxBatch = 2
  CacheCap = 1
  Budget = 2
  MaxIndex = 2
  MaxTerm = 2
  MaxCrashes = 1
SPECIFICATION Spec
INVARIANTS LogInv FlushedSurvives HardStateCoversLog OnlyPurgedMissing CacheIsLog ReadsAreLog NoWaiterForgotten
CHECK_DEADLOCK FALSE
