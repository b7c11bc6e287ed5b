\* Two callers, a chunk of two extents, a fragment of one, a failure, a crash; two
\* writers of the chunk fill the device.
CONSTANTS
  c1 = c1
  f1 = f1
  Threads = {t1, t2}
  Chunks = {c1}
  Fragments = {f1}
  Size <- Sizes
  Total = 4
  MaxExtent = 1
  Modes = {TRUE, FALSE}
  MaxOps = 4
  MaxFails = 1
  MaxCrashes = 1
SYMMETRY Perms
SPECIFICATION Spec
INVARIANTS ChunkInv Protected ReadBack QuiescentDurable SpaceAccounted FreeListExact
CHECK_DEADLOCK FALSE
