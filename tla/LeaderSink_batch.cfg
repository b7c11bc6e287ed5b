\* Two writes that may share a Raft entry, a crash anywhere, two elections.
CONSTANTS
  n1 = n1  n2 = n2  n3 = n3  k1 = k1  k2 = k2
  Nodes = {n1, n2}
  NoNode = NoNode
  Intents = {1, 2}
  Keys = {k1, k2}
  IdemKey <- TwoKeys
  MinAcks = 1
  Window = 4
  TimeEvict = FALSE
  BatchCap = 2
  MaxTerm = 2
  MaxLog = 3
  MaxCrashes = 1
SPECIFICATION Spec
  
PROPERTY CopiesLeaveOnlyCommitted
SYMMETRY NodeSymmetry
CHECK_DEADLOCK FALSE
