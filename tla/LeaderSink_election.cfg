\* Three voters, two copies per acknowledgement, two elections.
CONSTANTS
  n1 = n1  n2 = n2  n3 = n3  k1 = k1  k2 = k2
  Nodes = {n1, n2, n3}
  NoNode = NoNode
  Intents = {1}
  Keys = {k1, k2}
  IdemKey <- OneIntent
  MinAcks = 2
  Window = 4
  TimeEvict = FALSE
  BatchCap = 2
  MaxTerm = 2
  MaxLog = 1
  MaxCrashes = 0
SYMMETRY NodeSymmetry
SPECIFICATION Spec
INVARIANTS AckedDurable RecoveredHoldsAcked RecoveryInv
CHECK_DEADLOCK FALSE
