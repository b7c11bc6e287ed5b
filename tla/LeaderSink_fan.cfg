\* One stable leader, the leader hop may time out.
CONSTANTS
  n1 = n1  n2 = n2  n3 = n3  k1 = k1  k2 = k2
  Nodes = {n1, n2, n3}
  NoNode = NoNode
  Intents = {1}
  Keys = {k1, k2}
  IdemKey <- OneIntent
  MinAcks = 2
  Window = 4
  TimeEvict = FALSE
  BatchCap = 1
  MaxTerm = 1
  MaxLog = 3
  MaxCrashes = 0
SPECIFICATION FairSpec
PROPERTY AckedIsIncorporated
CHECK_DEADLOCK FALSE
