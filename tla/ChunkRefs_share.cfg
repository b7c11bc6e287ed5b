\* Two compositions of one content on three nodes.
CONSTANTS
  k1 = k1
  Nodes = {n1, n2, n3}
  Replicas = {n1, n2}
  Comps = {x, y}
  Chunks = {k1}
  Content <- Same
  Need = 2
  ParkCap = 1
  MaxFaults = 1
SYMMETRY Perms
SPECIFICATION Spec
INVARIANTS RefsInv  NoEarlyTombstone DeleteIsNotLost
CHECK_DEADLOCK FALSE
