\* Two compositions of one content, no fault at all.
CONSTANTS
  k1 = k1
  Nodes = {n1, n2, n3}
  Replicas = {n1}
  Comps = {x, y}
  Chunks = {k1}
  Content <- Same
  Need = 2
  ParkCap = 1
  MaxFaults = 0
SPECIFICATION Spec
INVARIANT SharedNotTombstoned
CHECK_DEADLOCK FALSE
