\* One gateway, one follower, one object, a wiped store.
CONSTANTS
  n1 = n1  n2 = n2  x1 = x1  k1 = k1
  NoName = NoName
  Nodes = {n1, n2}
  Ingress = {n1}
  Comps = {x1}
  Names = {k1}
  Readers = {}
  Window = 2
  Retries = 2
  MaxLog = 3
  MaxRestarts = 0
  MaxWipes = 1
  MaxRollbacks = 0
SPECIFICATION Spec
INVARIANTS  ReadYourWrites AckedNotMissed FollowerIsReplay HaltOnlyAfterWipe
CHECK_DEADLOCK FALSE
