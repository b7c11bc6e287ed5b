\* One node, its restart, a failed NamespaceCreate and its reads.
CONSTANTS
  n1 = n1  n2 = n2  x1 = x1  k1 = k1
  NoName = NoName
  Nodes = {n1}
  Ingress = {n1}
  Comps = {x1}
  Names = {k1}
  Readers = {n1}
  Window = 2
  Retries = 2
  MaxLog = 4
  MaxRestarts = 1
  MaxWipes = 0
  MaxRollbacks = 1
SPECIFICATION FairSpec
  
PROPERTY EveryDeltaIsPassed
CHECK_DEADLOCK FALSE
