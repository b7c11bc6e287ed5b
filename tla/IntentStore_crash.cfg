\* Three sequences, rotation every two inserts, failures and two crashes.
CONSTANTS
  x1 = x1
  Seqs = {1, 2, 3}
  Keys = {x1}
  NoKey = NoKey
  IdemKey <- MixedKeys
  Rotate = 2
  GroupCap = 2
  Failures = TRUE
  MaxEpoch = 2
  MaxPuts = 4
  MaxCrashes = 2
SPECIFICATION Spec
INVARIANTS  LiveCoversPending
PROPERTY ImplementsPendingStore
CHECK_DEADLOCK FALSE
