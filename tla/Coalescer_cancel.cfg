\* Four submitters, two of which may be dropped at any await.
CONSTANTS
  Tasks = {t1, t2, t3, t4}
  CapMax = 2
  MaxCancels = 2
SPECIFICATION Spec
INVARIANTS  NobodyForgotten OneTimer
PROPERTY AnsweredUnlessOrphaned
CHECK_DEADLOCK FALSE
