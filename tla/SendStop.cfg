CONSTANTS
  Sockets = {s1, s2, s3}
  None = None
  MaxOfT = 6
  MaxQueued = 3
  SyncErrors = FALSE
SYMMETRY Symmetry
SPECIFICATION Spec
INVARIANTS
  StopSurvives
