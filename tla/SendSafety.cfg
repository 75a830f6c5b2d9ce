CONSTANTS
  Sockets = {s1, s2, s3}
  None = None
  MaxOfT = 6
  MaxQueued = 3
  SyncErrors = TRUE
SYMMETRY Symmetry
SPECIFICATION Spec
INVARIANTS
  TypeOK
  SocketsRecycled
  CallbackHasTimer
  ConnectedIsBeating
  HeartbeatsConsecutive
  LoopOutlivesWorker
PROPERTIES
  RestartsAfterLast
  LossForcesRedial
  ImplementsFeed
