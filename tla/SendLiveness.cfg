CONSTANTS
  Sockets = {s1, s2}
  None = None
  MaxOfT = 2
  MaxQueued = 2
  SyncErrors = FALSE
SPECIFICATION FairSpec
INVARIANTS
  ConnectingIsInFlight
PROPERTIES
  DeadPeerNoticed
  KeepsConnecting
