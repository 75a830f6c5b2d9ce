CONSTANTS
  Clients = {c1, c2}
  MaxSent = 1
  MaxStarts = 2
  Buffer = 2
  Numbers = {3}
  Flags = {3}
SPECIFICATION FairSpec
PROPERTIES
  Served
  Drained
  StopReturns
  ClosedAfterLastWord
