CONSTANTS
  Clients = {c1, c2}
  MaxSent = 2
  MaxStarts = 1
  Buffer = 8
  Numbers = {3}
  Flags = {1, 3}
SYMMETRY Symmetry
SPECIFICATION Spec
PROPERTIES
  EverySignalRings
