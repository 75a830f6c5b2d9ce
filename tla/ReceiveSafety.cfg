CONSTANTS
  Clients = {c1, c2}
  MaxSent = 2
  MaxStarts = 2
  Buffer = 8
  Numbers = {3}
  Flags = {1, 3}
SYMMETRY Symmetry
SPECIFICATION Spec
INVARIANTS
  TypeOK
  FatalOnlyWithoutServer
  LoopOutlivesHandles
PROPERTIES
  CallbackConsumesSignal
  QuietAfterStop
  ImplementsChannel
