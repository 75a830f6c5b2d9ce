SPECIFICATION FairSpec
INVARIANTS
  TypeOK
  LoopIsSettled
  DeathHasCause
PROPERTIES
  Ends
