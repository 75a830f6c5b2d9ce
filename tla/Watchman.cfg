CONSTANTS
  Searches = {demo, other}
  Bare = {demo}
  Wrapped = TRUE
SPECIFICATION FairSpec
INVARIANTS
  TypeOK
  OneInstance
  AlarmIsTrue
PROPERTIES
  GoneIsRestarted
