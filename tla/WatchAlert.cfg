CONSTANTS
  Searches = {demo, other}
  Bare = {demo}
  Wrapped = TRUE
SPECIFICATION Spec
INVARIANTS
  AlertIsSent
