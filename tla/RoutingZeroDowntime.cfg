\* Two deployments and a user who changes settings; nothing fails.
SPECIFICATION Spec
CONSTANTS
  Deployments = {d1, d2}
  None = None
  Requests = {r1}
  Production = TRUE
  UserRollbacks = FALSE
  MaxCrashes = 0
SYMMETRY Symmetry
PROPERTIES StaysServed
CHECK_DEADLOCK FALSE
