\* Two deployments and a user who rolls back; nothing fails.
SPECIFICATION Spec
CONSTANTS
  Deployments = {d1, d2}
  None = None
  Requests = {r1}
  Production = TRUE
  UserRollbacks = TRUE
  MaxCrashes = 0
SYMMETRY Symmetry
INVARIANTS DomainFollows
CHECK_DEADLOCK FALSE
