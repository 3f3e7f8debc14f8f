\* Three deployments in production and a user who changes settings and domains.
SPECIFICATION Spec
CONSTANTS
  Deployments = {d1, d2, d3}
  None = None
  Requests = {r1}
  Production = TRUE
  UserRollbacks = FALSE
  MaxCrashes = 0
SYMMETRY Symmetry
INVARIANTS ReferencedKept AliasesTogether
PROPERTIES ServedUnlessOverlap
CHECK_DEADLOCK FALSE
