\* Two deployments, a user who also rolls back, and a crash of the worker.
SPECIFICATION Spec
CONSTANTS
  Deployments = {d1, d2}
  None = None
  Requests = {r1}
  Production = TRUE
  UserRollbacks = TRUE
  MaxCrashes = 1
SYMMETRY Symmetry
INVARIANTS TypeOK PreviousDiffers SerialRewritesSettle
CHECK_DEADLOCK FALSE
