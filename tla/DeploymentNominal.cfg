\* Two deployments on two worker slots, in a run without cancels, faults or crashes.
SPECIFICATION Spec
CONSTANTS
  Deployments = {d1, d2}
  None = None
  Slots = {w1, w2}
  Threshold = 2
  MaxTries = 3
  MaxCrashes = 0
  MaxFails = 1
  UserCancels = FALSE
  DockerFaults = FALSE
  Shutdowns = FALSE
SYMMETRY Symmetry
INVARIANTS FailedIsStopped
PROPERTIES LifecycleOrder
CHECK_DEADLOCK FALSE
