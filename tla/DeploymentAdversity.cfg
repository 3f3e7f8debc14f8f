\* One deployment that meets a cancel, Docker faults and a worker that dies or stops.
SPECIFICATION Spec
CONSTANTS
  Deployments = {d1}
  None = None
  Slots = {w1}
  Threshold = 2
  MaxTries = 3
  MaxCrashes = 1
  MaxFails = 1
  UserCancels = TRUE
  DockerFaults = TRUE
  Shutdowns = TRUE
INVARIANTS TypeOK AnsweredFirst
PROPERTIES CanceledLostOnlyToStaleReader
CHECK_DEADLOCK FALSE
