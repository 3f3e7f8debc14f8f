\* One deployment that its user cancels; nothing fails.
SPECIFICATION FairSpec
CONSTANTS
  Deployments = {d1}
  None = None
  Slots = {w1}
  Threshold = 2
  MaxTries = 3
  MaxCrashes = 0
  MaxFails = 1
  UserCancels = TRUE
  DockerFaults = FALSE
  Shutdowns = FALSE
PROPERTIES CanceledIsRemoved
CHECK_DEADLOCK FALSE
