\* One deployment under fairness, with Docker faults and a crash of the worker.
SPECIFICATION FairSpec
CONSTANTS
  Deployments = {d1}
  None = None
  Slots = {w1}
  Threshold = 2
  MaxTries = 3
  MaxCrashes = 1
  MaxFails = 1
  UserCancels = FALSE
  DockerFaults = TRUE
  Shutdowns = FALSE
INVARIANTS SomeoneResponsible
PROPERTIES EventuallyConcludes
CHECK_DEADLOCK FALSE
