\* One storage and no fault: the first backup of a SQLite file.
SPECIFICATION StSpec
CONSTANTS
  StSlots = {s1, s2}
  StKeep = 2
  StMaxFaults = 0
  StMaxRequests = 3
PROPERTIES StSqliteSupported
CHECK_DEADLOCK FALSE
