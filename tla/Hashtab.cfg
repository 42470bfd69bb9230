\* Four keys of which two collide, two values, two to four buckets;
\* the allocation of a node or of a larger table may fail.
CONSTANTS
  Keys = {0, 1, 2, 4}
  Vals = {a, b}
  RawHash <- KeyHash
  Random = 5
  LogSize = 1
  FillMax = 60
  AllocFails = {"node", "table"}

SPECIFICATION Spec
PROPERTIES ErrorChangesNothing
CHECK_DEADLOCK FALSE
