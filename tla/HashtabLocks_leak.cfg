\* Two threads use the whole interface of a table with mutexes.
CONSTANTS
  t1 = t1
  Threads = {t1, t2}
  NoThread = NoThread
  Keys = {0, 1}
  Hash <- MCHash
  Usage <- Unrestricted
  Size0 = 2
  MaxGen = 1

SPECIFICATION Spec
INVARIANTS LocksReleased
CHECK_DEADLOCK FALSE
