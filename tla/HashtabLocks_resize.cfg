\* Two threads insert and look up in a table with mutexes that grows.
CONSTANTS
  t1 = t1
  Threads = {t1, t2}
  NoThread = NoThread
  Keys = {0, 1}
  Hash <- MCHash
  Usage <- Growing
  Size0 = 2
  MaxGen = 1

SPECIFICATION Spec
INVARIANTS NoFreedBucket
CHECK_DEADLOCK FALSE
