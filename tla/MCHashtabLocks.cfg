\* One thread without locks and every operation; two threads on a table with
\* mutexes: everything, growth and failing allocations included; all but sorted
\* iterators, without errors and growth; insertions, lookups and walks.
CONSTANTS
  t1 = t1
  Threads = {t1, t2}
  NoThread = NoThread
  Keys = {0, 1, 2, 3}
  Hash <- MCHash
  Usage <- AllUsages
  Size0 = 2
  MaxGen = 1

SPECIFICATION Spec
INVARIANTS  NothingLost
PROPERTIES CallsReturn
CHECK_DEADLOCK FALSE
