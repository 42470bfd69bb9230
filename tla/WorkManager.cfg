\* Two workers with queues of two slots; one thread submits two pieces of work
\* and another a third: two serialised pieces wait together in a queue that the
\* round robin may choose for the other thread, before, between or behind them.
CONSTANTS
  Queues = {0, 1}
  Threads = {0, 1, s1, Main}
  Value = {j1, j2, j3, NULL}
  NThreads = 2
  Main = Main
  Submitters = {s1}
  Jobs = {j1, j2, j3}
  NULL = NULL
  MainJobs = {j1, j2}
  Named = {j1, j2}
  Fails = {j1, j3}
  Sz = 2
  NoThread = NoThread
SPECIFICATION Spec
INVARIANTS SerialisedInOrder EvenDeal RunsOnce
PROPERTIES WaitReturns
CHECK_DEADLOCK FALSE
