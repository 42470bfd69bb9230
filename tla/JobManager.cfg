\* Two workers, a submitter beside the owner, two jobs, a queue of two slots.
CONSTANTS
  Queues = {q}
  Threads = {1, 2, s1, Main}
  Value = {j1, j2, NULL}
  NThreads = 2
  Main = Main
  Submitters = {s1}
  Jobs = {j1, j2}
  NULL = NULL
  Sz = 2
  NoThread = NoThread
SPECIFICATION Spec
INVARIANTS RunsOnce NoUseAfterCleanup
PROPERTIES FifoSpec WaitReturns
CHECK_DEADLOCK FALSE
