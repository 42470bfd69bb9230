CONSTANTS
  OnceThreads = {t1, t2, t3}
  BarThreads = {t1, t2, t3} BarNone = none BarCount = 2 BarMax = 2
  RwThreads = {t1, t2} RwMax = 3 RwClock = 2
  Kids = {t1, t2} CancelMax = 2
  KeyThreads = {t1} KeysMax = 8 KeyOps = 6
  MxThreads = {t1, t2} MxNone = none MxMax = 4 MxClock = 2
  Threads = {t1, t2, t3} NoThread = none Initial = 0 MaxOps = 4
SPECIFICATION Spec
INVARIANTS Synchronised ThreadsOwn
PROPERTIES WinCallsReturn SemaphoreSpec
CHECK_DEADLOCK FALSE
