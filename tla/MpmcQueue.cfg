\* Two producers and two consumers on two slots, blocking and non-blocking
\* calls mixed; more calls than slots, so that every slot is used again.
CONSTANTS
  Producers = {p1, p2}
  Consumers = {c1, c2}
  Size = 2
  Modes = {"try", "wait"}
  MaxOps = 2

SPECIFICATION Spec
INVARIANTS SlotExclusive IndInv
PROPERTIES FifoSpec HonestRefusal TryReturns AllComplete
CHECK_DEADLOCK FALSE
