\* Two producers and two consumers on a ring of four slots (three usable),
\* every combination of the mp/sp and mc/sc functions, indices that wrap.
CONSTANTS
  Producers = {p1, p2}
  Consumers = {c1, c2}
  Count = 3
  IndexMod = 16
  Start = 14
  Counts = {2, 3}
  MaxOps = 2
  MaxObjects = 6

SPECIFICATION Spec
INVARIANTS SlotsApart SomeoneCanPublish
PROPERTIES BatchSpec HonestRefusal
SYMMETRY Sym
CHECK_DEADLOCK FALSE
