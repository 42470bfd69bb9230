\* All slots of a new bag are marked occupied, so a bag never holds more than one element.
CONSTANTS
  Keys = {1, 4, 5}
  Vals = {a, b}
  NULL = NULL
  BagSz = 2
  Byte = 4
  Salts <- MCSalts
  Size = 2
  MaxFill = 85
  MaxN = 4
SPECIFICATION Spec
INVARIANTS ControlBits
CHECK_DEADLOCK FALSE
