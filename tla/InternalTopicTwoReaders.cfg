SPECIFICATION Spec
CONSTANTS
  Readers = {r1, r2}
  Limit = 10
  MaxWrites = 3
PROPERTY ImplementsFifo
CHECK_DEADLOCK FALSE
