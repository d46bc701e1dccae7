SPECIFICATION Spec
CONSTANTS
  Readers = {r1, r2, r3}
  Limit = 2
  MaxWrites = 6
INVARIANT TypeOK
PROPERTIES ReadInOrder NoEarlyLoss
CHECK_DEADLOCK FALSE
