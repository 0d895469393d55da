CONSTANTS
  HALF = 16
  Values <- Words
SPECIFICATION RegisterSpec
INVARIANTS
  PrimeField
CHECK_DEADLOCK FALSE
