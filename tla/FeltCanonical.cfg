CONSTANTS
  HALF = 16
  Values <- Canonical
SPECIFICATION RegisterSpec
INVARIANTS
  PrimeField
  EqualityIsOfElements
  TemporariesArePowers
CHECK_DEADLOCK FALSE
