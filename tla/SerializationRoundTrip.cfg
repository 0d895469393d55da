CONSTANTS
  BYTE = 10
  Objects = {1, 2}
  Circuits <- MCCircuits
SPECIFICATION SerializationSpec
INVARIANTS
  CursorsAgree
  SizeIsExact
PROPERTY ImplementsStore
CHECK_DEADLOCK FALSE
