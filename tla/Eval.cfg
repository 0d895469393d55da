CONSTANTS
  HALF = 4
  InputWords = {2, 5}
  Literals = {12}
  UserOps = {"CONSTANT", "NEG", "ADD", "SUB", "MUL", "EQ", "LEQ"}
  HashArities = {1, 2}
  GeneratorBits = {1, 2}
  GeneratorArg <- RawArg
  Poseidon <- SumHash
  MaxOps = 11
  MaxInputs = 1
  MaxGenerators = 2
  MaxStrayInputs = 0
  MaxAssertions = 0
  MaxOutputs = 1
  MaxBuilds = 1
SPECIFICATION SmallSpec
INVARIANTS
  EvaluatorTypeOK
  SlotsHoldMeaning
PROPERTIES
  ImplementsMeaning
CHECK_DEADLOCK FALSE
