CONSTANTS
  HALF = 2
  InputWords = {0, 1, 2}
  Literals = {}
  UserOps = {"NEG"}
  HashArities = {}
  GeneratorBits = {1}
  GeneratorArg <- ComputedArg
  Poseidon <- SumHash
  MaxOps = 2
  MaxInputs = 1
  MaxGenerators = 3
  MaxStrayInputs = 0
  MaxAssertions = 0
  MaxOutputs = 0
  MaxBuilds = 1
SPECIFICATION EvaluatorSpec
INVARIANTS
  BitsAreCorrect
CHECK_DEADLOCK FALSE
