CONSTANTS
  Literals = {1}
  UserOps = {"CONSTANT", "ADD"}
  HashArities = {}
  GeneratorBits = {}
  GeneratorArg <- AnyArg
  MaxOps = 3
  MaxInputs = 1
  MaxGenerators = 0
  MaxStrayInputs = 0
  MaxAssertions = 1
  MaxOutputs = 1
  MaxBuilds = 2
SPECIFICATION FinalizerSpec
INVARIANTS
  TargetIdNeverSetTwice
PROPERTIES
  IdsArePermanent
  BuildReturns
CHECK_DEADLOCK FALSE
