CONSTANTS
  Literals = {1}
  UserOps = {"CONSTANT", "NEG", "ADD"}
  HashArities = {}
  GeneratorBits = {1, 2}
  GeneratorArg <- AnyArg
  MaxOps = 4
  MaxInputs = 1
  MaxGenerators = 3
  MaxStrayInputs = 1
  MaxAssertions = 1
  MaxOutputs = 1
  MaxBuilds = 1
SPECIFICATION SmallSpec
INVARIANTS
  TypeOK
  IdsAreSlots
  FirstBuildExecutable
  PostOrder
  NothingMissingNothingDead
  GeneratorSlotsInOrder
  GeneratorsInTime
CHECK_DEADLOCK FALSE
