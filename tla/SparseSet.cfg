SPECIFICATION Spec
CONSTANTS
  GROUP_SIZE = 16
  MAGIC_NUMBER = 100
  FIRST4 = 200
  k1 = k1
  k2 = k2
  k3 = k3
  k4 = k4
  k5 = k5
  Key <- Keys5
  Hash <- Hashes
  HT_MIN_BUCKETS = 4
  HT_DEFAULT_STARTING_BUCKETS = 16
  HT_OCCUPANCY_PCT = 50
  HT_EMPTY_PCT = 20
  LargestPower = 16
  a = a
  b = b
  Set <- TwoSets
  Expected = {0, 1}
  FirstRanges <- NoneOrAll
  Ranges <- SomeRanges
  Requests = {0, 9}
  ResizingParams <- Parameters
  SerializeErased = FALSE
  MaxOps = 4
INVARIANTS SparseTypeOK ErasedCounted SearchesEnd HoldsContents LookupsAgree EraseContinues EqualityIsOfContents
SYMMETRY AnySet
CHECK_DEADLOCK FALSE
