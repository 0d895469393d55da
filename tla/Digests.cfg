SPECIFICATION DigestsSpec
CONSTANTS
  SIZE_BITS = 30
  BLOCK_LEN = 2
  CHUNK_LEN = 8
  MAX_DEPTH = 4
  Keys <- AKey
  ContextLengths = {9}
  Jobs <- SomeJobs
  Messages <- SomeMessages
  PermutationCalls <- SomePermutations
  RATE = 2
  CAPACITY = 1
  Elements = {0, 1}
  Permute <- MCPermute
  MaxSize = 5
  MaxOutputSize = 4
INVARIANTS StateIsSponge ReturnsHash DigestIsOfTree StackAwaitsMore StackHoldsSubtrees SubtreesGivePairs KnownAnswers KnownHashes ReadsInside SparseIsDense KnownPermutations
PROPERTIES HashReturns NothingIsLost
CHECK_DEADLOCK FALSE
