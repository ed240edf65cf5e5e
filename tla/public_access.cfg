SPECIFICATION FairSpec
CONSTANTS
  Mutation <- BothMutations
  MaxAttempts = 2
  MaxGeneration = 3
  MaxRevision = 1
  None = None
CHECK_DEADLOCK FALSE
INVARIANTS StatusIsTrue RuntimesAreOwned
PROPERTIES CancelledStartStaysDown CallsAreAnswered
