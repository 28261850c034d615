SPECIFICATION FairSpec
CONSTANTS
  Cases <- FollowedCases
  Batch = 2
INVARIANTS InOrder LockStep
PROPERTIES Completed
