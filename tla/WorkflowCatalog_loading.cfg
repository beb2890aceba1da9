SPECIFICATION Spec
CONSTANTS
  Names = {1, 2, 3, 4, 5}
  NoStep = 0
  MaxSteps = 4
  MaxParallelism = 2
  Documents <- MCDocuments
CHECK_DEADLOCK FALSE
INVARIANTS TypeOK SearchFollowsGraph VerdictIsRight
