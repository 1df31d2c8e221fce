SPECIFICATION ProcessSpec
CONSTANTS
  Conns = {k1, k2}
  Environments <- MCEnvironments
  Files <- MCFiles
INVARIANTS TypeOK CleanExitIsClean CutOffIsReported ServesAsConfigured
PROPERTIES StopsWhenAsked
CHECK_DEADLOCK FALSE
