SPECIFICATION FairSpec
CONSTANTS
  a1 = a1  a2 = a2  a3 = a3
  e1 = e1  e2 = e2
  r1 = r1  r2 = r2
  Attempts  <- MCAttempts
  Endpoints <- MCEndpoints
  Threads   <- MCThreads
  Nil = Nil
  CreateAgain = TRUE
  DropEarly = TRUE
  RemovalMayFail = TRUE
CHECK_DEADLOCK FALSE
INVARIANTS TypeOK NothingDangles OnlyFailedLeft
PROPERTIES LostOnlyByCreating KeepsContract RemovalEnds
