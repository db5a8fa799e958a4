SPECIFICATION Spec
CONSTANTS
  t1 = t1  t2 = t2
  w1 = w1  w2 = w2
  p1 = p1  p2 = p2
  s1 = s1  s2 = s2
  Topics    <- MCTopics
  Writers   <- MCWriters
  Remotes   <- MCRemotes
  Senders   <- MCSenders
  MaxSends  = 4
  NoTopic   = NoTopic
  NoWriter  = NoWriter
  NoSender  = NoSender
  AllocMayFail   = TRUE
  RemovalMayFail = TRUE
SYMMETRY MCSymmetry
CHECK_DEADLOCK FALSE
INVARIANTS TypeOK MemorySafe IdleBooks CountExact
           HistoryBounded LatestKept OnlyOthersCleaned
PROPERTIES KeepsContract CallsAdvance
