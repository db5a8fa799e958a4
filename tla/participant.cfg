SPECIFICATION FairSpec
CONSTANTS
  t1 = t1  t2 = t2  d1 = d1  d2 = d2  r1 = r1  w1 = w1  p1 = p1  s1 = s1  a1 = a1
  Topics    <- MCTopics
  Decoders  <- MCDecoders
  Receivers <- MCReceivers
  Writers   <- MCWriters
  Remotes   <- MCRemotes
  Senders   <- MCSenders
  Attempts  <- MCAttempts
  MaxSends  = 1
  NoTopic   = NoTopic
  NoDecoder = NoDecoder
  NoWriter  = NoWriter
  NoSender  = NoSender
  Nil       = Nil
  AllocMayFail = FALSE
  ParticipantRemovalMayFail = TRUE
CHECK_DEADLOCK FALSE
INVARIANTS UsersServed NothingLeft
PROPERTIES ImplementsLifecycle KeepsContract RemovalReturns
