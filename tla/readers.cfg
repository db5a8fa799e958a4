SPECIFICATION FairSpec
CONSTANTS
  t1 = t1  t2 = t2
  d1 = d1  d2 = d2  d3 = d3
  r1 = r1  r2 = r2
  Topics    <- MCTopics
  Decoders  <- MCDecoders
  Receivers <- MCReceivers
  NoTopic   = NoTopic
  NoDecoder = NoDecoder
  RemovalMayFail = TRUE
CHECK_DEADLOCK FALSE
INVARIANTS TypeOK MemorySafe Books
PROPERTIES KeepsContract CallsAdvance EveryCallReturns
