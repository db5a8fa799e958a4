SPECIFICATION Spec
CONSTANTS
  t1 = t1  t2 = t2
  d1 = d1  d2 = d2  d3 = d3
  r1 = r1  r2 = r2
  Topics    <- MCTopics
  Decoders  <- MCDecoders
  Receivers <- MCReceivers
  NoTopic   = NoTopic
  NoDecoder = NoDecoder
  RemovalMayFail = FALSE
CHECK_DEADLOCK FALSE
INVARIANT NothingLeftAfterOrderlyStop

