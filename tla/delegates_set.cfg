SPECIFICATION Spec
CONSTANTS
  topic = topic
  in = in  out1 = out1  out2 = out2
  r1 = r1  r2 = r2
  d1 = d1
  Topics    <- MCTopics
  Remotes   <- MCRemotes
  Offer     <- MCOffer
  Threads   <- MCThreads
  Delegates <- MCDelegates
  Nil = Nil
  MaxUntold = 0
INVARIANT NeverUndefined
