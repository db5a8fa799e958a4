SPECIFICATION Spec
CONSTANTS
  s1 = s1  s2 = s2
  b1 = b1  b2 = b2  b3 = b3  b4 = b4
  Senders   <- MCSenders
  Addresses <- MCAddresses
  Keys      <- MCKeys
  Payloads  <- MCPayloads
  BufferSize = 3
  HandleSize = 2
  Bytes     <- MCBytes
  MD5       <- MCMD5
  MaxSends   = 2
  Nil = Nil
SYMMETRY MCSymmetry
CHECK_DEADLOCK FALSE
INVARIANT SentAsGiven
