SPECIFICATION Spec
CONSTANTS
  k1 = k1  k2 = k2
  v1 = v1  v2 = v2
  discovered = discovered  removed = removed
  Keys   <- MCKeys
  Values <- MCValues
  Status <- MCStatus
  Discovered = discovered
  MaxProperties = 4
  Null = Null
CHECK_DEADLOCK FALSE
INVARIANTS TypeOK ReadsInside DictionaryFaithful FreeLoopExact
