SPECIFICATION Spec
CONSTANTS
  c1 = c1  c2 = c2  c3 = c3
  Callers    <- MCCallers
  MaxCalls   = 4
  MaxEntries = 3
SYMMETRY MCSymmetry
CHECK_DEADLOCK FALSE
INVARIANTS TypeOK DoubledOnlyByOverlap LevelSet
PROPERTY LostOnlyBetween
