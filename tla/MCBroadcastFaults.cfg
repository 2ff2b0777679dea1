\* One failing call anywhere, two writers, buffered writes.
\* The stage may hang (see MCBroadcastHang.cfg), so deadlock is not checked.
CONSTANTS
  Ranks <- TwoRanks
  Files <- DuoFiles
  Size <- DuoSize
  Plan <- DuoPlan
  Has <- DuoHas
  Depth = 2
  NumWriters = 2
  Chunk = 2
  MAX_SUB_BCAST = 2
  ALIGN = 1
  Direct = FALSE
  MaxFaults = 1
SPECIFICATION Spec
INVARIANTS
  OkMeansDurable
PROPERTIES
  ImplementsReplication
  EndsUnlessStarved
CHECK_DEADLOCK FALSE
