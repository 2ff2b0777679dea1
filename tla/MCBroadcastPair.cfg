\* Two ranks, O_DIRECT, chunks of two sub-broadcasts, two buffers: safety.
\* The stage may hang (see MCBroadcastHang.cfg), so deadlock is not checked.
CONSTANTS
  Ranks <- TwoRanks
  Files <- PairFiles
  Size <- PairSize
  Plan <- PairPlan
  Has <- PairHas
  Depth = 2
  NumWriters = 1
  Chunk = 2
  MAX_SUB_BCAST = 1
  ALIGN = 2
  Direct = TRUE
  MaxFaults = 0
SPECIFICATION Spec
INVARIANTS
  TypeOK
  BuffersAccounted
  CollectivesMatch
  WireFollowsPlan
  QueuedDataIntact
  WritesReachOpenFile
  OwnedRangesIntact
  ReplicaComplete
CHECK_DEADLOCK FALSE
