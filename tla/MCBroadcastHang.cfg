\* The default pipeline depth, one buffer, and no failing call.
CONSTANTS
  Ranks <- TwoRanks
  Files <- DuoFiles
  Size <- DuoSize
  Plan <- DuoPlan
  Has <- DuoHas
  Depth = 1
  NumWriters = 2
  Chunk = 2
  MAX_SUB_BCAST = 2
  ALIGN = 1
  Direct = FALSE
  MaxFaults = 0
SPECIFICATION Spec
PROPERTIES
  Termination
CHECK_DEADLOCK FALSE
