\* Ten command lines, one failing call, one change of the container at any time.
CONSTANTS
  bytes_per_sec = 2
  RATE_UNIT_BYTES = 1
  PERMIT_LIMIT = 1000
  TicksPerSecond = 4
  Delays = {1, 4}
  Blobs <- FourBlobs
  Matching = {1, 2, 4}
  Sizes = {0, 3}
  PageSize = 2
  block_size = 4
  Leftovers <- OlderFile
  concurrency = 1
  Setups <- CommandLines
  Containers <- AtFirst
  AllWorkers <- TwoByTwo
  MaxFaults = 1
  MaxChanges = 1
  Changing <- Unsteady
SPECIFICATION Spec
INVARIANTS
  SharesPartition
  SuccessIsComplete
  ReportsAddUp
  SingleBlobWhole
  BurstBounded
PROPERTIES
  CopyEnds
