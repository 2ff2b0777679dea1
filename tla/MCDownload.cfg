\* Both calls with all their options, one failing call, each blob replaced once at any time.
CONSTANTS
  Files <- TwoFiles
  Lengths <- TwoVersions
  MyRanges <- Parts
  HasMd5 = {"a"}
  Options <- Calls
  concurrency = 2
  parallel_files = 2
  ALIGN = 2
  MaxFaults = 1
SPECIFICATION Spec
INVARIANTS
  PermitsConserved
  SucceededIsComplete
  CheckedIsListed
  NoSpuriousFailure
PROPERTIES
  QuietWhenReturned
  CallEnds
