\* Two runs over the same disks, one failure anywhere, a blob replaced at any time.
CONSTANTS
  NumRanks = 2
  Files <- SixBlobs
  Commented <- OneComment
  Leftovers <- AOrBOrD
  NumShards <- TwoShards
  Owner <- Dealt
  DownloadRanks = 2
  Modes = {"none", "size", "filelist"}
  MaxRuns = 2
  MaxFaults = 1
  LastVersion <- ReplacedOnce
SPECIFICATION Spec
INVARIANTS
  DownloadsPrecedeBroadcast
  TransfersComplete
  NoSpuriousAbort
  VerifiedListShared
PROPERTIES
  PresentFilesKept
  RunsEnd
