\* --verify after a failed run, nothing replaced in the container.
CONSTANTS
  NumRanks = 2
  Files <- SixBlobs
  Commented <- OneComment
  Leftovers <- AOrBOrD
  NumShards <- TwoShards
  Owner <- Dealt
  DownloadRanks = 2
  Modes = {"none", "size"}
  MaxRuns = 2
  MaxFaults = 1
  LastVersion <- NeverReplaced
SPECIFICATION Spec
INVARIANTS
  VerifiedAgainstBlob
