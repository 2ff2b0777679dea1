\* Both calls, over three kinds of container, without a failure.
CONSTANTS
  Blobs <- TwoFiles
  Callers <- TwoFileCallers
  NumBlocks <- BlocksOfEach
  Options <- BothCalls
  Earlier <- Before
  concurrency = 2
  max_retries = 1
  MaxFaults = 0
SPECIFICATION Spec
INVARIANT SkipsOnlyWhenAsked
