\* Both calls, over three kinds of container, with three failures or foreign writes.
CONSTANTS
  Blobs <- TwoFiles
  Callers <- TwoFileCallers
  NumBlocks <- BlocksOfEach
  Options <- BothCalls
  Earlier <- Before
  concurrency = 2
  max_retries = 1
  MaxFaults = 3
SPECIFICATION Spec
INVARIANTS
  PermitsConserved
PROPERTIES
  ImplementsStore
  UploadEnds
