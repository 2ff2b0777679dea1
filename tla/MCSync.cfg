\* Two runs in either direction with any method, one failure and one edit or removal at any time.
CONSTANTS
  Files <- TwoFiles
  Large = {"large"}
  Directions <- BothDirections
  Methods <- AllMethods
  Second = 2
  MaxVersion = 2
  MaxTime = 2
  MaxRuns = 2
  MaxFaults = 1
  MaxChanges = 1
SPECIFICATION Spec
INVARIANT InSyncAfterRun
PROPERTIES
  DeletesOnlyExtras
  RerunIsNoop
