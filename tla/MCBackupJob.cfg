SPECIFICATION FairSpec
CONSTANTS
  NoRun = NoRun
  MaxRuns = 2
  MaxStaged = 1
  MaxFaults = 2
  MaxLost = 0
  MaxCrashes = 1
CHECK_DEADLOCK FALSE
INVARIANT RowHasItsObjects
INVARIANT SucceededIsBackedUp
INVARIANT PlainFailureLeftNothing
PROPERTY ScratchIsReclaimed
