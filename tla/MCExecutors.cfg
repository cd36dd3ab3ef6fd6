SPECIFICATION ExecutorsSpec
CONSTANTS
  Databases = {da, db}
  System = System
  MaxVersion = 2
  MaxEvents = 1
  Restores = {j1, j2}
  NoRestore = NoRestore
  StagedSlots = 3
  MaxMishaps = 2
  MaxDaemonFaults = 2
CHECK_DEADLOCK FALSE
INVARIANT FullRestoreSawTheData
INVARIANT TlsIsNotDropped
INVARIANT ScratchIsGivenBack
INVARIANT NothingIsLeftRunning
PROPERTY DumpsHoldTheSelection
PROPERTY RestoresStayConfined
PROPERTY OneInstantOrSaid
PROPERTY LedgerTellsTheRestore
PROPERTY OutcomeIsEarned
PROPERTY UploadUnblocks
