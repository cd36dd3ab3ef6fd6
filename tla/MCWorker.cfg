SPECIFICATION Spec
CONSTANTS
  Nobody = Nobody
  Stale = Stale
  NoJob = NoJob
  Replicas = {r1, r2}
  MaxJobs = 2
  MaxCrashes = 1
  MaxFaults = 1
  MaxStops = 1
SYMMETRY Symmetry
INVARIANT ShutdownBurnsAtMostOne
PROPERTY RecoverySparesLiveJobs
PROPERTY SweepSparesOtherReplicas
PROPERTY ImplementsLedger
