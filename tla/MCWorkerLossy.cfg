SPECIFICATION FairSpecLossy
CONSTANTS
  Nobody = Nobody
  Stale = Stale
  NoJob = NoJob
  Replicas = {r1, r2}
  MaxJobs = 1
  MaxCrashes = 2
  MaxFaults = 0
  MaxStops = 0
INVARIANT NoDoubleRun
PROPERTY PendingIsClaimed
PROPERTY AbandonedContainersSwept
