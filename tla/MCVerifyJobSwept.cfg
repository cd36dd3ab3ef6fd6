SPECIFICATION Spec
CONSTANTS
  NoRun = NoRun
  MaxRuns = 1
  MaxFaults = 0
  MaxCrashes = 0
  MaxKills = 1
  MaxDamage = 0
CHECK_DEADLOCK FALSE
INVARIANT CondemnedOnEvidence
