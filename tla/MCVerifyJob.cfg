SPECIFICATION FairSpec
CONSTANTS
  NoRun = NoRun
  MaxRuns = 2
  MaxFaults = 1
  MaxCrashes = 1
  MaxKills = 0
  MaxDamage = 2
CHECK_DEADLOCK FALSE
INVARIANT CondemnedOnEvidence
PROPERTY GreenReadTheBytes
PROPERTY SandboxGoes
