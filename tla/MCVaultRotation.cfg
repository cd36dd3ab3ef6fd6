SPECIFICATION Spec
CONSTANTS
  Servers = {s1, s2}
  Keks = {right, wrong}
  NoKek = NoKek
  MaxKeys = 3
  MaxArtifacts = 1
  MaxSelf = 1
  MaxTroubles = 1
CHECK_DEADLOCK FALSE
INVARIANT OneActiveKey
