SPECIFICATION FairSpec
CONSTANTS
  p = p
  q = q
  mail = mail
  hook = hook
  Policies = {p, q}
  Broken = {q}
  Interval <- MCInterval
  Channels = {mail, hook}
  Gap = 2
  DrainLimit = 2
  MaxWindows = 1
  MaxTroubles = 1
INVARIANT OpenWasTold
PROPERTY WindowsAreDispatched
PROPERTY OutboxIsDelivered
PROPERTY StalledVerificationIsTold
