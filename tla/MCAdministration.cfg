SPECIFICATION AdministrationSpec
CONSTANTS
  Users = {ana, bob}
  Requests = {r1, r2}
  Boot = Boot
  MaxTokens = 2
  MaxTroubles = 1
  Targets = {t1}
  Destinations = {d1}
  Policies = {p1}
  Hosts = {h1, h2}
  Clients = {c1, c2}
  Nothing = Nothing
  MaxJobs = 1
  MaxChanges = 2
  Rows = {w1}
  Callers = {k1, k2}
  Lookers = {k2}
  Names <- MCNames
  Answers <- MCAnswers
  SelfNames <- MCSelfNames
  Places <- MCPlaces
  SelfAddresses = {}
  Configs <- MCConfigs
  Ttl = 1
  MaxRedirects = 1
  MaxEvents = 2
CHECK_DEADLOCK FALSE
INVARIANT SharedPasswordsAreRotated
INVARIANT PoliciesStayRunnable
PROPERTY BootstrapFinishes
PROPERTY BackupsAreNotForgotten
PROPERTY EveryDialIsGuarded
