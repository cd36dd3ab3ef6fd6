SPECIFICATION Spec
CONSTANTS
  Times <- MCTimes
  Rules <- MCRules
  Calendar <- MCCalendar
  Policies <- MCPolicies
  Allowed <- MCAllowed
  MaxTotal = 1
CHECK_DEADLOCK FALSE
INVARIANT PromiseKept
INVARIANT RebuildCoversBucket
INVARIANT CatalogMatchesBucket
PROPERTY ProvenCopySurvives
