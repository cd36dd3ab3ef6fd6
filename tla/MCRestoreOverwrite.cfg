SPECIFICATION EnginesSpec
CONSTANTS
  Databases = {da, db}
  System = System
  MaxVersion = 2
  MaxEvents = 1
CHECK_DEADLOCK FALSE
PROPERTY UnconfirmedOverwritesNothing
