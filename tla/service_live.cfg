SPECIFICATION FairSpec
CONSTANTS
  None = None
  q1 = q1
  q2 = q2
  Queries <- OneQuery
  MaxConcurrency = 1
  Configurations <- LiveConfigurations
  MaxRetries = 1
  PrescoreWorkers = 1
  AdminWarmups = 1
PROPERTIES
  QueryEnds
  LoadingEnds
CHECK_DEADLOCK FALSE
