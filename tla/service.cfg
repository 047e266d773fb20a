SPECIFICATION Spec
CONSTANTS
  None = None
  q1 = q1
  q2 = q2
  Queries <- MCQueries
  MaxConcurrency = 1
  Configurations <- MCConfigurations
  MaxRetries = 1
  PrescoreWorkers = 1
  AdminWarmups = 1
INVARIANTS
  SharedSafely
  OrdersAreScored
  NothingLeftBehind
  CountersAddUp
PROPERTY
  SharedModelSpecs
SYMMETRY Symmetry
CHECK_DEADLOCK FALSE
