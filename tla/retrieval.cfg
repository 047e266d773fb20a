SPECIFICATION Spec
CONSTANTS
  None = None
  K = 60
  MaxRank = 3
  NearPercent = 90
  AdjacentPercent = 60
  Tables <- MCTables
  DenseTopK = 2
  SparseTopK = 2
  FinalTopK = 3
  Configurations <- MCConfigurations
  MaxQueries = 2
INVARIANTS
  EvidenceIsDistinct
  RanksAreRespected
CHECK_DEADLOCK FALSE
