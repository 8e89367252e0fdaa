SPECIFICATION Spec
CONSTANTS
  None = None
  MaxArms = 3
  Unsafe = {".git", "..", "*"}
  Paths <- MCPaths
  Attributes <- MCAttributes
  Clean <- MCClean
  Limit <- MCLimit
  Contents = {0, 1}
  Plan <- MCPlan
  Catalog <- MCCatalog
  Disk <- MCDisk
  Cell <- MCCell
  Observations <- MCObservations
  MaxLate = 3
  MaxGradings = 1
INVARIANTS PreparationWhole FrozenConsistent RecordOfCandidate PassedWasGraded
CHECK_DEADLOCK FALSE
