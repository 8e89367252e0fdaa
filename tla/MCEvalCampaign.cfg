SPECIFICATION CampaignSpec
CONSTANTS
  None = None
  MaxArms = 3
  Unsafe = {".git", "..", "*"}
  Limit <- MCLimit
  MaxRecords = 2
  Catalogs <- MCCatalogs
  Disks <- MCDisks
  Plans <- MCPlans
  Freezes <- MCFreezes
  Observations <- MCObservations
INVARIANTS AssembledParses Reportable CountsAdd RefusalExplained
CHECK_DEADLOCK FALSE
