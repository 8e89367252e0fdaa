SPECIFICATION Spec
CONSTANTS
  None = None
  MaxText = 60
  Project <- MCProject
  Baselines <- MCBaselines
  Runs <- MCRuns
  Threads = {1, 2}
  Comments <- MCComments
  PageSize = 1
  MaxPages = 3
  Worlds <- MCWorlds
  Pulls <- MCPulls
  MaxChanges = 2
INVARIANTS ListingComplete EvidenceAtOnce RejectionExplained ReportTrue
CHECK_DEADLOCK FALSE
