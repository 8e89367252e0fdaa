SPECIFICATION Spec
CONSTANTS
  None = None
  Unsafe = {".git", "..", "."}
  Identifiers = {"pkg", "core", "app", "App", "tests", "test_app", "__init__", "os", "run"}
  TestStems = {"test_app"}
  Lower <- MCLower
  MaxTracked = 5
  MaxEdges = 9
  MaxPythonSize = 1
  MaxFiles = 4
  MaxFileSize = 1
  MaxTotalSize = 4
  CommitTree <- MCCommitTree
  Requests <- MCRequests
  Sessions <- MCSessions
  Refs <- MCRefs
  Queries <- MCQueries
  Scopes <- MCScopes
  MaxChanges = 2
INVARIANTS MapExact ImpactExact PackageOfCommit HeldThroughout ContextIsFixture
\* a run ends, and nothing is left to do
CHECK_DEADLOCK FALSE
