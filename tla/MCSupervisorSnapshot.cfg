SPECIFICATION Spec
CONSTANTS
  None = None
  p1 = p1 p2 = p2
  i1 = i1 i2 = i2
  b1 = b1 b2 = b2 b3 = b3
  h1 = h1 h2 = h2 h3 = h3
  code = code docs = docs config = config
  ci = ci product = product
  w1 = w1 w2 = w2
  t1 = t1
  c1 = c1
  PRs = {p1, p2}
  Issues = {i1, i2}
  Bodies = {b1, b2, b3}
  Heads = {h1, h2, h3}
  Paths = {code, docs, config}
  Protected = {config}
  ConfigPath = config
  NativeChecks = {ci}
  ProductChecks = {product}
  Workflows = {w1, w2}
  Threads = {t1}
  Scopes <- MCScopes
  Tiers = {"general", "scope-security", "correctness-race"}
  MarkSets <- MCMarkSets
  BodyIssue <- MCBodyIssue
  HeadPaths <- MCHeadPaths
  HeadConfig <- MCHeadConfig
  HeadWorkflow <- MCHeadWorkflow
  InitialPull <- MCCollidingPull
  InitialDefault <- MCInitialDefault
  InitialThread = "none"
  EnvKinds = {"push", "open-pull", "complete", "review", "thread", "resolve", "issue", "authorize", "default"}
  MaxChanges = 2
  Coordinators = {c1}
  MaxFailures = 1
INVARIANTS
  SnapshotAtomic
  CollisionFree
PROPERTIES
  MergeJudged
  FreshAfterReady
