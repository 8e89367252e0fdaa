SPECIFICATION FairSpec
CONSTANTS
  None = None
  p1 = p1 p2 = p2
  i1 = i1 i2 = i2
  b1 = b1 b2 = b2 b3 = b3
  h1 = h1 h2 = h2 h3 = h3
  code = code docs = docs config = config
  ci = ci product = product
  w1 = w1 w2 = w2
  t1 = t1
  c1 = c1
  PRs = {p1, p2}
  Issues = {i1, i2}
  Bodies = {b1, b2, b3}
  Heads = {h1, h2, h3}
  Paths = {code, docs, config}
  Protected = {config}
  ConfigPath = config
  NativeChecks = {ci}
  ProductChecks = {product}
  Workflows = {w1, w2}
  Threads = {t1}
  Scopes <- MCScopes
  Tiers = {"general", "scope-security", "correctness-race"}
  MarkSets <- MCGeneral
  BodyIssue <- MCBodyIssue
  HeadPaths <- MCHeadPaths
  HeadConfig <- MCHeadConfig
  HeadWorkflow <- MCHeadWorkflow
  InitialPull <- MCInitialPull
  InitialDefault <- MCInitialDefault
  InitialThread = "resolved"
  EnvKinds = {"push", "push-back", "body", "hold", "mergeable", "draft", "open-pull", "close-pull", "rerun", "retract", "reopen-thread", "resolve", "issue", "authorize", "withdraw", "default"}
  MaxChanges = 2
  Coordinators = {c1}
  MaxFailures = 0
INVARIANT VersionedAtomic
PROPERTY SupervisionEnds
