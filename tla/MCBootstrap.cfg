SPECIFICATION Spec
CONSTANTS
  None = None
  Torn = Torn
  Releases <- MCReleases
  Checklist = "checklist"
  TargetOwned = {"config"}
  PreserveIfPresent = {"readme"}
  Own = {"own", "broken"}
  Malformed = {"broken"}
  Targets <- MCTargets
  Authorizations = {{}, {"tool"}}
  MaxEdits = 2
  Drafts = {"draft"}
  Given = {None, 1}
INVARIANTS LockDescribes CollisionExplained DriftForesees
PROPERTY KeepsOwn
CHECK_DEADLOCK FALSE
