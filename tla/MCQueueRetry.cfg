SPECIFICATION Spec
CONSTANTS
  i1 = i1
  plain = plain
  edited = edited
  Issue = {i1}
  Body = {plain, edited}
  Plain = plain
  InitialBody = {plain, edited}
  Denied = {edited}
  MaxRetries = 3
  MaxTriggers = 1
  MaxChanges = 2
  EnvKinds = {"trigger", "manual", "comment", "control", "scan", "outage", "fail", "noise", "edit", "close", "candidate", "move", "rerun"}
INVARIANTS WriteAhead NoGaps DispatchedOnce
PROPERTIES StopIsFinal
\* with the changes used up and every event handled, nothing is left to do
CHECK_DEADLOCK FALSE
