SPECIFICATION FairSpec
CONSTANTS
  i1 = i1
  plain = plain
  edited = edited
  Issue = {i1}
  Body = {plain, edited}
  Plain = plain
  InitialBody = {plain, edited}
  Denied = {edited}
  MaxRetries = 1
  MaxTriggers = 2
  MaxChanges = 2
  EnvKinds = {"trigger", "outage"}
PROPERTIES Settles
\* with the changes used up and every event handled, nothing is left to do
CHECK_DEADLOCK FALSE
