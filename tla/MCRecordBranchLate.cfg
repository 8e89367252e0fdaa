SPECIFICATION Spec
CONSTANTS
  w1 = w1
  w2 = w2
  w3 = w3
  retry = retry
  stop = stop
  other = other
  a = a
  b = b
  None = None
  Foreign = Foreign
  Writer = {w1, w2, w3}
  PathOf <- MCSamePath
  PayloadOf <- MCPayloadOf
  Path = {retry, stop}
  ForeignPath = {other}
  Payload = {a, b, Foreign}
  WalkLimit = 2
  Tries = 2
  MaxRewrites = 1
  Lag = TRUE
  Overtake = TRUE
INVARIANTS Returned
PROPERTIES ConfirmedThere
\* every job ends, and then nothing is left to do
CHECK_DEADLOCK FALSE
