SPECIFICATION FairSpec
CONSTANTS
  Limit = 6
  MaxAttempts = 2
  Threshold = 2
  Cooldown = 2
  HasClock = TRUE
  MaxPasses = 2
INVARIANTS OpenAtThreshold AtMostOnce OutcomeTrue
PROPERTIES RestsWhenOpen Reopens
