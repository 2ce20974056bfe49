SPECIFICATION FairSpec
CONSTANTS
  Worker = {w1, w2}
  Grant = {g1}
  Target = {t1}
  None = None
  MaxFaults = 2
INVARIANTS
  DeliveredWasReceived
  AnsweredWasTried
  RetryIsArmed
PROPERTIES
  AtLeastOnce
