SPECIFICATION FairSpec
CONSTANTS
  Token = {t1}
  Subscriber = {s1, s2}
  Request = {q1}
  Run = {d1, d2}
  None = None
  Limit = 1
  MaxAttempts = 2
  MaxFaults = 1
CONSTRAINT Promised
INVARIANTS
  OutcomeIsTrue
  PendingIsScheduled
PROPERTIES
  DeliveriesSettle
