SPECIFICATION Spec
CONSTANTS
  Token = {t1, t2}
  Subscriber = {s1}
  Request = {q1, q2}
  Run = {d1, d2}
  None = None
  Limit = 1
  MaxAttempts = 2
  MaxFaults = 0
SYMMETRY Symmetry
INVARIANTS
  RetryIsScheduled
