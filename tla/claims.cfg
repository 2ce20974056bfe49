SPECIFICATION FairSpec
CONSTANTS
  Claim = {c1, c2}
  Active = {c1}
  Call = {r1, r2}
  None = None
  Lifetime = 2
  Interval = 1
  SlowDown = 1
  MaxTime = 3
  MaxWrites = 4
  MaxFaults = 1
INVARIANTS
  TokenFollowsApproval
  ClaimsAreScheduled
  ClaimsAreRouted
PROPERTIES
  PollPace
  ExpiredClaimsLeave
  ImplementsLifecycle
CHECK_DEADLOCK FALSE
