SPECIFICATION FairSpec
CONSTANTS
  Request = {r1}
  Grant = {g1, g2}
  SubjectToken = {t1}
  Instance = {i1, i2, i3}
  None = None
  MaxFaults = 3
INVARIANTS
  TypeOK
  ShownEvidenceIsKept
  IssuedIsDurable
  UsedAtMostOnce
  ActiveIsScheduled
PROPERTIES
  EndsAreDurable
  ImplementsLifecycle
  ActiveEnds
