SPECIFICATION FairSpec
CONSTANTS
  Request = {r1, r2, r3}
  Grant = {g1}
  SubjectToken = {t1}
  IdempotencyKey = {}
  None = None
  Ttl = {1}
  Target = {x1}
  ApiSource = {"resource"}
  MaxTime = 1
  MaxAttempts = 1
INVARIANTS
  AuditTellsStatus
  EvidenceMatchesGrant
PROPERTIES
  FinalizedIsFrozen
  CallsReturn
