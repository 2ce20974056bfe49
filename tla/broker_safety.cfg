SPECIFICATION Spec
CONSTANTS
  Request = {r1, r2, r3}
  Grant = {g1, g2}
  SubjectToken = {t1}
  IdempotencyKey = {k1}
  None = None
  Ttl = {1}
  Target = {}
  ApiSource = {"resource"}
  MaxTime = 1
  MaxAttempts = 0
SYMMETRY Symmetry
INVARIANTS
  CredentialsAreUnique
  UsedAtMostOnce
  OneGrantPerKey
PROPERTIES
  ImplementsLifecycle
CHECK_DEADLOCK TRUE
