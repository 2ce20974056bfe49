SPECIFICATION Spec
CONSTANTS
  MaxTime = 4
  Assertion = {a1, a2}
  Presentation = {p1, p2, p3}
  Proof = {j1}
  Verifier = {v1, v2}
  BrokerId = {b1, b2}
  None = None
  Tolerance = 1
  Limit = 2
  MaxRequests = 6
  Window = 2
  Taker = {k1, k2}
  Scope = {s1, s2, s3}
  Supported = {s1, s2}
  Resource = {api, web, foreign}
  Protected = {api, web}
  Default = api
  NoResource = NoResource
  AnonymousLifetime = 1
  Field = {scope}
  Value = {x, y}
  Any = Any
  Day = 3
  MaxRules = 2
  Run = {g1, g2}
  Retrier = {q1}
  NoRun = NoRun
  Attempts = 2
  MaxLosses = 3
  Issuer = {i1, i2}
  Nobody = Nobody
  Fetch = {f1, f2}
  Section = {discover}
  Url <- MCUrl
  PageOf <- MCPageOf
  OriginOf <- MCOriginOf
  MaxRedirects = 1
  MaxCandidates = 2
  AuthMdDocs <- MCAuthMdDocs
  ResourceDocs <- MCResourceDocs
  ServerDocs <- MCServerDocs
  NoDocument = NoDocument
INVARIANTS
  AssertionAcceptedOnce
  ProofAcceptedOnce
  LimitKept
  TokenStaysWithin
  FirstMatchWins
  UsesAndEndsItsGrant
  ServedByOwnIssuer
  CleanReportIsEarned
CHECK_DEADLOCK FALSE
