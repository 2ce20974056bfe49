SPECIFICATION ProofSpec
CONSTANTS
  MaxTime = 4
  Proof = {j1}
  Verifier = {v1}
  BrokerId = {b1}
  None = None
  Tolerance = 1
INVARIANTS
  ReplayRefused
CHECK_DEADLOCK FALSE
