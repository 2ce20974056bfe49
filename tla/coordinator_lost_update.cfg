SPECIFICATION Spec
CONSTANTS
  Request = {r1, r2}
  Grant = {g1}
  SubjectToken = {t1}
  Instance = {i1, i2, i3, i4, i5}
  None = None
  MaxFaults = 1
SYMMETRY Symmetry
INVARIANTS
  ShownEvidenceIsKept
