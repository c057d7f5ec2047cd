CONSTANTS
  Procs = {p0, p1, p2}
  initproc = p0
  Pages = {a, b, c}
  NoPage = NoPage
  NVA = 2
  Values = {zero, one}
  Zero = zero
  Junk = junk
  InitFlags <- OneDataPage
  MapMayFail = FALSE
  MaxCount = 2
SPECIFICATION Spec
SYMMETRY Symmetry
CHECK_DEADLOCK FALSE
INVARIANT NoLostPage
PROPERTY PrivateMemorySpec
