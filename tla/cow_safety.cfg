CONSTANTS
  Procs = {p0, p1, p2}
  initproc = p0
  Pages = {a, b, c}
  NoPage = NoPage
  NVA = 2
  Values = {zero}
  Zero = zero
  Junk = junk
  InitFlags <- OneDataPage
  MapMayFail = TRUE
  MaxCount = 2
SPECIFICATION Spec
SYMMETRY Symmetry
CHECK_DEADLOCK FALSE
INVARIANTS
  TypeOK
  NoDanglingPage
  CountCoversRefs
  SoleOwner
  NoPanic
