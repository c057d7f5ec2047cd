CONSTANTS
  Procs = {p0, p1}
  initproc = p0
  Pages = {a, b, c, d}
  NoPage = NoPage
  NVA = 2
  Values = {zero}
  Zero = zero
  Junk = junk
  InitFlags <- TextAndData
  MapMayFail = FALSE
  MaxCount = 2
SPECIFICATION Spec
SYMMETRY Symmetry
CHECK_DEADLOCK FALSE
INVARIANT TextStaysReadOnly
