SPECIFICATION Spec
CONSTANTS
  Procs = {p1, p2}
  Nobody = Nobody
  Names = {"a", "b"}
  NInodes = 4
  MaxCalls = 3
  NewPaths <- MCNewPaths
  Calls <- MCUnlinks
SYMMETRY Symmetry
INVARIANT NoTypePanic
