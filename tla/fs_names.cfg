SPECIFICATION Spec
CONSTANTS
  Procs = {p1, p2}
  Nobody = Nobody
  Names = {"a", "b"}
  NInodes = 4
  MaxCalls = 3
  NewPaths <- MCNewPaths
  Calls <- MCCalls
SYMMETRY Symmetry
INVARIANTS
  RefsExact
  LinksCover
  NoSurprise
  NoLockCycle
