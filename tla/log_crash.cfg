CONSTANTS
  Ops = {o1, o2, o3}
  Blocks = {b1, b2, b3}
  Vals = {v0, v1}
  Blank = v0
  NoBuf = NoBuf
  MAXOPBLOCKS = 2
  OpBlocks = 2
  LOGSIZE = 5
  LogBlocks = 4
SPECIFICATION Spec
SYMMETRY Symmetry
INVARIANT PinnedWhileLogged
PROPERTY AtomicDiskSpec
