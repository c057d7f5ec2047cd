CONSTANTS
  Ops = {o1, o2, o3, o4}
  Blocks = {b1, b2, b3, b4}
  Vals = {v0}
  Blank = v0
  NoBuf = NoBuf
  MAXOPBLOCKS = 2
  OpBlocks = 1
  LOGSIZE = 5
  LogBlocks = 4
SPECIFICATION LiveSpec
INVARIANT NoLogPanic
PROPERTY SleeperWakes
