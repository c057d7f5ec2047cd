\* Three processes share the pipe; the ring is smaller than a write().
SPECIFICATION Spec
CONSTANTS
  Procs = {p1, p2, p3}
  First = p1
  Bytes = {0, 1}
  PIPESIZE = 2
  UINT = 4
  Lengths = {1, 3}
  MaxCalls = 3
  Nobody = Nobody
INVARIANTS
  FreedLast
  SleepsWithReason
PROPERTIES
  ByteStreamSpec
CHECK_DEADLOCK FALSE
