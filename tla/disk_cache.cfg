\* Five descriptors: the second process finds two of the three it needs.
\* More blocks than buffers, so that buffers are recycled.
SPECIFICATION LiveSpec
CONSTANTS
  Procs = {p1, p2}
  Nobody = Nobody
  Bufs = {b1, b2}
  Blocks = {k1, k2, k3}
  Vals = {0, 1}
  NUM = 5
  MaxPins = 1
INVARIANTS
  DescsAccounted
  SleepersHaveReason
PROPERTIES
  BlockStoreSpec
  RequestReturns
