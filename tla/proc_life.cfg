\* Three slots let a grandchild outlive its parent and be passed to init.
SPECIFICATION LiveSpec
CONSTANTS
  NPROC = 4
  MaxCalls = 3
INVARIANTS
  LiveParent
  WaitsWithReason
  ReapedIsGone
PROPERTIES
  OrphanReaped
  CallsFinish
CHECK_DEADLOCK FALSE
