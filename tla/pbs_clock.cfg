CONSTANTS
  NPROC = 2
  NCPU = 2
  Pids = {2}
  Priorities = {0, 60}
  MaxPid = 3
  MaxTicks = 1
  MaxSch = 2
SPECIFICATION Spec
CHECK_DEADLOCK FALSE
INVARIANTS
  OneCpuPerProcess
  ChoosesBest
  NoLockCycle
