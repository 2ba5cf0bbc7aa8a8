SPECIFICATION CpuBoundSpec
CONSTANTS
  t1 = t1
  t2 = t2
  t3 = t3
  Idle = Idle
  Tasks <- MCTasks3
  UserTasks <- MCNone
  Timeouts <- MCNone
  MaxPrio = 4
  DefaultPrio = 1
  RunBase = 0
INVARIANT SliceLeft
PROPERTY ReadyRuns
