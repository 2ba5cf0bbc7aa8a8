SPECIFICATION MutexSpec
CONSTANTS
  t1 = t1
  t2 = t2
  t3 = t3
  Idle = Idle
  Tasks <- MCTasks3
  UserTasks <- MCNone
  Timeouts <- MCNone
  Mutexes <- MCOne
  MaxPrio = 2
  DefaultPrio = 0
  RunBase = 0
SYMMETRY MCSymmetry
INVARIANTS MutualExclusion WaitListSound
PROPERTY ImplementsLock
