SPECIFICATION Spec
CONSTANTS
  t1 = t1
  t2 = t2
  t3 = t3
  Idle = Idle
  Tasks <- MCTasks2
  UserTasks <- MCUser
  Timeouts <- MCTimeouts
  MaxPrio = 3
  DefaultPrio = 0
  RunBase = 0
INVARIANTS TypeOK ListsExact CountIsLength DispatchSound AwakeWhenRunning
