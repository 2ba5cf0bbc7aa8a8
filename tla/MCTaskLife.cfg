SPECIFICATION LifeSpec
CONSTANTS
  t1 = t1
  t2 = t2
  Idle = Idle
  Killer = Killer
  Tasks <- MCTasks
  UserTasks <- MCNone
  Timeouts <- MCNone
  Signallers <- MCSignaller
  PidNr = 4
  PageReuse = FALSE
  MaxPrio = 2
  DefaultPrio = 0
  RunBase = 0
CHECK_DEADLOCK FALSE
INVARIANTS LifeListsMatchState ExitedNeverRuns PidMapSound
