SPECIFICATION Spec
CONSTANTS
  m = m
  v = v
  p1 = p1
  p2 = p2
  NoTask = NoTask
  Tasks <- OneMigration
  Migrations <- OneMigration
  Pollers <- OnePoller
  OutCap = 2
  InPlace = FALSE
  Faults = FALSE
  MaxRestarts = 0
  Burst = 2
INVARIANT SyncedPrecedesTerminal
CHECK_DEADLOCK FALSE
