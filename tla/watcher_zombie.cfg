SPECIFICATION FairSpec
CONSTANTS
  m = m
  v = v
  p1 = p1
  p2 = p2
  NoTask = NoTask
  Tasks <- OneMigration
  Migrations <- OneMigration
  Pollers <- OnePoller
  OutCap = 1
  InPlace = FALSE
  Faults = FALSE
  MaxRestarts = 0
  Burst = 1
PROPERTY TerminatedForgotten
CHECK_DEADLOCK FALSE
