SPECIFICATION FairSpec
CONSTANTS
  m = m
  v = v
  p1 = p1
  p2 = p2
  NoTask = NoTask
  Tasks <- OneOfEach
  Migrations <- OneMigration
  Pollers <- OnePoller
  OutCap = 1
  InPlace = FALSE
  Faults = FALSE
  MaxRestarts = 1
  Burst = 1
PROPERTIES RefinesLifecycle EventuallyReported EventuallySynced PlainTaskForgotten
CHECK_DEADLOCK FALSE
