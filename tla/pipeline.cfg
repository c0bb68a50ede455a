SPECIFICATION FairSpec
CONSTANTS
  m = m
  v = v
  Tasks <- TwoTasks
  Migrations <- OneMigration
  Migrates <- OneMigration
  InCap = 1
  OutCap = 1
  PidReuse = TRUE
INVARIANTS TypeOK NothingKeptAfterEnd DurationAlways TargetKept
PROPERTIES RefinesLifecycle EventuallyPublished
CHECK_DEADLOCK FALSE
