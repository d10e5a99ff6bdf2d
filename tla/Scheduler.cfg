SPECIFICATION Spec
CONSTANTS
  j1 = j1
  j2 = j2
  hourly = hourly
  daily = daily
  broken = broken
  here = here
  there = there
  None = None
  Torn = Torn
  Jobs = {j1, j2}
  Crons = {hourly, daily}
  BadCron = broken
  Pools = {here, there}
  MaxChanges = 2
  MaxQueue = 1
  MaxCrashes = 1
INVARIANTS TimerInv QuietOnceDisabled RetentionFollowsBackup
PROPERTIES RestartKeepsJobs
CHECK_DEADLOCK FALSE
SYMMETRY Symmetry
