SPECIFICATION CronSpec
CONSTANTS
  MaxNumber = 9
  MaxParts = 2
INVARIANTS AsCrontab
CHECK_DEADLOCK FALSE
