SPECIFICATION FairSpec
CONSTANTS
  t1 = t1
  t2 = t2
  p1 = p1
  v1 = v1
  None = None
  SaveErrors = FALSE
  Tasks = {t1, p1}
  Volumes = {v1}
  Transfers <- MCTransfers
  LockChecked <- MCLockChecked
  VolumeOf <- MCVolumeOf
  MaxPhases = 2
  MaxCrashes = 1
  MaxCleanups = 0
INVARIANTS NoLostKill
PROPERTIES EarlyCancelHolds CancelEnds EveryTaskEnds
CHECK_DEADLOCK FALSE
