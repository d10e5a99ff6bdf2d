SPECIFICATION Spec
CONSTANTS
  t1 = t1
  t2 = t2
  p1 = p1
  v1 = v1
  None = None
  SaveErrors = TRUE
  Tasks = {t1, t2}
  Volumes = {v1}
  Transfers <- MCTransfers
  LockChecked <- MCLockChecked
  VolumeOf <- MCVolumeOf
  MaxPhases = 2
  MaxCrashes = 1
  MaxCleanups = 1
INVARIANTS OneRunning LocksHeld NotifiedOnce
PROPERTIES ImplementsSerialQueue OutcomeStable RestartRecovers
CHECK_DEADLOCK FALSE
