SPECIFICATION Spec
CONSTANTS
  db = db
  dbOld = dbOld
  Sources = {db, dbOld}
  Parts <- MCParts
  Retention = 1
  MaxTime = 3
PROPERTIES RetentionPerVolume
