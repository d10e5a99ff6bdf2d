SPECIFICATION Spec
CONSTANTS
  db = db
  dbOld = dbOld
  Sources = {db}
  Parts <- MCParts
  Retention = 2
  MaxTime = 3
INVARIANTS PoolInv NoPartialArchive
PROPERTIES RetentionKeepsLast
