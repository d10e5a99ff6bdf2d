---------------------------- MODULE MCBackupPool ----------------------------
(* The volumes db and db_old of one pool: the pattern of the first matches   *)
(* the names of the second, too.                                             *)
EXTENDS BackupPool

CONSTANTS db, dbOld

MCParts == [s \in Sources |-> CASE s = db -> <<101, 201>>
                                [] s = dbOld -> <<101, 201, 203>>]
=============================================================================
