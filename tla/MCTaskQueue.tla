---------------------------- MODULE MCTaskQueue ----------------------------
(* Two transfers of the same volume (one refused while the volume is locked, *)
(* one not, as restore) and a plain task.                                    *)
EXTENDS TaskQueue

CONSTANTS t1, t2, p1, v1

MCTransfers == Tasks \ {p1}
MCLockChecked == {t1}
MCVolumeOf == [t \in MCTransfers |-> v1]
=============================================================================
