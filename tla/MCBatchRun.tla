----------------------------- MODULE MCBatchRun -----------------------------
(* A batch of two items: a transfer, then a plain call (a transfer too when  *)
(* the batch is a scheduled backup).                                         *)
EXTENDS BatchRun

CONSTANTS s, c1, c2, vol1, vol2

MCSubOf == <<c1, c2>>
MCLabel == <<vol1, vol2>>
MCPlainItems == {2}
=============================================================================
