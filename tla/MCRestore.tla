----------------------------- MODULE MCRestore -----------------------------
(* An archive with two files and a third name that only the destination has. *)
EXTENDS Restore

CONSTANTS a, b, x
=============================================================================
