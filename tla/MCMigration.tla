---------------------------- MODULE MCMigration ----------------------------
(* A source with one file, another name that only the destination has, and   *)
(* up to two containers.                                                     *)
EXTENDS Migration

CONSTANTS a, x, k1, k2
=============================================================================
