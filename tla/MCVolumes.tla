----------------------------- MODULE MCVolumes -----------------------------
(* Two names, one container that uses the first, and requests that create,   *)
(* rename and delete both and change the permissions of the first.           *)
EXTENDS Volumes

CONSTANTS a, b, k

MCMounts == (k :> a)

MCAsks ==
  [op : {"create"}, name : {a, b}]
  \cup {[op |-> "rename", name |-> a, to |-> b, stop |-> TRUE],
        [op |-> "rename", name |-> b, to |-> a, stop |-> FALSE],
        [op |-> "delete", name |-> a, stop |-> FALSE],
        [op |-> "delete", name |-> b, stop |-> FALSE]}
  \cup [op : {"permissions"}, name : {a}, stop : {TRUE}, start : {TRUE},
        change : {{"mode", "owner"}, {"owner"}}]
=============================================================================
