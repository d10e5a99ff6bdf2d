----------------------------- MODULE VolumePool -----------------------------
(***************************************************************************)
(* What the volume endpoints promise of one pool (api/routes.py, create,   *)
(* rename, delete): a volume appears, changes its name or goes only        *)
(* because somebody asked for it by that name, each request takes effect   *)
(* at most once, and none takes a name that another volume has.            *)
(***************************************************************************)
EXTENDS Naturals

CONSTANTS
  Names,    \* names of volumes
  Requests  \* the requests: records with an operation, a name, for a rename a new name

VARIABLES
  dir,   \* dir[n]: the volume of that name, as the number of the request that made it, or 0
  asked, \* how many requests were made
  open   \* requests that have had no effect yet, with their numbers

poolVars == <<dir, asked, open>>

\* A volume that was there before counts as the first request's.
PoolInit ==
  /\ \/ dir = [n \in Names |-> 0] /\ asked = 0
     \/ asked = 1 /\ \E m \in Names : dir = [n \in Names |-> IF n = m THEN 1 ELSE 0]
  /\ open = {}

Ask(r) ==
  /\ asked' = asked + 1
  /\ open' = open \cup {<<asked + 1, r>>}
  /\ UNCHANGED dir

Close(i, r) ==
  /\ <<i, r>> \in open
  /\ open' = open \ {<<i, r>>}
  /\ UNCHANGED asked

Create(i, r) ==
  /\ Close(i, r)
  /\ r.op = "create" /\ dir[r.name] = 0
  /\ dir' = [dir EXCEPT ![r.name] = i]

Rename(i, r) ==
  /\ Close(i, r)
  /\ r.op = "rename" /\ dir[r.name] # 0 /\ dir[r.to] = 0
  /\ dir' = [dir EXCEPT ![r.to] = dir[r.name], ![r.name] = 0]

Delete(i, r) ==
  /\ Close(i, r)
  /\ r.op = "delete" /\ dir[r.name] # 0
  /\ dir' = [dir EXCEPT ![r.name] = 0]

\* It fails, changes no directory, or finds nothing to do.
Drop(i, r) == Close(i, r) /\ UNCHANGED dir

PoolNext ==
  \/ \E r \in Requests : Ask(r)
  \/ \E i \in 1..asked, r \in Requests : Create(i, r) \/ Rename(i, r) \/ Delete(i, r) \/ Drop(i, r)

PoolSpec == PoolInit /\ [][PoolNext]_poolVars
=============================================================================
