SPECIFICATION Spec
CONSTANTS
  c1 = c1
  c2 = c2
  j1 = j1
  Ids = {c1, c2}
  Forms <- MCForms
  Types = {"backup", "scheduled_backup"}
  Jobs = {j1}
  Items = {"item"}
  MaxVersions = 2
  MaxChanges = 3
  MaxRestarts = 1
INVARIANTS MessageInv
PROPERTIES QuietAfterToggle StaysAsSet EveryoneTold
CHECK_DEADLOCK FALSE
