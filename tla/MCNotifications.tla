--------------------------- MODULE MCNotifications ---------------------------
(* Two configurations, a batch of one item; one form wants backups, the other *)
(* the failures of backups and schedules.                                     *)
EXTENDS Notifications

CONSTANTS c1, c2, j1

MCForms ==
  {[topics |-> {"backup"}, onFailureOnly |-> FALSE],
   [topics |-> {"backup", "schedule"}, onFailureOnly |-> TRUE]}
=============================================================================
