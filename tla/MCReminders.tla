----------------------------- MODULE MCReminders -----------------------------
(* Instance of Reminders for TLC.                                          *)
EXTENDS Reminders

OneMinute == {1}
CONSTANTS h1, h2
TwoHandlers == {h1, h2}
AnyCommandAndAReopening == [h \in TwoHandlers |-> IF h = h1 THEN AllOps ELSE {"reopen"}]
=============================================================================
