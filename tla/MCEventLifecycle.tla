-------------------------- MODULE MCEventLifecycle --------------------------
(* Instances of EventLifecycle for TLC.                                    *)
EXTENDS EventLifecycle

\* /event refresh is left out: its UPDATE may overwrite a final status.
Commands == AllOps \ {"refresh"}
Refreshes == {"refresh", "cancel"}
=============================================================================
