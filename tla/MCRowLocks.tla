----------------------------- MODULE MCRowLocks -----------------------------
(* Instance of RowLocks for TLC.                                           *)
EXTENDS RowLocks

OrganiserPrograms ==
  {"respond", "timeOut", "activateBackup", "queueCover", "retireNominees", "claimCover",
   "assignPrimary", "assignBackup", "remove", "disable", "rescheduleSafety", "publishEvent"}
OrderedPrograms == Programs \ OutOfOrder
=============================================================================
