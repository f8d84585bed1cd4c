---------------------------- MODULE MCRoleGroups ----------------------------
(* Instances of RoleGroups for TLC.                                        *)
EXTENDS RoleGroups

\* A command that edits only the publication schedule strands an early group
\* that was parked meanwhile (README, section 5).
Commands == AllOps \ {"schedule"}
=============================================================================
