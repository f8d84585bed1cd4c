---------------------------- MODULE MCOrganisers ----------------------------
(* Instances of Organisers for TLC: which administrator commands interleave *)
(* with the services.                                                       *)
EXTENDS Organisers

NoCommands == {}
Assignments == {"primary", "backup"}
AllCommands == AllAdminOps
=============================================================================
