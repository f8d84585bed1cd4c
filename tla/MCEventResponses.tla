-------------------------- MODULE MCEventResponses --------------------------
(* Instances of EventResponses for TLC.                                    *)
EXTENDS EventResponses, TLC

NobodyBarred == {}
Symmetric == Permutations(Clicks) \cup Permutations(Groups)
=============================================================================
