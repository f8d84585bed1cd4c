-------------------------- MODULE MCScheduledActions --------------------------
(* Instances of ScheduledActions for TLC; the constants are model values,    *)
(* numbers, and which rows an authority resets.                              *)
EXTENDS ScheduledActions

OneReset == [a \in Actions |-> IF a = CHOOSE b \in Actions : TRUE THEN 1 ELSE 0]
=============================================================================
