------------------------------ MODULE MCPresets -----------------------------
(* Instances of Presets for TLC.                                           *)
EXTENDS Presets, TLC

CONSTANTS k1, k2, g1

\* A preset with one open and one restricted option, and a group for both.
Ready == [active |-> TRUE,
          options |-> (k1 :> [NoOption EXCEPT !.state = "active"]
                       @@ k2 :> [state |-> "active", restricted |-> TRUE, qualified |-> TRUE]),
          groups |-> (g1 :> [state |-> "active", opens |-> 1, closes |-> 0, signup |-> FALSE,
                             options |-> {k1, k2}])]
SomePresets == {Ready}
=============================================================================
