---------------------------- MODULE MCTemplates ----------------------------
(* Instance of Templates for TLC.                                          *)
EXTENDS Templates

Full == [active |-> TRUE, roles |-> TRUE, preset |-> TRUE, time |-> "noon", signups |-> TRUE,
         closes |-> 1, mode |-> "scheduled", lead |-> 2, pings |-> {}, organisers |-> {"primary"},
         reminders |-> [r \in Reminders |-> "signup_close"]]
Bare == [Full EXCEPT !.preset = FALSE, !.roles = FALSE, !.time = NoTime, !.signups = FALSE,
                     !.mode = "manual", !.lead = 0, !.organisers = {},
                     !.reminders = [r \in Reminders |-> "none"]]
SomeTemplates == {Full, Bare}

\* Every column is changed to every value, alone where that makes sense.
SomeEdits ==
  {[signups |-> b] : b \in BOOLEAN} \cup {[time |-> t] : t \in Times \cup {NoTime}}
  \cup {[preset |-> b] : b \in BOOLEAN} \cup {[roles |-> b] : b \in BOOLEAN}
  \cup {[roles |-> FALSE, preset |-> FALSE]}
  \cup {[mode |-> m] : m \in Modes}
  \cup {[mode |-> m, lead |-> 0] : m \in {"manual", "immediate"}}
  \cup {[mode |-> "scheduled", lead |-> l] : l \in Offsets} \cup {[closes |-> c] : c \in Offsets}
=============================================================================
