----------------------------- MODULE Ownership -----------------------------
(***************************************************************************)
(* What the organiser services promise about who answers for an event,     *)
(* without actions, messages, handlers or clocks: somebody is asked or     *)
(* volunteers only while nobody else owns the event; an owner is never     *)
(* exchanged for another in one step, and who has given the event up does  *)
(* not get it back; once the event is over nobody comes to own it.         *)
(***************************************************************************)
CONSTANT Candidates

VARIABLES
  owners,     \* who answers for the event
  confirmed,  \* of them, those who have said yes
  past,       \* who answered for it before
  over        \* the event is completed or cancelled

ownVars == <<owners, confirmed, past, over>>

Init ==
  /\ owners \in {{}} \cup {{c} : c \in Candidates}
  /\ confirmed = {} /\ past = {} /\ over = FALSE

\* A nominee is asked: the primary organiser, or the backup in his place.
Ask(c) ==
  /\ ~over /\ owners = {} /\ c \notin past
  /\ owners' = {c}
  /\ UNCHANGED <<confirmed, past, over>>

\* A volunteer claims the event and has thereby confirmed.
Volunteer(c) ==
  /\ ~over /\ owners = {} /\ c \notin past
  /\ owners' = {c} /\ confirmed' = {c}
  /\ UNCHANGED <<past, over>>

Confirm(c) ==
  /\ ~over /\ c \in owners \ confirmed
  /\ confirmed' = confirmed \cup {c}
  /\ UNCHANGED <<owners, past, over>>

\* Declined, timed out, replaced or removed.
Leave(c) ==
  /\ c \in owners
  /\ owners' = owners \ {c} /\ confirmed' = confirmed \ {c} /\ past' = past \cup {c}
  /\ UNCHANGED over

Finish ==
  /\ ~over /\ over' = TRUE
  /\ UNCHANGED <<owners, confirmed, past>>

Next ==
  \/ \E c \in Candidates : Ask(c) \/ Volunteer(c) \/ Confirm(c) \/ Leave(c)
  \/ Finish

Spec == Init /\ [][Next]_ownVars
=============================================================================
