---------------------------- MODULE DurableJobs ----------------------------
(***************************************************************************)
(* What the scheduler promises of a row of scheduled_actions, without      *)
(* workers, locks or clocks: a job is queued, is run at most Budget times  *)
(* per schedule, and stays done until an authority schedules it again.     *)
(***************************************************************************)
EXTENDS Naturals

CONSTANTS Jobs, Budget

VARIABLES phase, tries

jobVars == <<phase, tries>>

Init ==
  /\ phase = [j \in Jobs |-> "queued"]
  /\ tries \in [Jobs -> 0 .. Budget]

\* An authority schedules the job afresh, whatever became of it.
Schedule(j) ==
  /\ phase' = [phase EXCEPT ![j] = "queued"]
  /\ tries' = [tries EXCEPT ![j] = 0]

Start(j) ==
  /\ phase[j] = "queued" /\ tries[j] < Budget
  /\ phase' = [phase EXCEPT ![j] = "running"]
  /\ tries' = [tries EXCEPT ![j] = @ + 1]

\* Finished, failed for good, or called off; possibly several jobs at once
\* (one UPDATE recovers all stale rows).
End(js) ==
  /\ \A j \in js : phase[j] # "done"
  /\ phase' = [j \in Jobs |-> IF j \in js THEN "done" ELSE phase[j]]
  /\ UNCHANGED tries

\* A stale recovery hands jobs with budget left back and ends the others.
Recover(back, js) ==
  /\ \A j \in back : phase[j] = "running" /\ tries[j] < Budget
  /\ \A j \in js : phase[j] = "running" /\ tries[j] = Budget
  /\ phase' = [j \in Jobs |-> IF j \in back THEN "queued"
                              ELSE IF j \in js THEN "done" ELSE phase[j]]
  /\ UNCHANGED tries

Next ==
  \/ \E j \in Jobs : Schedule(j) \/ Start(j)
  \/ \E js \in SUBSET Jobs : End(js)
  \/ \E back, js \in SUBSET Jobs : Recover(back, js)

Spec == Init /\ [][Next]_jobVars
=============================================================================
