-------------------------- MODULE ScheduledActions --------------------------
(***************************************************************************)
(* The durable scheduler of src/scheduler/event-scheduler.ts: rows of the  *)
(* scheduled_actions table, claimed and settled by polling workers (one    *)
(* per bot process: ticks of one process never overlap), and rewritten at  *)
(* any moment by commands and services (src/scheduler/action-maintenance). *)
(*                                                                         *)
(* Time is abstracted to the two comparisons the code makes: `due' is      *)
(* dueAt <= now, and `lock' tells a NULL lockedAt from a fresh one and     *)
(* from one older than STALE_LOCK_AFTER_MS.  Every step is one SQL         *)
(* statement or one return of an executor.                                 *)
(***************************************************************************)
EXTENDS Naturals, FiniteSets

CONSTANTS
  Actions,      \* rows of scheduled_actions (event id, action key)
  Workers,      \* bot processes, each running at most one tick
  NoOne,        \* no worker / no action
  MaxAttempts,  \* MAX_ATTEMPTS
  BatchLimit,   \* MAX_ACTIONS_PER_TICK
  MaxEpoch,     \* bound: MaxEpoch[a] authoritative resets of row a
  MaxCrashes    \* bound: process losses

ASSUME NoOneAssumption == NoOne \notin Actions \cup Workers
ASSUME MaxAttemptsAssumption == MaxAttempts \in Nat \ {0}
ASSUME BatchLimitAssumption == BatchLimit \in Nat \ {0}
ASSUME BoundsAssumption == MaxEpoch \in [Actions -> Nat] /\ MaxCrashes \in Nat

VARIABLES
  row,      \* row[a]: the persisted columns of action a
  worker,   \* worker[w]: the local state of a tick
  history,  \* history[a]: ghost facts about a no column records
  crashes   \* process losses so far

vars == <<row, worker, history, crashes>>

Statuses == {"pending", "processing", "completed", "failed", "cancelled"}
Live == {"pending", "processing"}
Row == [status : Statuses, attempt : Nat, due : BOOLEAN,
        lock : {"none", "fresh", "stale"}]

Steps == {"idle", "recover", "revive", "exhaust", "select", "claim", "run",
          "complete", "fail"}
Worker == [pc : Steps, batch : SUBSET Actions, act : Actions \cup {NoOne},
           attempt : Nat, epoch : Nat]

\* epoch: how often an authority reset the row; runs: executor starts since
\* the last reset; owner: the worker whose claim is the latest one.
History == [epoch : Nat, runs : Nat, owner : Workers \cup {NoOne}]

IdleWorker ==
  [pc |-> "idle", batch |-> {}, act |-> NoOne, attempt |-> 0, epoch |-> 0]

\* A row scheduled for the future, or one an interrupted older version left
\* pending with its attempts used up (failExhaustedPendingActions).
Init ==
  /\ row \in [Actions -> [status : {"pending"}, attempt : {0, MaxAttempts},
                          due : {FALSE}, lock : {"none"}]]
  /\ worker = [w \in Workers |-> IdleWorker]
  /\ history = [a \in Actions |-> [epoch |-> 0, runs |-> row[a].attempt,
                                   owner |-> NoOne]]
  /\ crashes = 0

-----------------------------------------------------------------------------
(* Time.                                                                   *)

BecomesDue(a) ==
  /\ row[a].status = "pending" /\ ~row[a].due
  /\ row' = [row EXCEPT ![a].due = TRUE]
  /\ UNCHANGED <<worker, history, crashes>>

LockGoesStale(a) ==
  /\ row[a].lock = "fresh"
  /\ row' = [row EXCEPT ![a].lock = "stale"]
  /\ UNCHANGED <<worker, history, crashes>>

-----------------------------------------------------------------------------
(* A scheduler tick.                                                       *)

Goto(w, pc) == worker' = [worker EXCEPT ![w].pc = pc]

\* requestSchedulerTick: a tick starts only when the previous one is over.
StartTick(w) ==
  /\ worker[w].pc = "idle"
  /\ Goto(w, "recover")
  /\ UNCHANGED <<row, history, crashes>>

\* Mutant: recovery looks at the wrong status.
StalePending(a) == row[a].status = "pending" /\ row[a].lock = "stale"

Stale(a) == row[a].status = "processing" /\ row[a].lock = "stale"

\* Mutant: the attempt budget starts afresh.
RecoveredAfresh(a) ==
  [row[a] EXCEPT !.status = "pending", !.lock = "none", !.attempt = 0]

Recovered(a) == [row[a] EXCEPT !.status = "pending", !.lock = "none"]

\* recoverStaleActions, two statements: an interrupted last attempt fails, any
\* other one returns to pending and keeps its attempt number.
FailStaleActions(w) ==
  /\ worker[w].pc = "recover"
  /\ row' = [a \in Actions |->
              IF Stale(a) /\ row[a].attempt >= MaxAttempts
              THEN [row[a] EXCEPT !.status = "failed", !.lock = "none"]
              ELSE row[a]]
  /\ Goto(w, "revive")
  /\ UNCHANGED <<history, crashes>>

ReviveStaleActions(w) ==
  /\ worker[w].pc = "revive"
  /\ row' = [a \in Actions |->
              IF Stale(a) /\ row[a].attempt < MaxAttempts THEN Recovered(a) ELSE row[a]]
  /\ Goto(w, "exhaust")
  /\ UNCHANGED <<history, crashes>>

FailExhaustedPendingActions(w) ==
  /\ worker[w].pc = "exhaust"
  /\ row' = [a \in Actions |->
              IF row[a].status = "pending" /\ row[a].attempt >= MaxAttempts
              THEN [row[a] EXCEPT !.status = "failed", !.lock = "none"]
              ELSE row[a]]
  /\ Goto(w, "select")
  /\ UNCHANGED <<history, crashes>>

Due == {a \in Actions : row[a].status = "pending" /\ row[a].due}

\* processDueActions reads ids only; everything else is re-read by the claim.
SelectDueActions(w) ==
  /\ worker[w].pc = "select"
  /\ \E batch \in SUBSET Due :
       /\ Cardinality(batch) <= BatchLimit
       /\ batch = Due \/ Cardinality(batch) = BatchLimit
       /\ worker' = [worker EXCEPT ![w].pc = "claim", ![w].batch = batch]
  /\ UNCHANGED <<row, history, crashes>>

Claimable(a) ==
  /\ row[a].status = "pending"
  /\ row[a].due
  /\ row[a].attempt < MaxAttempts

\* claimAction, the conditional UPDATE that returns a row.
ClaimAction(w, a) ==
  /\ worker[w].pc = "claim" /\ a \in worker[w].batch
  /\ Claimable(a)
  /\ row' = [row EXCEPT ![a].status = "processing", ![a].lock = "fresh",
                        ![a].attempt = @ + 1]
  /\ worker' = [worker EXCEPT ![w] =
                 [pc |-> "run", batch |-> @.batch \ {a}, act |-> a,
                  attempt |-> row[a].attempt + 1, epoch |-> history[a].epoch]]
  /\ history' = [history EXCEPT ![a].owner = w, ![a].runs = @ + 1]
  /\ UNCHANGED crashes

\* claimAction, the conditional UPDATE that matches no row.
SkipAction(w, a) ==
  /\ worker[w].pc = "claim" /\ a \in worker[w].batch
  /\ ~Claimable(a)
  /\ worker' = [worker EXCEPT ![w].batch = @ \ {a}]
  /\ UNCHANGED <<row, history, crashes>>

EndTick(w) ==
  /\ worker[w].pc = "claim" /\ worker[w].batch = {}
  /\ worker' = [worker EXCEPT ![w] = IdleWorker]
  /\ UNCHANGED <<row, history, crashes>>

\* Mutants: one of the two columns is not compared.
FenceByStatusOnly(w, a) == row[a].status = "processing"
FenceByAttemptOnly(w, a) == row[a].attempt = worker[w].attempt

\* The WHERE clause of every update a worker makes to its own action.
Fence(w, a) ==
  /\ row[a].status = "processing"
  /\ row[a].attempt = worker[w].attempt

ExecutorReturns(w) ==
  /\ worker[w].pc = "run"
  /\ Goto(w, "complete")
  /\ UNCHANGED <<row, history, crashes>>

ExecutorThrows(w) ==
  /\ worker[w].pc = "run"
  /\ Goto(w, "fail")
  /\ UNCHANGED <<row, history, crashes>>

Reset(r, due) ==
  [r EXCEPT !.status = "pending", !.attempt = 0, !.lock = "none", !.due = due]

\* An authority gives the row a new schedule and a new attempt budget.
NewEpoch(a) ==
  /\ history[a].epoch < MaxEpoch[a]
  /\ history' = [history EXCEPT ![a].epoch = @ + 1, ![a].runs = 0]

\* executeRoleRequestGroupOpen and executeEventReminder park their own action
\* (a new opening time, an unpublished event): pending with a fresh budget.
ExecutorDefers(w) ==
  LET a == worker[w].act IN
  /\ worker[w].pc = "run"
  /\ IF Fence(w, a)
     THEN NewEpoch(a) /\ row' = [row EXCEPT ![a] = Reset(@, FALSE)]
     ELSE UNCHANGED <<row, history>>
  /\ Goto(w, "complete")
  /\ UNCHANGED crashes

Settle(w, outcome) ==
  LET a == worker[w].act IN
  /\ row' = IF Fence(w, a) THEN [row EXCEPT ![a] = outcome] ELSE row
  /\ worker' = [worker EXCEPT ![w].pc = "claim", ![w].act = NoOne,
                              ![w].attempt = 0, ![w].epoch = 0]
  /\ UNCHANGED <<history, crashes>>

MarkActionCompleted(w) ==
  /\ worker[w].pc = "complete"
  /\ Settle(w, [row[worker[w].act] EXCEPT !.status = "completed",
                                          !.lock = "none"])

\* The last attempt fails for good; an earlier one waits for its backoff.
HandleActionFailure(w) ==
  /\ worker[w].pc = "fail"
  /\ Settle(w, IF worker[w].attempt >= MaxAttempts
               THEN [row[worker[w].act] EXCEPT !.status = "failed",
                                               !.lock = "none"]
               ELSE [row[worker[w].act] EXCEPT !.status = "pending",
                                               !.lock = "none",
                                               !.due = FALSE])

\* The process dies, or a failing statement ends the tick (the catch of
\* runSchedulerTickSafely): local state is lost, the row keeps its claim.
LoseTick(w) ==
  /\ worker[w].pc # "idle"
  /\ crashes < MaxCrashes
  /\ crashes' = crashes + 1
  /\ worker' = [worker EXCEPT ![w] = IdleWorker]
  /\ UNCHANGED <<row, history>>

-----------------------------------------------------------------------------
(* Other writers of scheduled_actions.                                     *)

\* scheduleAttendanceClose, scheduleEventCompletion, scheduleEventPublication:
\* an upsert that resets the row whatever its status.
Reschedule(a) ==
  /\ NewEpoch(a)
  /\ \E due \in BOOLEAN : row' = [row EXCEPT ![a] = Reset(@, due)]
  /\ UNCHANGED <<worker, crashes>>

\* markAttendanceCloseCompleted, cancelEventScheduledActions: live rows only;
\* markEventPublicationCompleted, cancelEventPublication: failed ones too.
Retire(a, to) ==
  /\ row[a].status \in Live \cup {"failed"}
  /\ to \in {"completed", "cancelled"}
  /\ row' = [row EXCEPT ![a].status = to, ![a].lock = "none"]
  /\ UNCHANGED <<worker, history, crashes>>

-----------------------------------------------------------------------------

WorkerStep(w) ==
  \/ StartTick(w)
  \/ FailStaleActions(w)
  \/ ReviveStaleActions(w)
  \/ FailExhaustedPendingActions(w)
  \/ SelectDueActions(w)
  \/ \E a \in Actions : ClaimAction(w, a) \/ SkipAction(w, a)
  \/ EndTick(w)
  \/ ExecutorReturns(w)
  \/ ExecutorThrows(w)
  \/ ExecutorDefers(w)
  \/ MarkActionCompleted(w)
  \/ HandleActionFailure(w)

Time(a) == BecomesDue(a) \/ LockGoesStale(a)

Authority(a) == Reschedule(a) \/ \E to \in Statuses : Retire(a, to)

Next ==
  \/ \E w \in Workers : WorkerStep(w) \/ LoseTick(w)
  \/ \E a \in Actions : Time(a) \/ Authority(a)

Spec == Init /\ [][Next]_vars

\* setInterval keeps every process polling, an executor's database and
\* Discord calls end, and the clock moves.  Commands are under no obligation.
Fairness ==
  /\ \A w \in Workers : WF_vars(WorkerStep(w))
  /\ \A a \in Actions : WF_vars(Time(a))

FairSpec == Spec /\ Fairness

-----------------------------------------------------------------------------
(* Properties.                                                             *)

Holds(w, a) == worker[w].act = a /\ worker[w].pc \in {"run", "complete", "fail"}

\* A lock exactly on the processing rows, and no claim beyond the attempt limit.
LocksMatch ==
  \A a \in Actions :
    /\ row[a].attempt <= MaxAttempts
    /\ row[a].lock # "none" <=> row[a].status = "processing"

\* An action is held exactly between its claim and its settlement.
HoldsMatch ==
  \A w \in Workers :
    worker[w].act = NoOne <=> worker[w].pc \notin {"run", "complete", "fail"}

\* Shape of the state: columns and local state in range, locks and holds where
\* the status of the row and the step of the worker say.
TypeOK ==
  /\ row \in [Actions -> Row]
  /\ worker \in [Workers -> Worker]
  /\ history \in [Actions -> History]
  /\ crashes \in Nat
  /\ LocksMatch /\ HoldsMatch

\* "Retry count is bounded": whatever crashes, stale recoveries and races
\* happen, an executor is started at most MAX_ATTEMPTS times between two
\* authoritative resets of its action.
AttemptBudget ==
  \A a \in Actions : history[a].runs <= MaxAttempts

\* A claim is identified by (reset, attempt): a worker whose claim carries the
\* row's current reset and attempt is the row's latest claimant, so a worker
\* that lost its claim to stale recovery can never pass for the new one.
ClaimsUnique ==
  \A w \in Workers, a \in Actions :
    Holds(w, a) /\ Fence(w, a) /\ worker[w].epoch = history[a].epoch
      => history[a].owner = w

\* The fence the code really uses (status and attempt number, no reset
\* version): a worker whose settling UPDATE would match the row owns the row's
\* current claim.
FenceProvesOwnership ==
  \A w \in Workers, a \in Actions :
    Holds(w, a) /\ Fence(w, a) => history[a].owner = w

\* A completed or cancelled action comes back to life only through an
\* authoritative reset: no late worker, failure handler or recovery revives it.
TerminalIsFinal ==
  [][\A a \in Actions :
       row[a].status \in {"completed", "cancelled"} /\ row'[a] # row[a]
         => history'[a].epoch > history[a].epoch]_vars

\* A row that is due and has attempts left is never failed without having
\* been run: the only way to "failed" is a consumed last attempt.
FailsOnlyWhenExhausted ==
  [][\A a \in Actions :
       row[a].status # "failed" /\ row'[a].status = "failed"
         => row[a].attempt >= MaxAttempts]_vars

\* Durable work is not lost: every pending or processing action is eventually
\* settled, across process losses, exhausted attempts and stale locks.
EveryActionSettles ==
  \A a \in Actions : (row[a].status \in Live) ~> (row[a].status \notin Live)

\* The same system as one abstract durable job per row.
Jobs == INSTANCE DurableJobs WITH
  Jobs <- Actions,
  Budget <- MaxAttempts,
  phase <- [a \in Actions |->
             CASE row[a].status = "pending" -> "queued"
               [] row[a].status = "processing" -> "running"
               [] OTHER -> "done"],
  tries <- [a \in Actions |-> history[a].runs]

ImplementsDurableJobs == Jobs!Spec
=============================================================================
