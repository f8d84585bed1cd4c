----------------------- MODULE ScheduledActionsProofs -----------------------
(***************************************************************************)
(* The safety properties of ScheduledActions for any set of actions, any   *)
(* number of workers, any attempt limit, and any number of resets and      *)
(* process losses.                                                         *)
(***************************************************************************)
EXTENDS ScheduledActions, TLAPS

\* The attempt column counts the runs since the last reset: nothing but a claim
\* raises it, nothing but a reset lowers it.
AttemptCountsRuns ==
  \A a \in Actions : history[a].runs = row[a].attempt

\* Claims of one row are ordered by (reset, attempt): every holder's claim is
\* at most the row's current one, and only the latest claimant's equals it.
ClaimOrder ==
  \A w \in Workers, a \in Actions :
    Holds(w, a) =>
      /\ worker[w].epoch <= history[a].epoch
      /\ worker[w].epoch = history[a].epoch =>
           /\ worker[w].attempt <= row[a].attempt
           /\ worker[w].attempt = row[a].attempt => history[a].owner = w

EpochBound == \A a \in Actions : history[a].epoch <= MaxEpoch[a]

IInv == TypeOK /\ AttemptCountsRuns /\ ClaimOrder /\ EpochBound

-----------------------------------------------------------------------------

LEMMA InitIInv == Init => IInv
<1> SUFFICES ASSUME Init PROVE IInv
  OBVIOUS
<1>1. ASSUME NEW a \in Actions
      PROVE  /\ row[a] \in Row /\ row[a].attempt <= MaxAttempts
             /\ row[a].lock = "none" /\ row[a].status = "pending"
  <2>1. row[a] \in [status : {"pending"}, attempt : {0, MaxAttempts},
                    due : {FALSE}, lock : {"none"}]
    BY DEF Init
  <2>2. row[a].attempt \in Nat /\ row[a].attempt <= MaxAttempts
    <3>1. row[a].attempt \in {0, MaxAttempts}
      BY <2>1
    <3> QED
      BY <3>1, MaxAttemptsAssumption
  <2> QED
    BY <2>1, <2>2 DEF Row, Statuses
<1>2. row \in [Actions -> Row]
  BY <1>1 DEF Init
<1>3. worker \in [Workers -> Worker]
  BY DEF Init, Worker, IdleWorker, Steps
<1>4. history \in [Actions -> History]
  BY <1>1 DEF Init, History, Row
<1>5. LocksMatch
  BY <1>1 DEF LocksMatch
<1>6. \A w \in Workers : worker[w].pc = "idle" /\ worker[w].act = NoOne
  BY DEF Init, IdleWorker
<1>7. HoldsMatch
  BY <1>6 DEF HoldsMatch
<1>8. AttemptCountsRuns
  BY DEF Init, AttemptCountsRuns
<1>9. ClaimOrder
  BY <1>6 DEF ClaimOrder, Holds
<1>10. EpochBound
  BY BoundsAssumption DEF Init, EpochBound
<1> QED
  BY <1>2, <1>3, <1>4, <1>5, <1>7, <1>8, <1>9, <1>10 DEF Init, IInv, TypeOK

-----------------------------------------------------------------------------
(* Type correctness.                                                       *)

RowOK(r) ==
  /\ r \in Row
  /\ r.attempt <= MaxAttempts
  /\ r.lock # "none" <=> r.status = "processing"

WorkerOK(k) ==
  /\ k \in Worker
  /\ k.act = NoOne <=> k.pc \notin {"run", "complete", "fail"}

LEMMA RowsStep ==
  ASSUME TypeOK, NEW f, row' = [a \in Actions |-> f[a]],
         \A a \in Actions : RowOK(f[a])
  PROVE  row' \in [Actions -> Row] /\ LocksMatch'
  BY DEF RowOK, LocksMatch

LEMMA OneRow ==
  ASSUME TypeOK, NEW a \in Actions, NEW r, RowOK(r), row' = [row EXCEPT ![a] = r]
  PROVE  row' \in [Actions -> Row] /\ LocksMatch'
<1>1. row \in [Actions -> Row] /\ LocksMatch
  BY DEF TypeOK
<1>2. row' \in [Actions -> Row]
  BY <1>1 DEF RowOK
<1>3. \A b \in Actions : row'[b] = IF b = a THEN r ELSE row[b]
  BY <1>1
<1> QED
  BY <1>1, <1>2, <1>3 DEF LocksMatch, RowOK

LEMMA OneWorker ==
  ASSUME TypeOK, NEW w \in Workers, NEW k, WorkerOK(k),
         worker' = [worker EXCEPT ![w] = k]
  PROVE  worker' \in [Workers -> Worker] /\ HoldsMatch'
<1>1. worker \in [Workers -> Worker] /\ HoldsMatch
  BY DEF TypeOK
<1>2. worker' \in [Workers -> Worker]
  BY <1>1 DEF WorkerOK
<1>3. \A v \in Workers : worker'[v] = IF v = w THEN k ELSE worker[v]
  BY <1>1
<1> QED
  BY <1>1, <1>2, <1>3 DEF HoldsMatch, WorkerOK

LEMMA RowFields ==
  ASSUME TypeOK, NEW a \in Actions
  PROVE  /\ RowOK(row[a])
         /\ row[a].attempt <= MaxAttempts
         /\ row[a].status \in Statuses /\ row[a].attempt \in Nat
         /\ row[a].due \in BOOLEAN /\ row[a].lock \in {"none", "fresh", "stale"}
  BY DEF TypeOK, Row, LocksMatch, RowOK

\* The updates of a row, one by one.
LEMMA ResetOK ==
  ASSUME NEW r \in Row, NEW due \in BOOLEAN
  PROVE  RowOK(Reset(r, due))
<1>1. Reset(r, due) \in Row
  BY DEF Row, Reset, Statuses
<1>2. Reset(r, due).status = "pending" /\ Reset(r, due).lock = "none"
  BY DEF Row, Reset, Statuses
<1>3. Reset(r, due).attempt = 0
  BY DEF Row, Reset, Statuses
<1> QED
  BY <1>1, <1>2, <1>3, MaxAttemptsAssumption DEF RowOK

LEMMA ClaimedOK ==
  ASSUME NEW r \in Row, r.attempt < MaxAttempts
  PROVE  RowOK([r EXCEPT !.status = "processing", !.lock = "fresh",
                         !.attempt = @ + 1])
<1>1. r.attempt + 1 \in Nat /\ r.attempt + 1 <= MaxAttempts
  BY MaxAttemptsAssumption DEF Row
<1>2. ASSUME NEW n \in Nat, n <= MaxAttempts
      PROVE  RowOK([r EXCEPT !.status = "processing", !.lock = "fresh",
                             !.attempt = n])
  <2> DEFINE c == [r EXCEPT !.status = "processing", !.lock = "fresh", !.attempt = n]
  <2>1. c \in Row
    BY DEF Row, Statuses
  <2>2. c.status = "processing" /\ c.lock = "fresh"
    BY DEF Row, Statuses
  <2>3. c.attempt = n
    BY DEF Row, Statuses
  <2> QED
    BY <1>2, <2>1, <2>2, <2>3 DEF RowOK
<1> QED
  BY <1>1, <1>2

LEMMA UnlockedOK ==
  ASSUME NEW r \in Row, r.attempt <= MaxAttempts,
         NEW s \in Statuses, s # "processing"
  PROVE  /\ RowOK([r EXCEPT !.status = s, !.lock = "none"])
         /\ RowOK([r EXCEPT !.status = s, !.lock = "none", !.due = FALSE])
  BY DEF RowOK, Row, Statuses

LEMMA NewEpochOK ==
  ASSUME TypeOK, NEW a \in Actions, NewEpoch(a)
  PROVE  history' \in [Actions -> History]
<1>1. history[a] \in History /\ history[a].epoch + 1 \in Nat
  BY DEF TypeOK, History
<1>2. [history[a] EXCEPT !.epoch = @ + 1, !.runs = 0] \in History
  BY <1>1 DEF History
<1> QED
  BY <1>2 DEF NewEpoch, TypeOK

LEMMA WorkerFields ==
  ASSUME TypeOK, NEW w \in Workers
  PROVE  /\ WorkerOK(worker[w])
         /\ worker[w].pc \in Steps /\ worker[w].batch \in SUBSET Actions
         /\ worker[w].act \in Actions \cup {NoOne}
         /\ worker[w].attempt \in Nat /\ worker[w].epoch \in Nat
         /\ worker[w].pc \in {"run", "complete", "fail"} => worker[w].act \in Actions
  BY DEF TypeOK, Worker, HoldsMatch, WorkerOK

\* A step of worker w that only moves it to another step of the tick.
LEMMA GotoStep ==
  ASSUME TypeOK, NEW w \in Workers, NEW pc \in Steps, Goto(w, pc),
         pc \in {"run", "complete", "fail"} <=> worker[w].pc \in {"run", "complete", "fail"}
  PROVE  worker' \in [Workers -> Worker] /\ HoldsMatch'
<1> DEFINE k == [worker[w] EXCEPT !.pc = pc]
<1>1. WorkerOK(k)
  BY WorkerFields DEF WorkerOK, Worker
<1>2. worker' = [worker EXCEPT ![w] = k]
  BY DEF Goto
<1> HIDE DEF k
<1> QED
  BY <1>1, <1>2, OneWorker

LEMMA TypeStep == TypeOK /\ [Next]_vars => TypeOK'
<1> SUFFICES ASSUME TypeOK, [Next]_vars PROVE TypeOK'
  OBVIOUS
<1>1. ASSUME NEW a \in Actions, Time(a) PROVE TypeOK'
  <2>1. ASSUME NEW r, RowOK(r), row' = [row EXCEPT ![a] = r] PROVE TypeOK'
    <3>1. UNCHANGED <<worker, history, crashes>>
      BY <1>1 DEF Time, BecomesDue, LockGoesStale
    <3> QED
      BY <2>1, <3>1, OneRow DEF TypeOK, HoldsMatch
  <2>2. CASE BecomesDue(a)
    <3> DEFINE r == [row[a] EXCEPT !.due = TRUE]
    <3>1. RowOK(r)
      BY RowFields DEF RowOK, Row
    <3>2. row' = [row EXCEPT ![a] = r]
      BY <2>2 DEF BecomesDue
    <3> QED
      BY <3>1, <3>2, <2>1
  <2>3. CASE LockGoesStale(a)
    <3> DEFINE r == [row[a] EXCEPT !.lock = "stale"]
    <3>1. RowOK(r)
      BY <2>3, RowFields DEF LockGoesStale, RowOK, Row
    <3>2. row' = [row EXCEPT ![a] = r]
      BY <2>3 DEF LockGoesStale
    <3> QED
      BY <3>1, <3>2, <2>1
  <2> QED
    BY <1>1, <2>2, <2>3 DEF Time
<1>2. ASSUME NEW w \in Workers, WorkerStep(w) PROVE TypeOK'
  <2>1. CASE StartTick(w)
    BY <2>1, GotoStep DEF StartTick, TypeOK, LocksMatch, Steps
  <2>2. CASE FailStaleActions(w)
    <3> DEFINE f == [a \in Actions |->
                       IF Stale(a) /\ row[a].attempt >= MaxAttempts
                       THEN [row[a] EXCEPT !.status = "failed", !.lock = "none"]
                       ELSE row[a]]
    <3>1. \A a \in Actions : RowOK(f[a])
      BY RowFields DEF Stale, Recovered, RowOK, Row, Statuses
    <3>2. row' = [a \in Actions |-> f[a]]
      BY <2>2 DEF FailStaleActions
    <3>3. row' \in [Actions -> Row] /\ LocksMatch'
      <4> HIDE DEF f
      <4> QED
        BY <3>1, <3>2, RowsStep
    <3> QED
      BY <2>2, <3>3, GotoStep DEF FailStaleActions, TypeOK, Steps
  <2>14. CASE ReviveStaleActions(w)
    <3> DEFINE f == [a \in Actions |->
                       IF Stale(a) /\ row[a].attempt < MaxAttempts
                       THEN Recovered(a) ELSE row[a]]
    <3>1. \A a \in Actions : RowOK(f[a])
      BY RowFields DEF Stale, Recovered, RowOK, Row, Statuses
    <3>2. row' = [a \in Actions |-> f[a]]
      BY <2>14 DEF ReviveStaleActions
    <3>3. row' \in [Actions -> Row] /\ LocksMatch'
      <4> HIDE DEF f
      <4> QED
        BY <3>1, <3>2, RowsStep
    <3> QED
      BY <2>14, <3>3, GotoStep DEF ReviveStaleActions, TypeOK, Steps
  <2>3. CASE FailExhaustedPendingActions(w)
    <3> DEFINE f == [a \in Actions |->
                       IF row[a].status = "pending" /\ row[a].attempt >= MaxAttempts
                       THEN [row[a] EXCEPT !.status = "failed", !.lock = "none"]
                       ELSE row[a]]
    <3>1. \A a \in Actions : RowOK(f[a])
      BY RowFields DEF RowOK, Row, Statuses
    <3>2. row' = [a \in Actions |-> f[a]]
      BY <2>3 DEF FailExhaustedPendingActions
    <3>3. row' \in [Actions -> Row] /\ LocksMatch'
      <4> HIDE DEF f
      <4> QED
        BY <3>1, <3>2, RowsStep
    <3> QED
      BY <2>3, <3>3, GotoStep DEF FailExhaustedPendingActions, TypeOK, Steps
  <2>4. CASE SelectDueActions(w)
    <3>1. PICK batch \in SUBSET Due :
            worker' = [worker EXCEPT ![w].pc = "claim", ![w].batch = batch]
      BY <2>4 DEF SelectDueActions
    <3> DEFINE k == [worker[w] EXCEPT !.pc = "claim", !.batch = batch]
    <3>2. WorkerOK(k)
      BY <2>4, WorkerFields DEF SelectDueActions, WorkerOK, Worker, Due, Steps
    <3>3. worker' = [worker EXCEPT ![w] = k]
      BY <3>1, WorkerFields DEF TypeOK
    <3> HIDE DEF k
    <3> QED
      BY <2>4, <3>2, <3>3, OneWorker DEF SelectDueActions, TypeOK, LocksMatch
  <2>5. ASSUME NEW a \in Actions, ClaimAction(w, a) PROVE TypeOK'
    <3> DEFINE r == [row[a] EXCEPT !.status = "processing", !.lock = "fresh",
                                   !.attempt = @ + 1]
               k == [pc |-> "run", batch |-> worker[w].batch \ {a}, act |-> a,
                     attempt |-> row[a].attempt + 1, epoch |-> history[a].epoch]
    <3>1. RowOK(r)
      BY <2>5, RowFields, ClaimedOK DEF ClaimAction, Claimable, RowOK
    <3>2. WorkerOK(k)
      <4>1. history[a].epoch \in Nat
        BY DEF TypeOK, History
      <4>2. row[a].attempt + 1 \in Nat
        BY RowFields
      <4>3. worker[w].batch \ {a} \in SUBSET Actions /\ "run" \in Steps /\ a # NoOne
        BY WorkerFields, NoOneAssumption DEF Steps
      <4> QED
        BY <4>1, <4>2, <4>3 DEF WorkerOK, Worker
    <3>3. row' = [row EXCEPT ![a] = r] /\ worker' = [worker EXCEPT ![w] = k]
      BY <2>5 DEF ClaimAction, TypeOK
    <3>4. history' \in [Actions -> History]
      BY <2>5 DEF ClaimAction, TypeOK, History
    <3>5. crashes' \in Nat
      BY <2>5 DEF ClaimAction, TypeOK
    <3> HIDE DEF r, k
    <3> QED
      BY <3>1, <3>2, <3>3, <3>4, <3>5, OneRow, OneWorker DEF TypeOK
  <2>6. ASSUME NEW a \in Actions, SkipAction(w, a) PROVE TypeOK'
    <3> DEFINE k == [worker[w] EXCEPT !.batch = @ \ {a}]
    <3>1. WorkerOK(k)
      BY WorkerFields DEF WorkerOK, Worker
    <3>2. worker' = [worker EXCEPT ![w] = k]
      BY <2>6 DEF SkipAction
    <3> HIDE DEF k
    <3> QED
      BY <2>6, <3>1, <3>2, OneWorker DEF SkipAction, TypeOK, LocksMatch
  <2>7. CASE EndTick(w)
    <3>1. WorkerOK(IdleWorker)
      BY NoOneAssumption DEF WorkerOK, Worker, IdleWorker, Steps
    <3> QED
      BY <2>7, <3>1, OneWorker DEF EndTick, TypeOK, LocksMatch
  <2>8. CASE ExecutorReturns(w)
    BY <2>8, GotoStep DEF ExecutorReturns, TypeOK, LocksMatch, Steps
  <2>9. CASE ExecutorThrows(w)
    BY <2>9, GotoStep DEF ExecutorThrows, TypeOK, LocksMatch, Steps
  <2>10. CASE ExecutorDefers(w)
    <3> DEFINE a == worker[w].act
               r == Reset(row[a], FALSE)
    <3>1. a \in Actions
      BY <2>10, WorkerFields DEF ExecutorDefers
    <3>2. worker' \in [Workers -> Worker] /\ HoldsMatch'
      BY <2>10, GotoStep DEF ExecutorDefers, Steps
    <3>3. CASE Fence(w, a)
      <4>1. RowOK(r)
        BY <3>1, RowFields, ResetOK DEF RowOK
      <4>2. row' = [row EXCEPT ![a] = r]
        BY <2>10, <3>1, <3>3 DEF ExecutorDefers, Reset, TypeOK
      <4>3. history' \in [Actions -> History]
        BY <2>10, <3>1, <3>3, NewEpochOK DEF ExecutorDefers
      <4>4. row' \in [Actions -> Row] /\ LocksMatch'
        <5> HIDE DEF r, a
        <5> QED
          BY <3>1, <4>1, <4>2, OneRow
      <4> QED
        BY <2>10, <3>2, <4>3, <4>4 DEF ExecutorDefers, TypeOK
    <3>4. CASE ~Fence(w, a)
      BY <2>10, <3>2, <3>4 DEF ExecutorDefers, TypeOK, LocksMatch
    <3> QED
      BY <3>3, <3>4
  <2>11. ASSUME NEW r, Settle(w, r), worker[w].pc \in {"complete", "fail"},
                Fence(w, worker[w].act) => RowOK(r)
         PROVE  TypeOK'
    <3> DEFINE a == worker[w].act
               k == [worker[w] EXCEPT !.pc = "claim", !.act = NoOne,
                                      !.attempt = 0, !.epoch = 0]
    <3>1. a \in Actions
      BY <2>11, WorkerFields
    <3>2. WorkerOK(k)
      BY WorkerFields DEF WorkerOK, Worker, Steps
    <3>3. worker' = [worker EXCEPT ![w] = k]
      BY <2>11 DEF Settle, TypeOK
    <3>4. worker' \in [Workers -> Worker] /\ HoldsMatch'
      <4> HIDE DEF k
      <4> QED
        BY <3>2, <3>3, OneWorker
    <3>5. row' \in [Actions -> Row] /\ LocksMatch'
      <4>1. CASE Fence(w, a)
        BY <2>11, <3>1, <4>1, OneRow DEF Settle
      <4>2. CASE ~Fence(w, a)
        BY <2>11, <4>2 DEF Settle, TypeOK, LocksMatch
      <4> QED
        BY <4>1, <4>2
    <3> QED
      BY <2>11, <3>4, <3>5 DEF Settle, TypeOK
  <2>12. CASE MarkActionCompleted(w)
    <3> DEFINE a == worker[w].act
               r == [row[a] EXCEPT !.status = "completed", !.lock = "none"]
    <3>1. RowOK(r)
      BY <2>12, RowFields, WorkerFields, UnlockedOK
      DEF MarkActionCompleted, RowOK, Statuses
    <3> QED
      BY <2>11, <2>12, <3>1 DEF MarkActionCompleted
  <2>13. CASE HandleActionFailure(w)
    <3> DEFINE a == worker[w].act
               r == IF worker[w].attempt >= MaxAttempts
                    THEN [row[a] EXCEPT !.status = "failed", !.lock = "none"]
                    ELSE [row[a] EXCEPT !.status = "pending", !.lock = "none",
                                        !.due = FALSE]
    <3>1. RowOK(r)
      BY <2>13, RowFields, WorkerFields, UnlockedOK
      DEF HandleActionFailure, RowOK, Statuses
    <3> QED
      BY <2>11, <2>13, <3>1 DEF HandleActionFailure
  <2> QED
    BY <1>2, <2>1, <2>2, <2>3, <2>4, <2>5, <2>6, <2>7, <2>8, <2>9, <2>10,
       <2>12, <2>13, <2>14 DEF WorkerStep
<1>3. ASSUME NEW w \in Workers, LoseTick(w) PROVE TypeOK'
  <2>1. WorkerOK(IdleWorker)
    BY NoOneAssumption DEF WorkerOK, Worker, IdleWorker, Steps
  <2>2. worker' \in [Workers -> Worker] /\ HoldsMatch'
    BY <1>3, <2>1, OneWorker DEF LoseTick
  <2> QED
    BY <1>3, <2>2 DEF LoseTick, TypeOK, LocksMatch
<1>4. ASSUME NEW a \in Actions, Authority(a) PROVE TypeOK'
  <2>1. CASE Reschedule(a)
    <3>1. PICK due \in BOOLEAN : row' = [row EXCEPT ![a] = Reset(@, due)]
      BY <2>1 DEF Reschedule
    <3> DEFINE r == Reset(row[a], due)
    <3>2. RowOK(r)
      BY RowFields, ResetOK DEF RowOK
    <3>3. row' = [row EXCEPT ![a] = r]
      BY <3>1 DEF Reset, TypeOK
    <3>4. history' \in [Actions -> History]
      BY <2>1, NewEpochOK DEF Reschedule
    <3> HIDE DEF r
    <3> QED
      BY <2>1, <3>2, <3>3, <3>4, OneRow DEF Reschedule, TypeOK, HoldsMatch
  <2>2. ASSUME NEW to \in Statuses, Retire(a, to) PROVE TypeOK'
    <3> DEFINE r == [row[a] EXCEPT !.status = to, !.lock = "none"]
    <3>1. RowOK(r)
      BY <2>2, RowFields DEF Retire, RowOK, Row
    <3>2. row' = [row EXCEPT ![a] = r]
      BY <2>2 DEF Retire, TypeOK
    <3> HIDE DEF r
    <3> QED
      BY <2>2, <3>1, <3>2, OneRow DEF Retire, TypeOK, HoldsMatch
  <2> QED
    BY <1>4, <2>1, <2>2 DEF Authority
<1>5. CASE UNCHANGED vars
  BY <1>5 DEF vars, TypeOK, LocksMatch, HoldsMatch
<1> QED
  BY <1>1, <1>2, <1>3, <1>4, <1>5 DEF Next
-----------------------------------------------------------------------------
(* What a step may do to one row, its history and its holders.             *)

\* Neither the attempt number nor the ghost history of the row changes, and a
\* status only changes from pending, processing or failed; it becomes failed
\* only when the attempts are used up.
Quiet(a) ==
  /\ history'[a] = history[a]
  /\ row'[a].attempt = row[a].attempt
  /\ row[a].status \in {"completed", "cancelled"} => row'[a] = row[a]
  /\ row'[a].status = "failed" /\ row[a].status # "failed"
       => row[a].attempt >= MaxAttempts

LEMMA FreshEpoch ==
  ASSUME TypeOK, NEW a \in Actions, NewEpoch(a), NEW due \in BOOLEAN,
         row'[a] = Reset(row[a], due)
  PROVE  /\ history'[a].epoch = history[a].epoch + 1 /\ history'[a].runs = 0
         /\ history'[a].epoch <= MaxEpoch[a] /\ row'[a].attempt = 0
         /\ row'[a].status = "pending"
<1>1. row[a] \in Row /\ history[a] \in History
  BY DEF TypeOK
<1>2. row'[a].attempt = 0 /\ row'[a].status = "pending"
  BY <1>1 DEF Row, Statuses, Reset
<1>3. history'[a] = [history[a] EXCEPT !.epoch = @ + 1, !.runs = 0]
  BY DEF NewEpoch, TypeOK
<1>4. history'[a].epoch = history[a].epoch + 1 /\ history'[a].runs = 0
  BY <1>1, <1>3 DEF History
<1> QED
  BY <1>1, <1>2, <1>4, BoundsAssumption DEF NewEpoch, History

LEMMA RowStep ==
  ASSUME TypeOK, [Next]_vars, NEW a \in Actions
  PROVE  Quiet(a) \/ (\E w \in Workers : ClaimAction(w, a)) \/
         (history'[a].epoch = history[a].epoch + 1 /\ history'[a].runs = 0
          /\ history'[a].epoch <= MaxEpoch[a] /\ row'[a].attempt = 0
          /\ row'[a].status = "pending")
<1> DEFINE Fresh == history'[a].epoch = history[a].epoch + 1 /\ history'[a].runs = 0
                    /\ history'[a].epoch <= MaxEpoch[a] /\ row'[a].attempt = 0
                    /\ row'[a].status = "pending"
<1> SUFFICES Quiet(a) \/ (\E w \in Workers : ClaimAction(w, a)) \/ Fresh
  OBVIOUS
<1>0. row \in [Actions -> Row] /\ history \in [Actions -> History] /\ row[a] \in Row
  BY DEF TypeOK
<1>1. ASSUME row' = row, history' = history PROVE Quiet(a)
  BY <1>1 DEF Quiet
<1>2. ASSUME NEW b \in Actions, Time(b) PROVE Quiet(a)
  <2>1. history' = history
    BY <1>2 DEF Time, BecomesDue, LockGoesStale
  <2>2. CASE a # b
    BY <1>0, <1>2, <2>1, <2>2 DEF Time, BecomesDue, LockGoesStale, Quiet
  <2>3. CASE a = b /\ BecomesDue(b)
    BY <1>0, <2>1, <2>3 DEF BecomesDue, Quiet, Row
  <2>4. CASE a = b /\ LockGoesStale(b)
    <3>1. row[a].status = "processing"
      BY <2>4, RowFields DEF LockGoesStale, RowOK
    <3> QED
      BY <1>0, <2>1, <2>4, <3>1 DEF LockGoesStale, Quiet, Row
  <2> QED
    BY <1>2, <2>2, <2>3, <2>4 DEF Time
<1>3. ASSUME NEW w \in Workers, WorkerStep(w) \/ LoseTick(w)
      PROVE  Quiet(a) \/ (\E v \in Workers : ClaimAction(v, a)) \/ Fresh
  <2>1. CASE StartTick(w) \/ SelectDueActions(w) \/ EndTick(w) \/ ExecutorReturns(w)
             \/ ExecutorThrows(w) \/ LoseTick(w) \/ \E b \in Actions : SkipAction(w, b)
    BY <2>1, <1>1 DEF StartTick, SelectDueActions, EndTick, ExecutorReturns,
                      ExecutorThrows, LoseTick, SkipAction
  <2>2. CASE FailStaleActions(w)
    <3>1. history' = history
      BY <2>2 DEF FailStaleActions
    <3>2. CASE Stale(a) /\ row[a].attempt >= MaxAttempts
      <4>1. row'[a] = [row[a] EXCEPT !.status = "failed", !.lock = "none"]
        BY <2>2, <3>2 DEF FailStaleActions
      <4> QED
        BY <1>0, <3>1, <3>2, <4>1, RowFields DEF Quiet, Stale, Row, Statuses
    <3>3. CASE ~(Stale(a) /\ row[a].attempt >= MaxAttempts)
      <4>1. row'[a] = row[a]
        BY <2>2, <3>3 DEF FailStaleActions
      <4> QED
        BY <3>1, <4>1 DEF Quiet
    <3> QED
      BY <3>2, <3>3
  <2>9. CASE ReviveStaleActions(w)
    <3>1. history' = history
      BY <2>9 DEF ReviveStaleActions
    <3>2. CASE Stale(a) /\ row[a].attempt < MaxAttempts
      <4>1. row'[a] = [row[a] EXCEPT !.status = "pending", !.lock = "none"]
        BY <2>9, <3>2 DEF ReviveStaleActions, Recovered
      <4> QED
        BY <1>0, <3>1, <3>2, <4>1, RowFields DEF Quiet, Stale, Row, Statuses
    <3>3. CASE ~(Stale(a) /\ row[a].attempt < MaxAttempts)
      <4>1. row'[a] = row[a]
        BY <2>9, <3>3 DEF ReviveStaleActions
      <4> QED
        BY <3>1, <4>1 DEF Quiet
    <3> QED
      BY <3>2, <3>3
  <2>3. CASE FailExhaustedPendingActions(w)
    <3>1. history' = history
      BY <2>3 DEF FailExhaustedPendingActions
    <3>2. CASE row[a].status = "pending" /\ row[a].attempt >= MaxAttempts
      <4>1. row'[a] = [row[a] EXCEPT !.status = "failed", !.lock = "none"]
        BY <2>3, <3>2 DEF FailExhaustedPendingActions
      <4> QED
        BY <1>0, <3>1, <3>2, <4>1 DEF Quiet, Row, Statuses
    <3>3. CASE ~(row[a].status = "pending" /\ row[a].attempt >= MaxAttempts)
      <4>1. row'[a] = row[a]
        BY <2>3, <3>3 DEF FailExhaustedPendingActions
      <4> QED
        BY <3>1, <4>1 DEF Quiet
    <3> QED
      BY <3>2, <3>3
  <2>4. ASSUME NEW b \in Actions, ClaimAction(w, b)
        PROVE  Quiet(a) \/ (\E v \in Workers : ClaimAction(v, a))
    <3>1. CASE a = b
      BY <2>4, <3>1
    <3>2. CASE a # b
      BY <1>0, <2>4, <3>2 DEF ClaimAction, Quiet
    <3> QED
      BY <3>1, <3>2
  <2>5. CASE ExecutorDefers(w)
    <3> DEFINE b == worker[w].act
    <3>1. b \in Actions
      BY <2>5, WorkerFields DEF ExecutorDefers
    <3>2. CASE ~Fence(w, b)
      BY <2>5, <3>2, <1>1 DEF ExecutorDefers
    <3>3. CASE Fence(w, b) /\ a # b
      BY <1>0, <2>5, <3>1, <3>3 DEF ExecutorDefers, NewEpoch, Quiet
    <3>4. CASE Fence(w, b) /\ a = b
      <4>1. NewEpoch(a) /\ row'[a] = Reset(row[a], FALSE)
        BY <1>0, <2>5, <3>4 DEF ExecutorDefers, Reset
      <4> QED
        BY <1>0, <4>1, FreshEpoch
    <3> QED
      BY <3>2, <3>3, <3>4
  <2>6. ASSUME NEW r, Settle(w, r), worker[w].pc \in {"complete", "fail"},
               Fence(w, worker[w].act) => r.attempt = row[worker[w].act].attempt,
               Fence(w, worker[w].act) /\ r.status = "failed"
                 => row[worker[w].act].attempt >= MaxAttempts
        PROVE  Quiet(a)
    <3>1. history' = history /\ worker[w].act \in Actions
      BY <2>6, WorkerFields DEF Settle
    <3>2. CASE row'[a] = row[a]
      BY <3>1, <3>2 DEF Quiet
    <3>3. CASE row'[a] # row[a]
      <4>1. a = worker[w].act /\ Fence(w, a) /\ row'[a] = r
        BY <1>0, <2>6, <3>1, <3>3 DEF Settle
      <4>2. row[a].status = "processing"
        BY <4>1 DEF Fence
      <4> QED
        BY <2>6, <3>1, <4>1, <4>2 DEF Quiet
    <3> QED
      BY <3>2, <3>3
  <2>7. CASE MarkActionCompleted(w)
    <3> DEFINE b == worker[w].act
               r == [row[b] EXCEPT !.status = "completed", !.lock = "none"]
    <3>1. b \in Actions /\ row[b] \in Row
      BY <2>7, WorkerFields, RowFields DEF MarkActionCompleted, RowOK
    <3>2. r.attempt = row[b].attempt /\ r.status # "failed"
      BY <3>1 DEF Row, Statuses
    <3> QED
      BY <2>6, <2>7, <3>2 DEF MarkActionCompleted
  <2>8. CASE HandleActionFailure(w)
    <3> DEFINE b == worker[w].act
               r == IF worker[w].attempt >= MaxAttempts
                    THEN [row[b] EXCEPT !.status = "failed", !.lock = "none"]
                    ELSE [row[b] EXCEPT !.status = "pending", !.lock = "none",
                                        !.due = FALSE]
    <3>1. b \in Actions /\ row[b] \in Row
      BY <2>8, WorkerFields, RowFields DEF HandleActionFailure, RowOK
    <3>2. r.attempt = row[b].attempt
          /\ (r.status = "failed" => worker[w].attempt >= MaxAttempts)
      BY <3>1 DEF Row, Statuses
    <3> QED
      BY <2>6, <2>8, <3>2 DEF HandleActionFailure, Fence
  <2> QED
    BY <1>3, <2>1, <2>2, <2>3, <2>4, <2>5, <2>7, <2>8, <2>9 DEF WorkerStep
<1>4. ASSUME NEW b \in Actions, Authority(b) PROVE Quiet(a) \/ Fresh
  <2>1. CASE Reschedule(b)
    <3>1. CASE a # b
      BY <1>0, <2>1, <3>1 DEF Reschedule, NewEpoch, Quiet
    <3>2. CASE a = b
      <4>1. PICK due \in BOOLEAN : row' = [row EXCEPT ![a] = Reset(@, due)]
        BY <2>1, <3>2 DEF Reschedule
      <4>2. NewEpoch(a) /\ row'[a] = Reset(row[a], due)
        BY <1>0, <2>1, <3>2, <4>1 DEF Reschedule, Reset
      <4> QED
        BY <1>0, <4>2, FreshEpoch
    <3> QED
      BY <3>1, <3>2
  <2>2. ASSUME NEW to \in Statuses, Retire(b, to) PROVE Quiet(a)
    <3>1. history' = history
      BY <2>2 DEF Retire
    <3>2. CASE a # b
      BY <1>0, <2>2, <3>1, <3>2 DEF Retire, Quiet
    <3>3. CASE a = b
      <4>1. row'[a] = [row[a] EXCEPT !.status = to, !.lock = "none"]
        BY <1>0, <2>2, <3>3 DEF Retire
      <4>2. row'[a].attempt = row[a].attempt /\ row'[a].status = to
        BY <1>0, <4>1 DEF Row, Statuses
      <4> QED
        BY <2>2, <3>1, <3>3, <4>2 DEF Retire, Live, Quiet
    <3> QED
      BY <3>2, <3>3
  <2> QED
    BY <1>4, <2>1, <2>2 DEF Authority
<1>5. CASE UNCHANGED vars
  BY <1>1, <1>5 DEF vars
<1> QED
  BY <1>2, <1>3, <1>4, <1>5 DEF Next
\* A worker that holds an action after a step held it before with the same
\* claim, or has just claimed it.
LEMMA HolderStep ==
  ASSUME TypeOK, [Next]_vars, NEW w \in Workers, NEW a \in Actions, Holds(w, a)'
  PROVE  \/ ClaimAction(w, a)
         \/ Holds(w, a) /\ worker'[w].attempt = worker[w].attempt
                        /\ worker'[w].epoch = worker[w].epoch
<1>0. worker \in [Workers -> Worker] /\ worker[w] \in Worker /\ a # NoOne
  BY NoOneAssumption DEF TypeOK
<1>1. ASSUME worker'[w] = worker[w]
      PROVE  Holds(w, a) /\ worker'[w].attempt = worker[w].attempt
                         /\ worker'[w].epoch = worker[w].epoch
  BY <1>1 DEF Holds
<1>2. CASE UNCHANGED vars \/ \E b \in Actions : Time(b) \/ Authority(b)
  <2>1. worker' = worker
    BY <1>2 DEF vars, Time, BecomesDue, LockGoesStale, Authority, Reschedule, Retire
  <2> QED
    BY <1>1, <2>1
<1>3. ASSUME NEW v \in Workers, WorkerStep(v) \/ LoseTick(v), v # w
      PROVE  worker'[w] = worker[w]
  BY <1>0, <1>3 DEF WorkerStep, LoseTick, StartTick, FailStaleActions,
     ReviveStaleActions,
     FailExhaustedPendingActions, SelectDueActions, ClaimAction, SkipAction, EndTick,
     ExecutorReturns, ExecutorThrows, ExecutorDefers, MarkActionCompleted,
     HandleActionFailure, Settle, Goto
<1>4. CASE LoseTick(w) \/ EndTick(w)
  BY <1>0, <1>4 DEF LoseTick, EndTick, IdleWorker, Holds
<1>5. CASE \/ StartTick(w) \/ FailStaleActions(w) \/ ReviveStaleActions(w)
           \/ FailExhaustedPendingActions(w)
  <2>1. worker'[w].pc \notin {"run", "complete", "fail"}
    BY <1>0, <1>5 DEF StartTick, FailStaleActions, ReviveStaleActions, FailExhaustedPendingActions,
       Goto, Worker, Steps
  <2> QED
    BY <2>1 DEF Holds
<1>6. CASE SelectDueActions(w) \/ \E b \in Actions : SkipAction(w, b)
  <2>1. worker'[w].pc \notin {"run", "complete", "fail"}
    BY <1>0, <1>6 DEF SelectDueActions, SkipAction, Worker, Steps
  <2> QED
    BY <2>1 DEF Holds
<1>7. CASE MarkActionCompleted(w) \/ HandleActionFailure(w)
  <2>1. worker'[w].pc = "claim"
    BY <1>0, <1>7 DEF MarkActionCompleted, HandleActionFailure, Settle, Worker, Steps
  <2> QED
    BY <2>1 DEF Holds
<1>8. CASE ExecutorReturns(w) \/ ExecutorThrows(w) \/ ExecutorDefers(w)
  <2>1. worker[w].pc = "run" /\ (Goto(w, "complete") \/ Goto(w, "fail"))
    BY <1>8 DEF ExecutorReturns, ExecutorThrows, ExecutorDefers
  <2>2. /\ worker'[w].act = worker[w].act /\ worker'[w].attempt = worker[w].attempt
        /\ worker'[w].epoch = worker[w].epoch
    BY <1>0, <2>1 DEF Goto, Worker, Steps
  <2> QED
    BY <2>1, <2>2 DEF Holds
<1>9. ASSUME NEW b \in Actions, ClaimAction(w, b) PROVE ClaimAction(w, a)
  <2>1. worker'[w].act = b
    BY <1>0, <1>9 DEF ClaimAction
  <2> QED
    BY <1>9, <2>1 DEF Holds
<1>10. ASSUME WorkerStep(w)
       PROVE  \/ ClaimAction(w, a)
              \/ Holds(w, a) /\ worker'[w].attempt = worker[w].attempt
                             /\ worker'[w].epoch = worker[w].epoch
  BY <1>4, <1>5, <1>6, <1>7, <1>8, <1>9, <1>10 DEF WorkerStep
<1> QED
  BY <1>1, <1>2, <1>3, <1>4, <1>10 DEF Next

\* What a claim does to the row it claims.
LEMMA ClaimStep ==
  ASSUME TypeOK, NEW w \in Workers, NEW a \in Actions, ClaimAction(w, a)
  PROVE  /\ row[a].status = "pending" /\ row'[a].status = "processing"
         /\ row'[a].attempt = row[a].attempt + 1
         /\ history'[a].epoch = history[a].epoch
         /\ history'[a].runs = history[a].runs + 1
         /\ history'[a].owner = w
         /\ worker'[w].attempt = row[a].attempt + 1
         /\ worker'[w].epoch = history[a].epoch
<1>1. row[a] \in Row /\ history[a] \in History /\ worker[w] \in Worker
  BY DEF TypeOK
<1>2. row'[a] = [row[a] EXCEPT !.status = "processing", !.lock = "fresh",
                               !.attempt = @ + 1]
  BY DEF ClaimAction, TypeOK
<1>3. history'[a] = [history[a] EXCEPT !.owner = w, !.runs = @ + 1]
  BY DEF ClaimAction, TypeOK
<1>4. worker'[w].attempt = row[a].attempt + 1 /\ worker'[w].epoch = history[a].epoch
  BY DEF ClaimAction, TypeOK
<1>5. row'[a].status = "processing" /\ row'[a].attempt = row[a].attempt + 1
  BY <1>1, <1>2 DEF Row, Statuses
<1>6. /\ history'[a].epoch = history[a].epoch /\ history'[a].owner = w
      /\ history'[a].runs = history[a].runs + 1
  BY <1>1, <1>3 DEF History
<1> QED
  BY <1>4, <1>5, <1>6 DEF ClaimAction, Claimable

-----------------------------------------------------------------------------
(* The inductive invariant.                                                *)

LEMMA NextIInv == IInv /\ [Next]_vars => IInv'
<1> SUFFICES ASSUME IInv, [Next]_vars PROVE IInv'
  OBVIOUS
<1>1. TypeOK /\ TypeOK'
  BY TypeStep DEF IInv
<1>2. \A a \in Actions :
        /\ row[a].attempt \in Nat /\ history[a].epoch \in Nat /\ history[a].runs \in Nat
        /\ history'[a].epoch \in Nat
  BY <1>1 DEF TypeOK, Row, History
<1>3. AttemptCountsRuns'
  <2> SUFFICES ASSUME NEW a \in Actions PROVE history'[a].runs = row'[a].attempt
    BY DEF AttemptCountsRuns
  <2>1. history[a].runs = row[a].attempt
    BY DEF IInv, AttemptCountsRuns
  <2> QED
    BY <1>1, <2>1, RowStep, ClaimStep DEF Quiet
<1>4. EpochBound'
  <2> SUFFICES ASSUME NEW a \in Actions PROVE history'[a].epoch <= MaxEpoch[a]
    BY DEF EpochBound
  <2> QED
    BY <1>1, RowStep, ClaimStep DEF Quiet, IInv, EpochBound
<1>5. ClaimOrder'
  <2> SUFFICES ASSUME NEW w \in Workers, NEW a \in Actions, Holds(w, a)'
               PROVE  /\ worker'[w].epoch <= history'[a].epoch
                      /\ worker'[w].epoch = history'[a].epoch =>
                           /\ worker'[w].attempt <= row'[a].attempt
                           /\ worker'[w].attempt = row'[a].attempt
                                => history'[a].owner = w
    BY DEF ClaimOrder
  <2>1. CASE ClaimAction(w, a)
    BY <1>1, <1>2, <2>1, ClaimStep
  <2>2. CASE /\ Holds(w, a)
             /\ worker'[w].attempt = worker[w].attempt
             /\ worker'[w].epoch = worker[w].epoch
    <3>1. /\ worker[w].epoch \in Nat /\ worker[w].attempt \in Nat
          /\ worker[w].epoch <= history[a].epoch
          /\ worker[w].epoch = history[a].epoch =>
               /\ worker[w].attempt <= row[a].attempt
               /\ worker[w].attempt = row[a].attempt => history[a].owner = w
      BY <1>1, <2>2, WorkerFields DEF IInv, ClaimOrder
    <3>2. CASE Quiet(a)
      BY <2>2, <3>1, <3>2 DEF Quiet
    <3>3. ASSUME NEW v \in Workers, ClaimAction(v, a)
          PROVE  /\ history'[a].epoch = history[a].epoch
                 /\ row'[a].attempt = row[a].attempt + 1
      BY <1>1, <3>3, ClaimStep
    <3>4. CASE history'[a].epoch = history[a].epoch + 1
      BY <1>2, <2>2, <3>1, <3>4
    <3> QED
      BY <1>1, <1>2, <2>2, <3>1, <3>2, <3>3, <3>4, RowStep
  <2> QED
    BY <1>1, <2>1, <2>2, HolderStep
<1> QED
  BY <1>1, <1>3, <1>4, <1>5 DEF IInv

\* The inductive invariant holds in every reachable state.
THEOREM Invariance == Spec => []IInv
  BY InitIInv, NextIInv, PTL DEF Spec

-----------------------------------------------------------------------------
(* The properties the runs check.                                          *)

\* Rows, workers and history stay well-formed; a lock is held exactly by the
\* processing rows, an action exactly between its claim and its settlement.
THEOREM TypeCorrect == Spec => []TypeOK
<1>1. IInv => TypeOK
  BY DEF IInv
<1> QED
  BY <1>1, Invariance, PTL

\* Between two resets an executor is started at most MAX_ATTEMPTS times.
THEOREM BudgetHolds == Spec => []AttemptBudget
<1>1. IInv => AttemptBudget
  BY RowFields DEF IInv, AttemptCountsRuns, AttemptBudget
<1> QED
  BY <1>1, Invariance, PTL

\* The row's current (reset, attempt) identifies the worker that owns it.
THEOREM ClaimsAreUnique == Spec => []ClaimsUnique
<1>1. IInv => ClaimsUnique
  BY DEF IInv, ClaimOrder, ClaimsUnique, Fence
<1> QED
  BY <1>1, Invariance, PTL

\* As long as no authority resets a row, the fence of the code (status and
\* attempt number) proves ownership.
THEOREM FenceIsSound ==
  ASSUME \A a \in Actions : MaxEpoch[a] = 0
  PROVE  Spec => []FenceProvesOwnership
<1>1. IInv => FenceProvesOwnership
  <2> SUFFICES ASSUME IInv, NEW w \in Workers, NEW a \in Actions,
                      Holds(w, a), Fence(w, a)
               PROVE  history[a].owner = w
    BY DEF FenceProvesOwnership
  <2>1. history[a].epoch \in Nat /\ history[a].epoch <= 0 /\ worker[w].epoch \in Nat
    BY DEF IInv, EpochBound, TypeOK, History, Worker
  <2>2. worker[w].epoch <= history[a].epoch
    BY DEF IInv, ClaimOrder
  <2>3. worker[w].epoch = history[a].epoch
    BY <2>1, <2>2
  <2> QED
    BY <2>3 DEF IInv, ClaimOrder, Fence
<1> QED
  BY <1>1, Invariance, PTL

\* A completed or cancelled row changes only through an authoritative reset.
THEOREM TerminalHolds == Spec => TerminalIsFinal
<1>1. IInv /\ [Next]_vars
        => [\A a \in Actions :
              row[a].status \in {"completed", "cancelled"} /\ row'[a] # row[a]
                => history'[a].epoch > history[a].epoch]_vars
  <2> SUFFICES ASSUME IInv, [Next]_vars, NEW a \in Actions,
                      row[a].status \in {"completed", "cancelled"}, row'[a] # row[a]
               PROVE  history'[a].epoch > history[a].epoch
    OBVIOUS
  <2>1. TypeOK /\ history[a].epoch \in Nat
    BY DEF IInv, TypeOK, History
  <2> QED
    BY <2>1, RowStep, ClaimStep DEF Quiet
<1> QED
  BY <1>1, Invariance, PTL DEF Spec, TerminalIsFinal

\* A row fails only when its attempts are used up.
THEOREM FailureHolds == Spec => FailsOnlyWhenExhausted
<1>1. IInv /\ [Next]_vars
        => [\A a \in Actions :
              row[a].status # "failed" /\ row'[a].status = "failed"
                => row[a].attempt >= MaxAttempts]_vars
  <2> SUFFICES ASSUME IInv, [Next]_vars, NEW a \in Actions,
                      row[a].status # "failed", row'[a].status = "failed"
               PROVE  row[a].attempt >= MaxAttempts
    OBVIOUS
  <2> QED
    BY RowStep, ClaimStep DEF Quiet, IInv
<1> QED
  BY <1>1, Invariance, PTL DEF Spec, FailsOnlyWhenExhausted
-----------------------------------------------------------------------------
(* The rows implement abstract durable jobs.                               *)

Phase(r) == CASE r.status = "pending" -> "queued"
              [] r.status = "processing" -> "running"
              [] OTHER -> "done"

\* The refinement mapping, before and after a step.
PhaseMap == [a \in Actions |-> Phase(row[a])]
TriesMap == [a \in Actions |-> history[a].runs]

\* A step that changes no phase and no run count is a stutter of the jobs.
LEMMA JobsStutter ==
  ASSUME \A a \in Actions : Phase(row'[a]) = Phase(row[a])
                            /\ history'[a].runs = history[a].runs
  PROVE  PhaseMap' = PhaseMap /\ TriesMap' = TriesMap
  BY DEF PhaseMap, TriesMap, Phase

JobsNext == Jobs!Next \/ (PhaseMap' = PhaseMap /\ TriesMap' = TriesMap)

\* Rows that leave pending or processing for good.
LEMMA JobsEnd ==
  ASSUME history' = history, NEW js \in SUBSET Actions,
         \A a \in js : Phase(row[a]) # "done" /\ Phase(row'[a]) = "done",
         \A a \in Actions \ js : Phase(row'[a]) = Phase(row[a])
  PROVE  JobsNext
<1>1. Jobs!End(js)
  BY DEF Jobs!End, Phase
<1> QED
  BY <1>1 DEF JobsNext, Jobs!Next

LEMMA JobsRecover ==
  ASSUME history' = history, NEW back \in SUBSET Actions, NEW js \in SUBSET Actions,
         \A a \in back : /\ Phase(row[a]) = "running" /\ Phase(row'[a]) = "queued"
                         /\ history[a].runs < MaxAttempts,
         \A a \in js : /\ Phase(row[a]) = "running" /\ Phase(row'[a]) = "done"
                       /\ history[a].runs = MaxAttempts,
         \A a \in Actions \ (back \cup js) : Phase(row'[a]) = Phase(row[a])
  PROVE  JobsNext
<1>1. Jobs!Recover(back, js)
  BY DEF Jobs!Recover, Phase
<1> QED
  BY <1>1 DEF JobsNext, Jobs!Next

LEMMA JobsSchedule ==
  ASSUME TypeOK, NEW a \in Actions, NewEpoch(a), NEW due \in BOOLEAN,
         row' = [row EXCEPT ![a] = Reset(row[a], due)]
  PROVE  JobsNext
<1>1. Phase(row'[a]) = "queued" /\ history'[a].runs = 0
  BY FreshEpoch DEF Phase, TypeOK
<1>2. \A b \in Actions : b # a => row'[b] = row[b] /\ history'[b] = history[b]
  BY DEF TypeOK, NewEpoch
<1>3. Jobs!Schedule(a)
  BY <1>1, <1>2 DEF Jobs!Schedule, Phase
<1> QED
  BY <1>3 DEF JobsNext, Jobs!Next
LEMMA JobsInit == Init => Jobs!Init
<1> SUFFICES ASSUME Init PROVE Jobs!Init
  OBVIOUS
<1>1. \A a \in Actions : row[a].status = "pending" /\ row[a].attempt \in 0 .. MaxAttempts
  <2> SUFFICES ASSUME NEW a \in Actions
               PROVE  row[a].status = "pending" /\ row[a].attempt \in 0 .. MaxAttempts
    OBVIOUS
  <2>1. row[a] \in [status : {"pending"}, attempt : {0, MaxAttempts},
                    due : {FALSE}, lock : {"none"}]
    BY DEF Init
  <2>2. row[a].attempt \in {0, MaxAttempts} /\ row[a].status = "pending"
    BY <2>1
  <2> QED
    BY <2>2, MaxAttemptsAssumption
<1>2. \A a \in Actions : history[a].runs = row[a].attempt
  BY DEF Init
<1> QED
  BY <1>1, <1>2 DEF Jobs!Init

LEMMA JobsStep == IInv /\ [Next]_vars => JobsNext
<1> SUFFICES ASSUME IInv, [Next]_vars PROVE JobsNext
  OBVIOUS
<1>0. TypeOK /\ AttemptCountsRuns /\ \A a \in Actions : row[a] \in Row
  BY DEF IInv, TypeOK
<1>1. ASSUME \A a \in Actions : row'[a].status = row[a].status, history' = history
      PROVE  JobsNext
  BY <1>1, JobsStutter DEF JobsNext, Phase
<1>2. ASSUME row' = row, history' = history PROVE JobsNext
  BY <1>1, <1>2
<1>3. ASSUME NEW a \in Actions, NEW s \in Statuses, s \notin {"pending", "processing"},
             history' = history, row'[a].status = s, row[a].status \in Live \cup {"failed"},
             \A b \in Actions : b # a => row'[b] = row[b]
      PROVE  JobsNext
  <2>1. CASE row[a].status = "failed"
    <3>1. \A b \in Actions : Phase(row'[b]) = Phase(row[b])
      BY <1>3, <2>1 DEF Phase
    <3> QED
      BY <1>3, <3>1, JobsStutter DEF JobsNext
  <2>2. CASE row[a].status # "failed"
    <3>1. Phase(row[a]) # "done" /\ Phase(row'[a]) = "done"
      BY <1>3, <2>2 DEF Phase, Live
    <3>2. \A b \in Actions \ {a} : Phase(row'[b]) = Phase(row[b])
      BY <1>3 DEF Phase
    <3> QED
      BY <1>3, <3>1, <3>2, JobsEnd
  <2> QED
    BY <2>1, <2>2
<1>4. ASSUME NEW a \in Actions, Time(a) PROVE JobsNext
  <2>1. history' = history /\ \A b \in Actions : b # a => row'[b] = row[b]
    BY <1>0, <1>4 DEF Time, BecomesDue, LockGoesStale, TypeOK
  <2>2. row'[a] = [row[a] EXCEPT !.due = TRUE] \/ row'[a] = [row[a] EXCEPT !.lock = "stale"]
    BY <1>0, <1>4 DEF Time, BecomesDue, LockGoesStale, TypeOK
  <2>3. row'[a].status = row[a].status
    BY <1>0, <2>2 DEF Row
  <2> QED
    BY <1>1, <2>1, <2>3
<1>5. ASSUME NEW a \in Actions, Authority(a) PROVE JobsNext
  <2>1. CASE Reschedule(a)
    <3>1. PICK due \in BOOLEAN : row' = [row EXCEPT ![a] = Reset(@, due)]
      BY <2>1 DEF Reschedule
    <3>2. row' = [row EXCEPT ![a] = Reset(row[a], due)]
      BY <1>0, <3>1 DEF Reset, TypeOK
    <3> QED
      BY <1>0, <2>1, <3>2, JobsSchedule DEF Reschedule
  <2>2. ASSUME NEW to \in Statuses, Retire(a, to) PROVE JobsNext
    <3>1. row'[a] = [row[a] EXCEPT !.status = to, !.lock = "none"]
      BY <1>0, <2>2 DEF Retire, TypeOK
    <3>2. row'[a].status = to
      BY <1>0, <3>1 DEF Row, Statuses
    <3> QED
      BY <1>0, <1>3, <2>2, <3>2 DEF Retire, TypeOK
  <2> QED
    BY <1>5, <2>1, <2>2 DEF Authority
<1>6. ASSUME NEW w \in Workers, WorkerStep(w) \/ LoseTick(w) PROVE JobsNext
  <2>1. CASE StartTick(w) \/ SelectDueActions(w) \/ EndTick(w) \/ ExecutorReturns(w)
             \/ ExecutorThrows(w) \/ LoseTick(w) \/ \E b \in Actions : SkipAction(w, b)
    BY <2>1, <1>2 DEF StartTick, SelectDueActions, EndTick, ExecutorReturns,
                      ExecutorThrows, LoseTick, SkipAction
  <2>2. CASE FailStaleActions(w)
    <3> DEFINE js == {a \in Actions : Stale(a) /\ row[a].attempt >= MaxAttempts}
    <3>1. history' = history
      BY <2>2 DEF FailStaleActions
    <3>2. \A a \in js : /\ Phase(row[a]) = "running" /\ Phase(row'[a]) = "done"
                        /\ history[a].runs = MaxAttempts
      <4> SUFFICES ASSUME NEW a \in js
                   PROVE  /\ Phase(row[a]) = "running" /\ Phase(row'[a]) = "done"
                          /\ history[a].runs = MaxAttempts
        OBVIOUS
      <4>1. row'[a] = [row[a] EXCEPT !.status = "failed", !.lock = "none"]
        BY <2>2 DEF FailStaleActions
      <4>2. row'[a].status = "failed"
        BY <1>0, <4>1 DEF Row, Statuses
      <4>3. row[a].attempt = MaxAttempts
        BY <1>0, RowFields, MaxAttemptsAssumption
      <4> QED
        BY <1>0, <4>2, <4>3 DEF Phase, Stale, AttemptCountsRuns
    <3>3. \A a \in Actions \ js : Phase(row'[a]) = Phase(row[a])
      BY <2>2 DEF FailStaleActions, Phase
    <3>4. js \in SUBSET Actions /\ {} \in SUBSET Actions
      OBVIOUS
    <3> HIDE DEF js
    <3> QED
      BY <3>1, <3>2, <3>3, <3>4, JobsRecover
  <2>8. CASE ReviveStaleActions(w)
    <3> DEFINE back == {a \in Actions : Stale(a) /\ row[a].attempt < MaxAttempts}
    <3>1. history' = history
      BY <2>8 DEF ReviveStaleActions
    <3>2. \A a \in back : /\ Phase(row[a]) = "running" /\ Phase(row'[a]) = "queued"
                          /\ history[a].runs < MaxAttempts
      <4> SUFFICES ASSUME NEW a \in back
                   PROVE  /\ Phase(row[a]) = "running" /\ Phase(row'[a]) = "queued"
                          /\ history[a].runs < MaxAttempts
        OBVIOUS
      <4>1. row'[a] = [row[a] EXCEPT !.status = "pending", !.lock = "none"]
        BY <2>8 DEF ReviveStaleActions, Recovered
      <4>2. row'[a].status = "pending"
        BY <1>0, <4>1 DEF Row, Statuses
      <4> QED
        BY <1>0, <4>2 DEF Phase, Stale, AttemptCountsRuns
    <3>3. \A a \in Actions \ back : Phase(row'[a]) = Phase(row[a])
      BY <2>8 DEF ReviveStaleActions, Phase
    <3>4. back \in SUBSET Actions /\ {} \in SUBSET Actions
      OBVIOUS
    <3> HIDE DEF back
    <3> QED
      BY <3>1, <3>2, <3>3, <3>4, JobsRecover
  <2>3. CASE FailExhaustedPendingActions(w)
    <3> DEFINE js == {a \in Actions : row[a].status = "pending"
                                      /\ row[a].attempt >= MaxAttempts}
    <3>1. history' = history
      BY <2>3 DEF FailExhaustedPendingActions
    <3>2. \A a \in js : Phase(row[a]) # "done" /\ Phase(row'[a]) = "done"
      <4> SUFFICES ASSUME NEW a \in js
                   PROVE  Phase(row[a]) # "done" /\ Phase(row'[a]) = "done"
        OBVIOUS
      <4>1. row'[a] = [row[a] EXCEPT !.status = "failed", !.lock = "none"]
        BY <2>3 DEF FailExhaustedPendingActions
      <4>2. row'[a].status = "failed"
        BY <1>0, <4>1 DEF Row, Statuses
      <4> QED
        BY <4>2 DEF Phase
    <3>3. \A a \in Actions \ js : Phase(row'[a]) = Phase(row[a])
      BY <2>3 DEF FailExhaustedPendingActions, Phase
    <3> QED
      <4>1. js \in SUBSET Actions
        OBVIOUS
      <4> HIDE DEF js
      <4> QED
        BY <3>1, <3>2, <3>3, <4>1, JobsEnd
  <2>4. ASSUME NEW a \in Actions, ClaimAction(w, a) PROVE JobsNext
    <3>1. /\ Phase(row[a]) = "queued" /\ Phase(row'[a]) = "running"
          /\ history'[a].runs = history[a].runs + 1
      BY <1>0, <2>4, ClaimStep DEF Phase
    <3>2. history[a].runs < MaxAttempts
      BY <1>0, <2>4 DEF ClaimAction, Claimable, AttemptCountsRuns
    <3>3. \A b \in Actions : b # a => row'[b] = row[b] /\ history'[b] = history[b]
      BY <1>0, <2>4 DEF ClaimAction, TypeOK
    <3>4. Jobs!Start(a)
      BY <3>1, <3>2, <3>3 DEF Jobs!Start, Phase
    <3> QED
      BY <3>4 DEF JobsNext, Jobs!Next
  <2>5. CASE ExecutorDefers(w)
    <3> DEFINE a == worker[w].act
    <3>1. a \in Actions
      BY <1>0, <2>5, WorkerFields DEF ExecutorDefers
    <3>2. CASE Fence(w, a)
      <4>1. NewEpoch(a) /\ row' = [row EXCEPT ![a] = Reset(row[a], FALSE)]
        BY <1>0, <2>5, <3>1, <3>2 DEF ExecutorDefers, Reset, TypeOK
      <4> HIDE DEF a
      <4> QED
        BY <1>0, <3>1, <4>1, JobsSchedule
    <3>3. CASE ~Fence(w, a)
      BY <1>2, <2>5, <3>3 DEF ExecutorDefers
    <3> QED
      BY <3>2, <3>3
  <2>6. CASE MarkActionCompleted(w)
    <3> DEFINE a == worker[w].act
    <3>1. a \in Actions /\ history' = history
      BY <1>0, <2>6, WorkerFields DEF MarkActionCompleted, Settle
    <3>2. CASE ~Fence(w, a)
      BY <1>2, <2>6, <3>1, <3>2 DEF MarkActionCompleted, Settle
    <3>3. CASE Fence(w, a)
      <4>1. /\ row'[a] = [row[a] EXCEPT !.status = "completed", !.lock = "none"]
            /\ \A b \in Actions : b # a => row'[b] = row[b]
        BY <1>0, <2>6, <3>1, <3>3 DEF MarkActionCompleted, Settle, TypeOK
      <4>2. row'[a].status = "completed"
        BY <1>0, <3>1, <4>1 DEF Row, Statuses
      <4>3. "completed" \in Statuses /\ row[a].status \in Live
        BY <3>3 DEF Statuses, Live, Fence
      <4> QED
        BY <1>3, <3>1, <4>1, <4>2, <4>3
    <3> QED
      BY <3>2, <3>3
  <2>7. CASE HandleActionFailure(w)
    <3> DEFINE a == worker[w].act
    <3>1. a \in Actions /\ history' = history
      BY <1>0, <2>7, WorkerFields DEF HandleActionFailure, Settle
    <3>2. CASE ~Fence(w, a)
      BY <1>2, <2>7, <3>1, <3>2 DEF HandleActionFailure, Settle
    <3>3. CASE Fence(w, a) /\ worker[w].attempt >= MaxAttempts
      <4>1. /\ row'[a] = [row[a] EXCEPT !.status = "failed", !.lock = "none"]
            /\ \A b \in Actions : b # a => row'[b] = row[b]
        BY <1>0, <2>7, <3>1, <3>3 DEF HandleActionFailure, Settle, TypeOK
      <4>2. row'[a].status = "failed"
        BY <1>0, <3>1, <4>1 DEF Row, Statuses
      <4>3. "failed" \in Statuses /\ row[a].status \in Live
        BY <3>3 DEF Statuses, Live, Fence
      <4> QED
        BY <1>3, <3>1, <4>1, <4>2, <4>3
    <3>4. CASE Fence(w, a) /\ ~(worker[w].attempt >= MaxAttempts)
      <4>1. /\ row'[a] = [row[a] EXCEPT !.status = "pending", !.lock = "none",
                                        !.due = FALSE]
            /\ \A b \in Actions : b # a => row'[b] = row[b]
        BY <1>0, <2>7, <3>1, <3>4 DEF HandleActionFailure, Settle, TypeOK
      <4>2. row'[a].status = "pending"
        BY <1>0, <3>1, <4>1 DEF Row, Statuses
      <4>3. /\ Phase(row[a]) = "running" /\ Phase(row'[a]) = "queued"
            /\ history[a].runs < MaxAttempts
        BY <1>0, <3>1, <3>4, <4>2, RowFields, MaxAttemptsAssumption
        DEF Phase, Fence, AttemptCountsRuns
      <4>4. \A b \in Actions \ {a} : Phase(row'[b]) = Phase(row[b])
        BY <4>1 DEF Phase
      <4>5. {a} \in SUBSET Actions /\ {} \in SUBSET Actions
        BY <3>1
      <4> HIDE DEF a
      <4> QED
        BY <3>1, <4>3, <4>4, <4>5, JobsRecover
    <3> QED
      BY <3>2, <3>3, <3>4
  <2> QED
    BY <1>6, <2>1, <2>2, <2>3, <2>4, <2>5, <2>6, <2>7, <2>8 DEF WorkerStep
<1>7. CASE UNCHANGED vars
  BY <1>2, <1>7 DEF vars
<1> QED
  BY <1>4, <1>5, <1>6, <1>7 DEF Next

\* The scheduler with its workers, locks, stale recovery and process losses
\* implements one abstract durable job per row.
THEOREM Refinement == Spec => ImplementsDurableJobs
<1>1. IInv /\ [Next]_vars => [Jobs!Next]_(Jobs!jobVars)
  BY JobsStep DEF JobsNext, PhaseMap, TriesMap, Phase, Jobs!jobVars
<1> QED
  BY JobsInit, <1>1, Invariance, PTL DEF Spec, ImplementsDurableJobs, Jobs!Spec

=============================================================================
