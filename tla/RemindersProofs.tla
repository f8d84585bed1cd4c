-------------------------- MODULE RemindersProofs --------------------------
(***************************************************************************)
(* Reminders keep their types, are sent once, keep their rows and are not  *)
(* forgotten, for any reminders, commands, attempts and bounds.            *)
(***************************************************************************)
EXTENDS Reminders, TLAPS

-----------------------------------------------------------------------------
(* The inductive invariant.                                                *)

Absent(r) == reminder[r].ref = "none"

\* What is not stored has no row, no message and nobody who executes it.
AbsentIsUntouched(r) ==
  Absent(r) => /\ ~reminder[r].enabled /\ row[r].status = "none" /\ messages[r] = 0
               /\ r \notin worker.on

\* A command on one reminder, or a rescheduling, knows what it writes: only an
\* insertion is about a reminder that is not stored, and that one is its own.
HandlerIsSound(h, r) ==
  r \in handler[h].on =>
    /\ handler[h].pc \in {"insert", "update", "delete", "rewrite"}
    /\ (handler[h].pc = "insert") <=> Absent(r)
    /\ handler[h].pc \in {"insert", "update"} => handler[h].listed[r].ref \in References
    /\ Absent(r) => \A g \in Handlers : r \in handler[g].on => g = h

\* Until it is recorded, a message more than the faults allow is in the hands
\* of the executor.
SendIsCounted(r) ==
  /\ Executes("send", r) => messages[r] <= faults
  /\ reminder[r].enabled /\ ~reminder[r].sent /\ ~Executes("record", r) => messages[r] <= faults
  /\ messages[r] <= 1 + faults

ParkIsLater == worker.pc = "park" => worker.reference \in Nat

IInv ==
  /\ TypeOK /\ ParkIsLater
  /\ \A r \in Reminders : AbsentIsUntouched(r) /\ SendIsCounted(r)
  /\ \A h \in Handlers, r \in Reminders : HandlerIsSound(h, r)

-----------------------------------------------------------------------------
(* Types of what steps put together.                                       *)

WorkerPcs == {"idle", "read", "miss", "park", "send", "record", "settle"}
HandlerPcs == {"idle", "write", "retire", "reload", "list", "rewrite", "stamp", "commit",
               "insert", "update", "delete"}
Worker == [pc : WorkerPcs, on : SUBSET Reminders, attempt : 0 .. MaxAttempts, reference : Int]
Handler == [op : AllOps \cup {"none"}, pc : HandlerPcs, seen : Event, to : Nat,
            on : SUBSET Reminders, listed : [Reminders -> Reminder], alone : BOOLEAN]

LEMMA Typed ==
  ASSUME TypeOK
  PROVE  /\ worker \in Worker /\ handler \in [Handlers -> Handler] /\ event \in Event
         /\ reminder \in [Reminders -> Reminder] /\ row \in [Reminders -> Row]
         /\ messages \in [Reminders -> Nat] /\ faults \in Nat /\ issued \in Nat
         /\ now \in Times /\ now \in Nat
BY DEF TypeOK, Worker, Handler, WorkerPcs, HandlerPcs, Times

LEMMA TypeFrom ==
  ASSUME worker' \in Worker, handler' \in [Handlers -> Handler], event' \in Event,
         reminder' \in [Reminders -> Reminder], row' \in [Reminders -> Row],
         messages' \in [Reminders -> Nat], faults' \in Nat, issued' \in Nat, now' \in Times,
         stale' \in BOOLEAN
  PROVE  TypeOK'
BY DEF TypeOK, Worker, Handler, WorkerPcs, HandlerPcs

LEMMA DueIsNatural ==
  ASSUME NEW e \in Event, NEW ref, NEW minutes \in Nat
  PROVE  ReferenceTime(ref, e) \in Int /\ DueAt(ref, minutes, e) \in Nat
<1>1. e.starts \in Int /\ e.closes \in Int
  BY DEF Event
<1>2. ReferenceTime(ref, e) \in Int
  BY <1>1 DEF ReferenceTime
<1> QED
  BY <1>2 DEF DueAt

LEMMA MinutesAreNatural ==
  ASSUME NEW m \in Reminder PROVE m.minutes \in Nat
<1>1. \A n \in Minutes : n \in Nat
  BY BoundsAssumption
<1>2. m.minutes \in Minutes \/ m.minutes = 0
  BY DEF Reminder
<1> QED
  BY <1>1, <1>2

LEMMA RowsFit ==
  /\ NoRow \in Row
  /\ \A due \in Nat : Armed(due) \in Row /\ Armed(due).status # "none"
  /\ \A a \in Row : /\ Cancelled(a) \in Row /\ GivenBack(a) \in Row
                    /\ a.status = "none" => Cancelled(a) = a
<1>1. 0 \in 0 .. MaxAttempts
  BY BoundsAssumption
<1>2. NoRow \in Row /\ \A due \in Nat : Armed(due) \in Row /\ Armed(due).status # "none"
  BY <1>1 DEF NoRow, Armed, Row
<1>3. ASSUME NEW a \in Row
      PROVE  /\ Cancelled(a) \in Row /\ GivenBack(a) \in Row
             /\ a.status = "none" => Cancelled(a) = a
  BY DEF Cancelled, GivenBack, Row, Live
<1> QED
  BY <1>2, <1>3

LEMMA RemindersFit ==
  /\ NoReminder \in Reminder /\ NoReminder.ref = "none" /\ ~NoReminder.enabled
  /\ \A ref \in References, minutes \in Minutes :
       /\ NewReminder(ref, minutes) \in Reminder /\ NewReminder(ref, minutes).ref = ref
       /\ NewReminder(ref, minutes).minutes = minutes /\ NewReminder(ref, minutes).enabled
       /\ ref # "none"
BY DEF NoReminder, NewReminder, Reminder, References

LEMMA IdleFits ==
  /\ IdleWorker \in Worker /\ IdleHandler \in Handler
  /\ IdleHandler.on = {} /\ IdleHandler.listed = [r \in Reminders |-> NoReminder]
<1>1. Unread \in Event
  BY DEF Unread, Event, Status
<1>2. 0 \in 0 .. MaxAttempts
  BY BoundsAssumption
<1>3. IdleWorker \in Worker
  BY <1>2 DEF IdleWorker, Worker, WorkerPcs
<1> QED
  BY <1>1, <1>3, RemindersFit DEF IdleHandler, Handler, HandlerPcs

-----------------------------------------------------------------------------
(* Steps of the clock and of the lifecycle.                                *)

LEMMA EventStep ==
  ASSUME IInv, UNCHANGED <<reminder, row, worker, handler, messages, stale, issued, faults>>,
         now' \in Times, event' \in Event
  PROVE  IInv'
<1>1. /\ reminder' = reminder /\ row' = row /\ worker' = worker /\ handler' = handler
      /\ messages' = messages /\ stale' = stale /\ issued' = issued /\ faults' = faults
  OBVIOUS
<1>2. TypeOK'
  BY <1>1 DEF IInv, TypeOK
<1> QED
  BY <1>1, <1>2 DEF IInv, ParkIsLater, AbsentIsUntouched, SendIsCounted, HandlerIsSound, Absent,
                    Executes

LEMMA ClockSteps == ASSUME IInv, Tick \/ CloseOnTime \/ Complete PROVE IInv'
<1>1. event \in Event /\ now \in Times /\ MaxTime \in Nat
  BY BoundsAssumption DEF IInv, TypeOK
<1>2. CASE Tick
  <2>1. now' \in Times
    BY <1>1, <1>2 DEF Tick, Times
  <2> QED
    BY <1>1, <1>2, <2>1, EventStep DEF Tick
<1>3. CASE CloseOnTime \/ Complete
  <2>1. PICK status \in {"closed", "completed"} : EventEnds(status)
    BY <1>3 DEF CloseOnTime, Complete
  <2>2. event' \in Event
    BY <1>1, <2>1 DEF EventEnds, Event, Status
  <2> QED
    BY <1>1, <2>1, <2>2, EventStep DEF EventEnds, counters
<1> QED
  BY <1>2, <1>3

-----------------------------------------------------------------------------
(* Steps of the scheduler.                                                 *)

\* What a step of the scheduler has to show.
LEMMA SchedulerStep ==
  ASSUME IInv, UNCHANGED <<handler, event, stale, now, issued>>, faults' \in Nat,
         worker' \in Worker, reminder' \in [Reminders -> Reminder], row' \in [Reminders -> Row],
         messages' \in [Reminders -> Nat], ParkIsLater',
         \A q \in Reminders : reminder'[q].ref = reminder[q].ref,
         \A q \in Reminders : AbsentIsUntouched(q)' /\ SendIsCounted(q)'
  PROVE  IInv'
<1>1. /\ handler' = handler /\ event' = event /\ stale' = stale /\ now' = now
      /\ issued' = issued
  OBVIOUS
<1>2. TypeOK'
  BY <1>1, Typed, TypeFrom DEF IInv, TypeOK
<1>3. \A h \in Handlers, q \in Reminders : HandlerIsSound(h, q)'
  BY <1>1 DEF IInv, HandlerIsSound, Absent
<1> QED
  BY <1>2, <1>3 DEF IInv

\* The row or the executor alone.
LEMMA RowStep ==
  ASSUME IInv, NEW r \in Reminders, worker.pc = "record" => worker.on = {r} /\ faults' > faults,
         UNCHANGED <<handler, event, stale, now, issued, reminder, messages>>,
         faults' \in Nat, faults' >= faults,
         worker' \in Worker, row' \in [Reminders -> Row], ParkIsLater',
         worker'.on \subseteq {r},
         ~Absent(r), \A q \in Reminders \ {r} : row'[q] = row[q],
         worker'.pc # "record",
         worker'.pc = "send" => reminder[r].enabled /\ ~reminder[r].sent
  PROVE  IInv'
<1>1. /\ reminder' = reminder /\ messages' = messages /\ messages \in [Reminders -> Nat]
      /\ reminder \in [Reminders -> Reminder] /\ faults \in Nat
  BY Typed DEF IInv
<1>2. ASSUME NEW q \in Reminders PROVE AbsentIsUntouched(q)'
  <2>1. AbsentIsUntouched(q)
    BY DEF IInv
  <2>2. CASE q = r
    BY <1>1, <2>2 DEF AbsentIsUntouched, Absent
  <2>3. CASE q # r
    BY <1>1, <2>1, <2>3 DEF AbsentIsUntouched, Absent
  <2> QED
    BY <2>2, <2>3
<1>3. ASSUME NEW q \in Reminders PROVE SendIsCounted(q)'
  <2>1. SendIsCounted(q) /\ messages[q] \in Nat
    BY <1>1 DEF IInv
  <2>2. ~Executes("record", q)'
    BY DEF Executes
  <2>3. messages[q] <= 1 + faults /\ messages[q] <= 1 + faults'
    BY <1>1, <2>1 DEF SendIsCounted
  <2>4. CASE Executes("record", q)
    <3>1. messages[q] <= faults'
      BY <1>1, <2>1, <2>3, <2>4 DEF Executes
    <3> QED
      BY <1>1, <2>2, <2>3, <3>1 DEF SendIsCounted
  <2>5. CASE ~Executes("record", q)
    <3>1. reminder[q].enabled /\ ~reminder[q].sent => messages[q] <= faults'
      BY <1>1, <2>1, <2>5 DEF SendIsCounted
    <3>2. Executes("send", q)' => q = r /\ worker'.pc = "send"
      BY DEF Executes
    <3>3. Executes("send", q)' => messages[q] <= faults'
      BY <3>1, <3>2
    <3> QED
      BY <1>1, <2>2, <2>3, <3>1, <3>3 DEF SendIsCounted
  <2> QED
    BY <2>4, <2>5
<1> QED
  BY <1>1, <1>2, <1>3, SchedulerStep

LEMMA ClaimStep == ASSUME IInv, NEW r \in Reminders, Claim(r) PROVE IInv'
<1>1. /\ worker.pc = "idle" /\ row[r].status = "pending" /\ row[r].attempt < MaxAttempts
      /\ row' = [row EXCEPT ![r].status = "processing", ![r].attempt = @ + 1]
      /\ worker' = [pc |-> "read", on |-> {r}, attempt |-> row[r].attempt + 1, reference |-> 0]
      /\ UNCHANGED <<handler, event, stale, now, issued, faults, reminder, messages>>
  BY DEF Claim, Scheduled, counters
<1>2. row \in [Reminders -> Row] /\ row[r] \in Row /\ faults \in Nat /\ MaxAttempts \in Nat
  BY Typed, BoundsAssumption DEF IInv
<1>3. row[r].attempt + 1 \in 0 .. MaxAttempts
  BY <1>1, <1>2 DEF Row
<1>4. worker' \in Worker /\ ParkIsLater'
  BY <1>1, <1>3 DEF Worker, WorkerPcs, ParkIsLater
<1> DEFINE a == [row[r] EXCEPT !.status = "processing", !.attempt = @ + 1]
<1>5. a \in Row /\ row' = [row EXCEPT ![r] = a]
  BY <1>1, <1>2, <1>3 DEF Row
<1> HIDE DEF a
<1>6. row' \in [Reminders -> Row] /\ \A q \in Reminders \ {r} : row'[q] = row[q]
  BY <1>2, <1>5
<1>7. ~Absent(r)
  BY <1>1 DEF IInv, AbsentIsUntouched
<1>8. worker'.on = {r} /\ worker'.pc = "read" /\ faults' \in Nat /\ faults' >= faults
  BY <1>1, <1>2
<1> QED
  BY <1>1, <1>4, <1>6, <1>7, <1>8, RowStep

LEMMA ReadStep == ASSUME IInv, NEW r \in Reminders, Read(r) PROVE IInv'
<1>1. /\ worker.pc = "read" /\ worker.on = {r}
      /\ worker' = [worker EXCEPT !.pc = Outcome(reminder[r], event),
                                  !.reference = ReferenceTime(reminder[r].ref, event)]
      /\ UNCHANGED <<handler, event, stale, now, issued, faults, reminder, row, messages>>
  BY DEF Read, Executes, Scheduled, counters
<1>2. worker \in Worker /\ row \in [Reminders -> Row] /\ faults \in Nat /\ now \in Nat
      /\ ReferenceTime(reminder[r].ref, event) \in Int
  BY Typed, DueIsNatural DEF IInv
<1> DEFINE o == Outcome(reminder[r], event)
           t == ReferenceTime(reminder[r].ref, event)
<1>3. o \in {"settle", "miss", "park", "send"}
  BY DEF Outcome
<1>4. /\ o = "send" => ~IsDone(reminder[r])
      /\ o = "park" => ~(t <= now)
  BY DEF Outcome
<1> HIDE DEF o, t
<1>5. o = "send" => reminder[r].enabled /\ ~reminder[r].sent
  BY <1>4 DEF IsDone
<1>6. worker' = [worker EXCEPT !.pc = o, !.reference = t] /\ t \in Int
  BY <1>1, <1>2 DEF o, t
<1>7. worker' \in Worker /\ worker'.pc = o /\ worker'.on = {r} /\ worker'.reference = t
  BY <1>1, <1>2, <1>3, <1>6 DEF Worker, WorkerPcs
<1>8. ParkIsLater'
  BY <1>2, <1>4, <1>6, <1>7 DEF ParkIsLater
<1>9. ~Absent(r)
  BY <1>1 DEF IInv, AbsentIsUntouched
<1>10. row' \in [Reminders -> Row] /\ faults' \in Nat /\ faults' >= faults
  BY <1>1, <1>2
<1> QED
  BY <1>1, <1>3, <1>5, <1>7, <1>8, <1>9, <1>10, RowStep

LEMMA ParkStep == ASSUME IInv, NEW r \in Reminders, Park(r) PROVE IInv'
<1>1. /\ worker.pc = "park" /\ worker.on = {r}
      /\ row' = IF Fence(r) THEN [row EXCEPT ![r] = Armed(worker.reference)] ELSE row
      /\ worker' = [worker EXCEPT !.pc = "settle"]
      /\ UNCHANGED <<handler, event, stale, now, issued, faults, reminder, messages>>
  BY DEF Park, WorkerAt, Executes, Scheduled, counters
<1>2. worker \in Worker /\ row \in [Reminders -> Row] /\ faults \in Nat
      /\ worker.reference \in Nat
  BY <1>1, Typed DEF IInv, ParkIsLater
<1>3. row' \in [Reminders -> Row] /\ \A q \in Reminders \ {r} : row'[q] = row[q]
  BY <1>1, <1>2, RowsFit
<1>4. worker' \in Worker /\ worker'.pc = "settle" /\ worker'.on = {r} /\ ParkIsLater'
  BY <1>1, <1>2 DEF Worker, WorkerPcs, ParkIsLater
<1>5. ~Absent(r)
  BY <1>1 DEF IInv, AbsentIsUntouched
<1> QED
  BY <1>1, <1>2, <1>3, <1>4, <1>5, RowStep

LEMMA SettleStep == ASSUME IInv, NEW r \in Reminders, Settle(r) PROVE IInv'
<1>1. /\ worker.pc = "settle" /\ worker.on = {r} /\ worker' = IdleWorker
      /\ row' = IF Fence(r) THEN [row EXCEPT ![r].status = "completed"] ELSE row
      /\ UNCHANGED <<handler, event, stale, now, issued, faults, reminder, messages>>
  BY DEF Settle, Executes, Scheduled, counters
<1>2. row \in [Reminders -> Row] /\ faults \in Nat
  BY Typed DEF IInv
<1> DEFINE a == [row[r] EXCEPT !.status = "completed"]
<1>3. a \in Row /\ row' = IF Fence(r) THEN [row EXCEPT ![r] = a] ELSE row
  BY <1>1, <1>2 DEF Row
<1> HIDE DEF a
<1>4. row' \in [Reminders -> Row] /\ \A q \in Reminders \ {r} : row'[q] = row[q]
  BY <1>2, <1>3
<1>5. worker' \in Worker /\ worker'.pc = "idle" /\ worker'.on = {} /\ ParkIsLater'
  BY <1>1, IdleFits DEF IdleWorker, ParkIsLater
<1>6. ~Absent(r)
  BY <1>1 DEF IInv, AbsentIsUntouched
<1> QED
  BY <1>1, <1>2, <1>4, <1>5, <1>6, RowStep

LEMMA RecoverStep == ASSUME IInv, NEW r \in Reminders, RecoverStaleActions(r) PROVE IInv'
<1>1. /\ worker.pc = "idle" /\ row[r].status = "processing" /\ r \notin worker.on
      /\ row' = [row EXCEPT ![r] = GivenBack(@)] /\ worker' = worker
      /\ UNCHANGED <<handler, event, stale, now, issued, faults, reminder, messages>>
  BY DEF RecoverStaleActions, IsLost, Scheduled, counters
<1>2. row \in [Reminders -> Row] /\ row' \in [Reminders -> Row] /\ row'[r] = GivenBack(row[r])
      /\ \A q \in Reminders \ {r} : row'[q] = row[q]
  <2>1. row \in [Reminders -> Row]
    BY Typed DEF IInv
  <2> QED
    BY <1>1, <2>1, RowsFit
<1>3. ASSUME NEW q \in Reminders PROVE AbsentIsUntouched(q)' /\ SendIsCounted(q)'
  <2>1. AbsentIsUntouched(q) /\ SendIsCounted(q)
    BY DEF IInv
  <2>2. SendIsCounted(q)'
    BY <1>1, <2>1 DEF SendIsCounted, Executes
  <2>3. CASE q = r
    BY <1>1, <2>1, <2>2, <2>3 DEF AbsentIsUntouched, Absent
  <2>4. CASE q # r
    BY <1>1, <1>2, <2>1, <2>2, <2>4 DEF AbsentIsUntouched, Absent
  <2> QED
    BY <2>3, <2>4
<1>4. worker' \in Worker /\ ParkIsLater' /\ faults' \in Nat
      /\ reminder' \in [Reminders -> Reminder] /\ messages' \in [Reminders -> Nat]
      /\ \A q \in Reminders : reminder'[q].ref = reminder[q].ref
  BY <1>1, Typed DEF IInv, ParkIsLater
<1> QED
  BY <1>1, <1>2, <1>3, <1>4, SchedulerStep

LEMMA WorkerLostStep == ASSUME IInv, NEW r \in Reminders, WorkerLost(r) PROVE IInv'
<1>1. /\ worker.on = {r} /\ faults' = faults + 1 /\ worker' = IdleWorker
      /\ UNCHANGED row \/ row' = [row EXCEPT ![r] = GivenBack(@)]
      /\ UNCHANGED <<handler, event, stale, now, issued, reminder, messages>>
  BY DEF WorkerLost, Fault
<1>2. row \in [Reminders -> Row] /\ faults \in Nat
  BY Typed DEF IInv
<1>3. row' \in [Reminders -> Row] /\ \A q \in Reminders \ {r} : row'[q] = row[q]
  BY <1>1, <1>2, RowsFit
<1>4. worker' \in Worker /\ worker'.pc = "idle" /\ worker'.on = {} /\ ParkIsLater'
  BY <1>1, IdleFits DEF IdleWorker, ParkIsLater
<1>5. ~Absent(r)
  BY <1>1 DEF IInv, AbsentIsUntouched
<1>6. faults' \in Nat /\ faults' > faults /\ faults' >= faults
  BY <1>1, <1>2
<1> QED
  BY <1>1, <1>3, <1>4, <1>5, <1>6, RowStep

LEMMA MissStep == ASSUME IInv, NEW r \in Reminders, Miss(r) PROVE IInv'
<1>1. /\ worker.pc = "miss" /\ worker.on = {r} /\ worker' = [worker EXCEPT !.pc = "settle"]
      /\ reminder' = IF reminder[r].sent \/ reminder[r].missed THEN reminder
                     ELSE [reminder EXCEPT ![r].missed = TRUE]
      /\ UNCHANGED <<handler, event, stale, now, issued, faults, row, messages>>
  BY DEF Miss, WorkerAt, Executes, Scheduled, counters
<1>2. /\ worker \in Worker /\ reminder \in [Reminders -> Reminder] /\ row \in [Reminders -> Row]
      /\ messages \in [Reminders -> Nat] /\ faults \in Nat
  BY Typed DEF IInv
<1>3. /\ reminder' \in [Reminders -> Reminder]
      /\ \A q \in Reminders : /\ reminder'[q].ref = reminder[q].ref
                              /\ reminder'[q].enabled = reminder[q].enabled
                              /\ reminder'[q].sent = reminder[q].sent
  BY <1>1, <1>2 DEF Reminder
<1>4. worker' \in Worker /\ worker'.pc = "settle" /\ worker'.on = {r} /\ ParkIsLater'
  BY <1>1, <1>2 DEF Worker, WorkerPcs, ParkIsLater
<1>5. ASSUME NEW q \in Reminders PROVE AbsentIsUntouched(q)' /\ SendIsCounted(q)'
  BY <1>1, <1>3, <1>4 DEF IInv, AbsentIsUntouched, SendIsCounted, Absent, Executes
<1> QED
  BY <1>1, <1>2, <1>3, <1>4, <1>5, SchedulerStep

LEMMA SendStep == ASSUME IInv, NEW r \in Reminders, Send(r) PROVE IInv'
<1>1. /\ worker.pc = "send" /\ worker.on = {r} /\ worker' = [worker EXCEPT !.pc = "record"]
      /\ messages' = [messages EXCEPT ![r] = @ + 1]
      /\ UNCHANGED <<handler, event, stale, now, issued, faults, row, reminder>>
  BY DEF Send, WorkerAt, Executes, Scheduled, counters
<1>2. /\ worker \in Worker /\ reminder \in [Reminders -> Reminder] /\ row \in [Reminders -> Row]
      /\ messages \in [Reminders -> Nat] /\ faults \in Nat
  BY Typed DEF IInv
<1>3. worker' \in Worker /\ worker'.pc = "record" /\ worker'.on = {r} /\ ParkIsLater'
  BY <1>1, <1>2 DEF Worker, WorkerPcs, ParkIsLater
<1>4. /\ messages' \in [Reminders -> Nat] /\ messages'[r] = messages[r] + 1
      /\ \A q \in Reminders \ {r} : messages'[q] = messages[q]
  BY <1>1, <1>2
<1>5. ~Absent(r) /\ messages[r] <= faults
  BY <1>1 DEF IInv, AbsentIsUntouched, SendIsCounted, Executes
<1>6. ASSUME NEW q \in Reminders PROVE AbsentIsUntouched(q)' /\ SendIsCounted(q)'
  <2>1. AbsentIsUntouched(q) /\ SendIsCounted(q) /\ messages[q] \in Nat
    BY <1>2 DEF IInv
  <2>2. CASE q = r
    <3>1. Executes("record", r)' /\ ~Executes("send", r)' /\ messages'[r] <= 1 + faults
      BY <1>2, <1>3, <1>4, <1>5 DEF Executes
    <3> QED
      BY <1>1, <1>5, <2>2, <3>1 DEF AbsentIsUntouched, SendIsCounted, Absent
  <2>3. CASE q # r
    <3>1. ~Executes("record", q)' /\ ~Executes("send", q)' /\ ~Executes("record", q)
          /\ messages'[q] = messages[q]
      BY <1>1, <1>3, <1>4, <2>3 DEF Executes
    <3> QED
      BY <1>1, <1>3, <2>1, <2>3, <3>1 DEF AbsentIsUntouched, SendIsCounted, Absent
  <2> QED
    BY <2>2, <2>3
<1> QED
  BY <1>1, <1>2, <1>3, <1>4, <1>6, SchedulerStep

LEMMA RecordStep == ASSUME IInv, NEW r \in Reminders, Record(r) PROVE IInv'
<1>1. /\ worker.pc = "record" /\ worker.on = {r} /\ worker' = [worker EXCEPT !.pc = "settle"]
      /\ reminder' = IF reminder[r].enabled THEN [reminder EXCEPT ![r].sent = TRUE] ELSE reminder
      /\ UNCHANGED <<handler, event, stale, now, issued, faults, row, messages>>
  BY DEF Record, WorkerAt, Executes, Scheduled, counters
<1>2. /\ worker \in Worker /\ reminder \in [Reminders -> Reminder] /\ row \in [Reminders -> Row]
      /\ messages \in [Reminders -> Nat] /\ faults \in Nat
  BY Typed DEF IInv
<1>3. /\ reminder' \in [Reminders -> Reminder]
      /\ reminder'[r].enabled => reminder'[r].sent
      /\ \A q \in Reminders : reminder'[q].ref = reminder[q].ref
                              /\ reminder'[q].enabled = reminder[q].enabled
      /\ \A q \in Reminders \ {r} : reminder'[q] = reminder[q]
  BY <1>1, <1>2 DEF Reminder
<1>4. worker' \in Worker /\ worker'.pc = "settle" /\ worker'.on = {r} /\ ParkIsLater'
  BY <1>1, <1>2 DEF Worker, WorkerPcs, ParkIsLater
<1>5. ASSUME NEW q \in Reminders PROVE AbsentIsUntouched(q)' /\ SendIsCounted(q)'
  <2>1. AbsentIsUntouched(q) /\ SendIsCounted(q)
    BY DEF IInv
  <2>2. ~Executes("send", q)'
    BY <1>4 DEF Executes
  <2>3. SendIsCounted(q)'
    <3>1. CASE q = r
      BY <1>1, <1>3, <2>1, <2>2, <3>1 DEF SendIsCounted
    <3>2. CASE q # r
      <4>1. ~Executes("record", q)
        BY <1>1, <3>2 DEF Executes
      <4> QED
        BY <1>1, <1>3, <2>1, <2>2, <3>2, <4>1 DEF SendIsCounted
    <3> QED
      BY <3>1, <3>2
  <2>4. AbsentIsUntouched(q)'
    BY <1>1, <1>3, <1>4, <2>1 DEF AbsentIsUntouched, Absent
  <2> QED
    BY <2>3, <2>4
<1> QED
  BY <1>1, <1>2, <1>3, <1>4, <1>5, SchedulerStep

-----------------------------------------------------------------------------
(* Commands begin.                                                         *)

\* What a handler may hold on to when it is at pc.
Fits(pc, more, r) ==
  /\ pc \in {"insert", "update", "delete"}
  /\ (pc = "insert") <=> Absent(r)
  /\ pc \in {"insert", "update"} => more.listed[r].ref \in References
  /\ Absent(r) => \A g \in Handlers : r \notin handler[g].on

LEMMA BeginStep ==
  ASSUME IInv, NEW h \in Handlers, NEW op \in AllOps, NEW pc \in HandlerPcs,
         NEW more \in Handler, Begin(h, op, pc, more), \A r \in more.on : Fits(pc, more, r)
  PROVE  IInv'
<1>1. /\ handler' = [g \in Handlers |->
           IF g = h THEN [more EXCEPT !.op = op, !.pc = pc, !.alone = Busy = {}]
           ELSE [handler[g] EXCEPT !.alone = handler[g].pc = "idle"]]
      /\ stale' = (stale \/ Busy # {}) /\ issued' = issued + 1
      /\ now' = now /\ event' = event /\ reminder' = reminder /\ row' = row
      /\ worker' = worker /\ messages' = messages /\ faults' = faults
  BY DEF Begin
<1>2. handler \in [Handlers -> Handler] /\ issued \in Nat
  BY Typed DEF IInv
<1>3. /\ [more EXCEPT !.op = op, !.pc = pc, !.alone = Busy = {}] \in Handler
      /\ [more EXCEPT !.op = op, !.pc = pc, !.alone = Busy = {}].pc = pc
      /\ [more EXCEPT !.op = op, !.pc = pc, !.alone = Busy = {}].on = more.on
      /\ [more EXCEPT !.op = op, !.pc = pc, !.alone = Busy = {}].listed = more.listed
  BY DEF Handler
<1>4. ASSUME NEW g \in Handlers
      PROVE  /\ [handler[g] EXCEPT !.alone = handler[g].pc = "idle"] \in Handler
             /\ [handler[g] EXCEPT !.alone = handler[g].pc = "idle"].pc = handler[g].pc
             /\ [handler[g] EXCEPT !.alone = handler[g].pc = "idle"].on = handler[g].on
             /\ [handler[g] EXCEPT !.alone = handler[g].pc = "idle"].listed = handler[g].listed
  BY <1>2 DEF Handler
<1>5. /\ handler' \in [Handlers -> Handler]
      /\ handler'[h].pc = pc /\ handler'[h].on = more.on /\ handler'[h].listed = more.listed
      /\ \A g \in Handlers \ {h} : /\ handler'[g].pc = handler[g].pc
                                   /\ handler'[g].on = handler[g].on
                                   /\ handler'[g].listed = handler[g].listed
  BY <1>1, <1>3, <1>4
<1>6. stale' \in BOOLEAN
  BY <1>1 DEF IInv, TypeOK
<1>7. TypeOK'
  <2>1. /\ worker' \in Worker /\ event' \in Event /\ reminder' \in [Reminders -> Reminder]
        /\ row' \in [Reminders -> Row] /\ messages' \in [Reminders -> Nat] /\ faults' \in Nat
        /\ issued' \in Nat /\ now' \in Times
    <3>1. /\ worker \in Worker /\ event \in Event /\ reminder \in [Reminders -> Reminder]
          /\ row \in [Reminders -> Row] /\ messages \in [Reminders -> Nat] /\ faults \in Nat
          /\ now \in Times
      BY Typed DEF IInv
    <3>2. issued' \in Nat
      <4>1. issued' = issued + 1 /\ issued \in Nat
        BY <1>1, <1>2
      <4> QED
        BY <4>1
    <3>3. /\ worker' = worker /\ event' = event /\ reminder' = reminder /\ row' = row
          /\ messages' = messages /\ faults' = faults /\ now' = now
      BY <1>1
    <3> QED
      BY <3>1, <3>2, <3>3
  <2> QED
    BY <1>5, <1>6, <2>1, TypeFrom
<1>8. ASSUME NEW g \in Handlers, NEW r \in Reminders, r \in handler'[g].on
      PROVE  HandlerIsSound(g, r)'
  <2>1. CASE g = h
    <3>1. Fits(pc, more, r)
      BY <1>5, <1>8, <2>1
    <3>2. Absent(r) => \A f \in Handlers : r \in handler'[f].on => f = h
      BY <1>5, <3>1 DEF Fits
    <3> QED
      BY <1>1, <1>5, <2>1, <3>1, <3>2 DEF Fits, HandlerIsSound, Absent
  <2>2. CASE g # h
    <3>1. HandlerIsSound(g, r) /\ r \in handler[g].on
      BY <1>5, <1>8, <2>2 DEF IInv
    <3>2. Absent(r) => r \notin more.on
      BY <3>1 DEF Fits
    <3> QED
      BY <1>1, <1>5, <2>2, <3>1, <3>2 DEF HandlerIsSound, Absent
  <2> QED
    BY <2>1, <2>2
<1>9. \A g \in Handlers, r \in Reminders : HandlerIsSound(g, r)'
  BY <1>8 DEF HandlerIsSound
<1>10. ParkIsLater' /\ \A r \in Reminders : AbsentIsUntouched(r)' /\ SendIsCounted(r)'
  BY <1>1 DEF IInv, ParkIsLater, AbsentIsUntouched, SendIsCounted, Absent, Executes
<1> QED
  BY <1>7, <1>9, <1>10 DEF IInv

LEMMA ValidatedFits ==
  ASSUME TypeOK
  PROVE  /\ Validated \in Handler /\ Validated.on = {}
         /\ \A to \in Nat : /\ [Validated EXCEPT !.to = to] \in Handler
                            /\ [Validated EXCEPT !.to = to].on = {}
         /\ \A n, m \in Int :
              /\ [Validated EXCEPT !.seen.starts = n, !.seen.closes = m] \in Handler
              /\ [Validated EXCEPT !.seen.starts = n, !.seen.closes = m].on = {}
<1>1. event \in Event
  BY Typed
<1>2. Validated \in Handler /\ Validated.on = {}
  BY <1>1, IdleFits DEF Validated, Handler
<1>3. ASSUME NEW n \in Int, NEW m \in Int
      PROVE  /\ [Validated EXCEPT !.seen.starts = n, !.seen.closes = m] \in Handler
             /\ [Validated EXCEPT !.seen.starts = n, !.seen.closes = m].on = {}
  BY <1>1, <1>2 DEF Handler, Event
<1>4. \A to \in Nat : /\ [Validated EXCEPT !.to = to] \in Handler
                      /\ [Validated EXCEPT !.to = to].on = {}
  BY <1>2 DEF Handler
<1> QED
  BY <1>2, <1>3, <1>4

LEMMA DeadlinesAreTimes ==
  ASSUME NEW e \in Event, NEW starts \in Times, NEW closes \in Deadlines(e, starts)
  PROVE  starts \in Int /\ closes \in Int
BY DEF Deadlines, Event, Times

LEMMA EventCommands ==
  ASSUME IInv, NEW h \in Handlers, Close(h) \/ Cancel(h) \/ Reopen(h) \/ Move(h) \/ Publish(h)
  PROVE  IInv'
<1>1. /\ TypeOK /\ event \in Event
      /\ Validated \in Handler /\ Validated.on = {}
      /\ \A to \in Nat : /\ [Validated EXCEPT !.to = to] \in Handler
                         /\ [Validated EXCEPT !.to = to].on = {}
  BY ValidatedFits, Typed DEF IInv
<1>2. event.starts \in Int /\ now \in Nat
  BY Typed DEF IInv, Event
<1>3. "write" \in HandlerPcs /\ "stamp" \in HandlerPcs
  BY DEF HandlerPcs
<1>4. CASE Close(h) \/ Cancel(h)
  <2>1. PICK op \in AllOps : Begin(h, op, "write", Validated)
    BY <1>4 DEF Close, Cancel, AllOps
  <2> QED
    BY <1>1, <1>3, <2>1, BeginStep
<1>5. CASE Reopen(h)
  <2>1. PICK to \in {event.starts - 1, event.starts} :
          to > now /\ Begin(h, "reopen", "write", [Validated EXCEPT !.to = to])
    BY <1>5 DEF Reopen
  <2>2. to \in Nat
    BY <1>2, <2>1
  <2>3. "reopen" \in AllOps
    BY DEF AllOps
  <2> QED
    BY <1>1, <1>3, <2>1, <2>2, <2>3, BeginStep
<1>6. CASE Move(h)
  <2>1. PICK starts \in Times, closes \in Int :
          Begin(h, "move", "write",
                [Validated EXCEPT !.seen.starts = starts, !.seen.closes = closes])
    BY <1>1, <1>6, DeadlinesAreTimes DEF Move
  <2> DEFINE x == [Validated EXCEPT !.seen.starts = starts, !.seen.closes = closes]
  <2>2. x \in Handler /\ x.on = {}
    <3>1. starts \in Int
      BY DEF Times
    <3> QED
      BY <1>1, <3>1, ValidatedFits
  <2>3. "move" \in AllOps
    BY DEF AllOps
  <2> HIDE DEF x
  <2> QED
    BY <1>3, <2>1, <2>2, <2>3, BeginStep DEF x
<1>7. CASE Publish(h)
  <2>1. Begin(h, "publish", "stamp", IdleHandler) /\ "publish" \in AllOps
    BY <1>7 DEF Publish, AllOps
  <2> QED
    BY <1>3, <2>1, IdleFits, BeginStep
<1> QED
  BY <1>4, <1>5, <1>6, <1>7

\* A command on the reminder r with the timing it has chosen.
LEMMA ChoosesStep ==
  ASSUME IInv, NEW h \in Handlers, NEW r \in Reminders, NEW op \in AllOps,
         NEW pc \in {"insert", "update"}, Chooses(h, r, op, pc),
         (pc = "insert") <=> Absent(r),
         Absent(r) => \A g \in Handlers : r \notin handler[g].on
  PROVE  IInv'
<1>1. PICK ref \in References, minutes \in Minutes :
        Begin(h, op, pc, [IdleHandler EXCEPT !.on = {r}, !.to = DueAt(ref, minutes, event),
                                             !.listed[r] = NewReminder(ref, minutes)])
  BY DEF Chooses
<1> DEFINE more == [IdleHandler EXCEPT !.on = {r}, !.to = DueAt(ref, minutes, event),
                                       !.listed[r] = NewReminder(ref, minutes)]
<1>2. DueAt(ref, minutes, event) \in Nat
  <2>1. minutes \in Nat /\ event \in Event
    BY BoundsAssumption, Typed DEF IInv
  <2> QED
    BY <2>1, DueIsNatural
<1>3. /\ more \in Handler /\ more.on = {r} /\ more.listed[r].ref \in References
  BY <1>2, IdleFits, RemindersFit DEF Handler
<1>4. Fits(pc, more, r)
  BY <1>3 DEF Fits
<1>5. pc \in HandlerPcs
  BY DEF HandlerPcs
<1> HIDE DEF more
<1> QED
  BY <1>1, <1>3, <1>4, <1>5, BeginStep DEF more

LEMMA ReminderCommands ==
  ASSUME IInv, NEW h \in Handlers, Add(h) \/ Edit(h) \/ Remove(h) PROVE IInv'
<1>1. CASE Add(h)
  <2>1. PICK r \in Reminders : /\ reminder[r] = NoReminder
                               /\ \A g \in Handlers : r \notin handler[g].on
                               /\ Chooses(h, r, "add", "insert")
    BY <1>1 DEF Add
  <2>2. Absent(r) /\ "add" \in AllOps
    BY <2>1, RemindersFit DEF Absent, AllOps
  <2> QED
    BY <2>1, <2>2, ChoosesStep
<1>2. CASE Edit(h)
  <2>1. PICK r \in Reminders : IsWaiting(reminder[r]) /\ Chooses(h, r, "edit", "update")
    BY <1>2 DEF Edit
  <2>2. ~Absent(r) /\ "edit" \in AllOps
    BY <2>1 DEF IsWaiting, IInv, AbsentIsUntouched, AllOps
  <2> QED
    BY <2>1, <2>2, ChoosesStep
<1>3. CASE Remove(h)
  <2>1. PICK r \in Reminders :
          /\ reminder[r].enabled
          /\ Begin(h, "remove", "delete", [IdleHandler EXCEPT !.on = {r}])
    BY <1>3 DEF Remove
  <2>2. ~Absent(r) /\ "remove" \in AllOps /\ "delete" \in HandlerPcs
    BY <2>1 DEF IInv, AbsentIsUntouched, AllOps, HandlerPcs
  <2>3. [IdleHandler EXCEPT !.on = {r}] \in Handler /\ [IdleHandler EXCEPT !.on = {r}].on = {r}
    BY IdleFits DEF Handler
  <2>4. Fits("delete", [IdleHandler EXCEPT !.on = {r}], r)
    BY <2>2 DEF Fits
  <2> QED
    BY <2>1, <2>2, <2>3, <2>4, BeginStep
<1> QED
  BY <1>1, <1>2, <1>3

-----------------------------------------------------------------------------
(* Steps of a command.                                                     *)

\* What the step of a command that inserts nothing has to show.
LEMMA HandlerStep ==
  ASSUME IInv, NEW h \in Handlers, NEW x \in Handler, handler' = [handler EXCEPT ![h] = x],
         UNCHANGED <<worker, messages>>, UNCHANGED <<now, issued>>,
         faults' \in Nat, faults' >= faults,
         event' \in Event, reminder' \in [Reminders -> Reminder], row' \in [Reminders -> Row],
         stale' \in BOOLEAN,
         \A q \in Reminders :
           /\ Absent(q)' <=> Absent(q)
           /\ reminder'[q].enabled => reminder[q].enabled
           /\ reminder'[q].sent = reminder[q].sent
           /\ Absent(q) => row'[q].status = row[q].status,
         \A q \in x.on : x.pc = "rewrite" /\ ~Absent(q)
  PROVE  IInv'
<1>1. /\ worker' = worker /\ messages' = messages /\ now' = now /\ issued' = issued
  OBVIOUS
<1>2. /\ handler \in [Handlers -> Handler] /\ messages \in [Reminders -> Nat] /\ faults \in Nat
      /\ worker \in Worker /\ now \in Times /\ issued \in Nat
  BY Typed DEF IInv
<1>3. /\ handler' \in [Handlers -> Handler] /\ handler'[h] = x
      /\ \A g \in Handlers \ {h} : handler'[g] = handler[g]
  BY <1>2
<1>4. TypeOK'
  BY <1>1, <1>2, <1>3, TypeFrom
<1>5. ASSUME NEW g \in Handlers, NEW r \in Reminders, r \in handler'[g].on
      PROVE  HandlerIsSound(g, r)'
  <2>1. CASE g = h
    BY <1>3, <1>5, <2>1 DEF HandlerIsSound
  <2>2. CASE g # h
    <3>1. HandlerIsSound(g, r) /\ handler'[g] = handler[g] /\ r \in handler[g].on
      BY <1>3, <1>5, <2>2 DEF IInv
    <3>2. Absent(r) => r \notin handler'[h].on
      BY <1>3
    <3> QED
      BY <1>3, <3>1, <3>2 DEF HandlerIsSound
  <2> QED
    BY <2>1, <2>2
<1>6. \A g \in Handlers, r \in Reminders : HandlerIsSound(g, r)'
  BY <1>5 DEF HandlerIsSound
<1>7. ASSUME NEW r \in Reminders PROVE AbsentIsUntouched(r)' /\ SendIsCounted(r)'
  <2>1. AbsentIsUntouched(r) /\ SendIsCounted(r) /\ messages[r] \in Nat
    BY <1>2 DEF IInv
  <2>2. AbsentIsUntouched(r)'
    BY <1>1, <2>1 DEF AbsentIsUntouched
  <2>3. messages[r] <= faults => messages[r] <= faults'
    BY <1>2, <2>1
  <2>4. messages[r] <= 1 + faults => messages[r] <= 1 + faults'
    BY <1>2, <2>1
  <2>5. SendIsCounted(r)'
    BY <1>1, <2>1, <2>3, <2>4 DEF SendIsCounted, Executes
  <2> QED
    BY <2>2, <2>5
<1>8. ParkIsLater'
  BY <1>1 DEF IInv, ParkIsLater
<1> QED
  BY <1>4, <1>6, <1>7, <1>8 DEF IInv

LEMMA EndsIdle ==
  ASSUME NEW h \in Handlers, End(h)
  PROVE  handler' = [handler EXCEPT ![h] = IdleHandler] /\ IdleHandler \in Handler
         /\ IdleHandler.on = {}
BY IdleFits DEF End

\* Before it has listed reminders a command holds none.
LEMMA HoldsNone ==
  ASSUME IInv, NEW h \in Handlers,
         handler[h].pc \notin {"insert", "update", "delete", "rewrite"}
  PROVE  handler[h].on = {}
<1>1. handler[h] \in Handler
  BY Typed DEF IInv
<1>2. handler[h].on \subseteq Reminders
  BY <1>1 DEF Handler
<1> QED
  BY <1>2 DEF IInv, HandlerIsSound

LEMMA WriteStep == ASSUME IInv, NEW h \in Handlers, Write(h) PROVE IInv'
<1>1. /\ handler[h].pc = "write" /\ handler[h].op \in {"close", "cancel", "reopen", "move"}
      /\ reminder' = reminder /\ row' = row /\ stale' = stale
      /\ UNCHANGED <<worker, messages>> /\ now' = now /\ issued' = issued /\ faults' = faults
      /\ stale \in BOOLEAN
  BY DEF Write, At, Keep, counters, IInv, TypeOK
<1>2. /\ handler \in [Handlers -> Handler] /\ handler[h] \in Handler /\ event \in Event
      /\ reminder \in [Reminders -> Reminder] /\ row \in [Reminders -> Row] /\ faults \in Nat
      /\ now \in Nat
  BY Typed DEF IInv
<1>3. CASE event.status = handler[h].seen.status
  <2> DEFINE pc == IF handler[h].op = "cancel" THEN "retire" ELSE "reload"
             x == [handler[h] EXCEPT !.seen = Unread, !.to = 0, !.pc = pc]
  <2>1. /\ event' = Written(h) /\ handler' = [handler EXCEPT ![h] = x]
    BY <1>2, <1>3 DEF Write
  <2>2. Unread \in Event
    BY DEF Unread, Event, Status
  <2>3. x \in Handler /\ x.on = handler[h].on
    BY <1>2, <2>2 DEF Handler, HandlerPcs
  <2>4. handler[h].on = {}
    BY <1>1, HoldsNone
  <2>5. Written(h) \in Event
    <3> DEFINE seen == handler[h].seen  to == handler[h].to
    <3>1. seen.status \in Status /\ seen.starts \in Int /\ seen.closes \in Int /\ to \in Int
      BY <1>2 DEF Handler, Event
    <3> HIDE DEF seen, to
    <3>2. \A s \in Status : \A n, m \in Int :
            /\ [event EXCEPT !.status = s, !.closes = n] \in Event
            /\ [event EXCEPT !.status = s] \in Event
            /\ [event EXCEPT !.starts = m, !.closes = n, !.status = s] \in Event
      BY <1>2 DEF Event
    <3>3. {"closed", "cancelled", "open", "scheduled"} \subseteq Status /\ now \in Int
      BY <1>2 DEF Status
    <3>4. CASE handler[h].op = "close"
      BY <3>2, <3>3, <3>4 DEF Written
    <3>5. CASE handler[h].op = "cancel"
      BY <3>2, <3>3, <3>5 DEF Written
    <3>6. CASE handler[h].op = "reopen"
      BY <3>1, <3>2, <3>3, <3>6 DEF Written, to
    <3>7. CASE handler[h].op = "move"
      BY <3>1, <3>2, <3>3, <3>7 DEF Written, seen
    <3> QED
      BY <1>1, <3>4, <3>5, <3>6, <3>7
  <2> HIDE DEF x
  <2>6. event' \in Event /\ x.on = {} /\ faults' \in Nat /\ faults' >= faults
    BY <1>1, <1>2, <2>1, <2>3, <2>4, <2>5
  <2> QED
    BY <1>1, <1>2, <2>1, <2>3, <2>6, HandlerStep DEF Absent
<1>4. CASE event.status # handler[h].seen.status
  <2>1. End(h) /\ event' = event
    BY <1>4 DEF Write
  <2> QED
    BY <1>1, <1>2, <2>1, EndsIdle, HandlerStep DEF Absent
<1> QED
  BY <1>3, <1>4

LEMMA RetireStep == ASSUME IInv, NEW h \in Handlers, Retire(h) PROVE IInv'
<1>1. /\ row' = [r \in Reminders |-> Cancelled(row[r])] /\ End(h)
      /\ reminder' = reminder /\ event' = event /\ stale' = stale /\ stale \in BOOLEAN
      /\ UNCHANGED <<worker, messages>> /\ now' = now /\ issued' = issued /\ faults' = faults
  BY DEF Retire, Keep, counters, IInv, TypeOK
<1>2. /\ event \in Event /\ reminder \in [Reminders -> Reminder] /\ row \in [Reminders -> Row]
      /\ faults \in Nat
  BY Typed DEF IInv
<1>3. row' \in [Reminders -> Row]
  BY <1>1, <1>2, RowsFit
<1>4. ASSUME NEW q \in Reminders PROVE Absent(q) => row'[q].status = row[q].status
  <2>1. Absent(q) => row[q].status = "none"
    BY DEF IInv, AbsentIsUntouched
  <2> QED
    BY <1>1, <1>2, <2>1, RowsFit
<1> QED
  BY <1>1, <1>2, <1>3, <1>4, EndsIdle, HandlerStep DEF Absent

LEMMA ReloadStep == ASSUME IInv, NEW h \in Handlers, Reload(h) PROVE IInv'
<1> DEFINE x == [handler[h] EXCEPT !.pc = "list", !.seen = event]
<1>1. /\ handler[h].pc = "reload"
      /\ reminder' = reminder /\ event' = event /\ row' = row /\ stale' = stale
      /\ stale \in BOOLEAN
      /\ UNCHANGED <<worker, messages>> /\ now' = now /\ issued' = issued /\ faults' = faults
  BY DEF Reload, Keep, counters, IInv, TypeOK
<1>2. /\ event \in Event /\ reminder \in [Reminders -> Reminder] /\ row \in [Reminders -> Row]
      /\ faults \in Nat /\ handler \in [Handlers -> Handler] /\ handler[h] \in Handler
  BY Typed DEF IInv
<1>3. x \in Handler /\ x.on = handler[h].on /\ handler' = [handler EXCEPT ![h] = x]
  BY <1>2 DEF Handler, HandlerPcs, Reload
<1>4. handler[h].on = {}
  BY <1>1, HoldsNone
<1> HIDE DEF x
<1>5. x.on = {} /\ faults' \in Nat /\ faults' >= faults
  BY <1>1, <1>2, <1>3, <1>4
<1> QED
  BY <1>1, <1>2, <1>3, <1>5, HandlerStep DEF Absent

LEMMA ListStep == ASSUME IInv, NEW h \in Handlers, List(h) PROVE IInv'
<1> DEFINE waiting == {r \in Reminders : IsWaiting(reminder[r])}
           x == [handler[h] EXCEPT !.pc = "rewrite", !.listed = reminder, !.to = now,
                                   !.on = waiting]
<1>1. /\ reminder' = reminder /\ event' = event /\ row' = row /\ stale \in BOOLEAN
      /\ UNCHANGED <<worker, messages>> /\ now' = now /\ issued' = issued /\ faults' = faults
  BY DEF List, Keep, counters, IInv, TypeOK
<1>2. /\ event \in Event /\ reminder \in [Reminders -> Reminder] /\ row \in [Reminders -> Row]
      /\ faults \in Nat /\ handler \in [Handlers -> Handler] /\ handler[h] \in Handler
      /\ now \in Nat
  BY Typed DEF IInv
<1>3. stale' \in BOOLEAN
  BY <1>1 DEF List, Repaired
<1>4. CASE waiting = {}
  BY <1>1, <1>2, <1>3, <1>4, EndsIdle, HandlerStep DEF Absent, List
<1>5. CASE waiting # {}
  <2>1. handler' = [handler EXCEPT ![h] = x]
    BY <1>2, <1>5 DEF List
  <2>2. x \in Handler /\ x.on = waiting /\ x.pc = "rewrite"
    BY <1>2 DEF Handler, HandlerPcs
  <2>3. \A q \in waiting : ~Absent(q)
    BY DEF IsWaiting, IInv, AbsentIsUntouched
  <2> HIDE DEF x, waiting
  <2>4. \A q \in x.on : x.pc = "rewrite" /\ ~Absent(q)
    BY <2>2, <2>3
  <2>5. faults' \in Nat /\ faults' >= faults
    BY <1>1, <1>2
  <2> QED
    BY <1>1, <1>2, <1>3, <2>1, <2>2, <2>4, <2>5, HandlerStep DEF Absent
<1> QED
  BY <1>4, <1>5

LEMMA RewrittenFits ==
  ASSUME NEW m \in Reminder, NEW e \in Event, NEW stamp \in Nat, NEW a \in Row
  PROVE  Rewritten(m, e, stamp, a) \in Row
<1>1. DueAt(m.ref, m.minutes, e) \in Nat
  BY MinutesAreNatural, DueIsNatural
<1> QED
  BY <1>1, RowsFit DEF Rewritten

LEMMA RewriteStep ==
  ASSUME IInv, NEW h \in Handlers, NEW r \in Reminders, Rewrite(h, r) PROVE IInv'
<1> DEFINE a == Rewritten(handler[h].listed[r], handler[h].seen, handler[h].to, row[r])
           x == [handler[h] EXCEPT !.on = @ \ {r}]
<1>1. /\ handler[h].pc = "rewrite" /\ r \in handler[h].on /\ row' = [row EXCEPT ![r] = a]
      /\ reminder' = reminder /\ event' = event /\ stale \in BOOLEAN
      /\ UNCHANGED <<worker, messages>> /\ now' = now /\ issued' = issued /\ faults' = faults
  BY DEF Rewrite, Keep, counters, IInv, TypeOK
<1>2. /\ event \in Event /\ reminder \in [Reminders -> Reminder] /\ row \in [Reminders -> Row]
      /\ faults \in Nat /\ handler \in [Handlers -> Handler] /\ handler[h] \in Handler
  BY Typed DEF IInv
<1>3. a \in Row
  BY <1>2, RewrittenFits DEF Handler
<1> HIDE DEF a
<1>4. row' \in [Reminders -> Row] /\ \A q \in Reminders \ {r} : row'[q] = row[q]
  BY <1>1, <1>2, <1>3
<1>5. stale' \in BOOLEAN
  BY <1>1 DEF Rewrite, Repaired
<1>6. \A q \in handler[h].on : ~Absent(q)
  BY <1>1, <1>2 DEF IInv, HandlerIsSound, Handler
<1>7. faults' \in Nat /\ faults' >= faults
  BY <1>1, <1>2
<1>8. CASE handler[h].on = {r}
  <2>1. End(h)
    BY <1>8 DEF Rewrite
  <2> QED
    BY <1>1, <1>2, <1>4, <1>5, <1>6, <1>7, <2>1, EndsIdle, HandlerStep DEF Absent
<1>9. CASE handler[h].on # {r}
  <2>1. handler' = [handler EXCEPT ![h] = x]
    BY <1>2, <1>9 DEF Rewrite
  <2>2. x \in Handler /\ x.on = handler[h].on \ {r} /\ x.pc = "rewrite"
    BY <1>1, <1>2 DEF Handler
  <2> HIDE DEF x
  <2>3. \A q \in x.on : x.pc = "rewrite" /\ ~Absent(q)
    BY <1>6, <2>2
  <2> QED
    BY <1>1, <1>2, <1>4, <1>5, <1>6, <1>7, <2>1, <2>2, <2>3, HandlerStep DEF Absent
<1> QED
  BY <1>8, <1>9

LEMMA StampStep == ASSUME IInv, NEW h \in Handlers, Stamp(h) PROVE IInv'
<1> DEFINE x == [handler[h] EXCEPT !.pc = "commit", !.to = now]
<1>1. /\ handler[h].pc = "stamp"
      /\ reminder' = reminder /\ event' = event /\ row' = row /\ stale' = stale
      /\ stale \in BOOLEAN
      /\ UNCHANGED <<worker, messages>> /\ now' = now /\ issued' = issued /\ faults' = faults
  BY DEF Stamp, At, Keep, counters, IInv, TypeOK
<1>2. /\ event \in Event /\ reminder \in [Reminders -> Reminder] /\ row \in [Reminders -> Row]
      /\ faults \in Nat /\ handler \in [Handlers -> Handler] /\ handler[h] \in Handler
      /\ now \in Nat
  BY Typed DEF IInv
<1>3. x \in Handler /\ x.on = handler[h].on /\ handler' = [handler EXCEPT ![h] = x]
  BY <1>2 DEF Handler, HandlerPcs, Stamp
<1>4. handler[h].on = {}
  BY <1>1, HoldsNone
<1> HIDE DEF x
<1>5. x.on = {} /\ faults' \in Nat /\ faults' >= faults
  BY <1>1, <1>2, <1>3, <1>4
<1> QED
  BY <1>1, <1>2, <1>3, <1>5, HandlerStep DEF Absent

LEMMA PublishCommitStep == ASSUME IInv, NEW h \in Handlers, PublishCommit(h) PROVE IInv'
<1>1. /\ End(h) /\ reminder' = reminder /\ stale \in BOOLEAN
      /\ UNCHANGED <<worker, messages>> /\ now' = now /\ issued' = issued /\ faults' = faults
  BY DEF PublishCommit, Keep, counters, IInv, TypeOK
<1>2. /\ event \in Event /\ reminder \in [Reminders -> Reminder] /\ row \in [Reminders -> Row]
      /\ faults \in Nat /\ handler \in [Handlers -> Handler] /\ handler[h] \in Handler
  BY Typed DEF IInv
<1>3. handler[h].to \in Nat
  BY <1>2 DEF Handler
<1>4. ASSUME NEW q \in Reminders
      PROVE  /\ Resumed(q, handler[h].to) \in Row
             /\ Absent(q) => Resumed(q, handler[h].to) = row[q]
  <2>1. ~reminder[q].enabled => Resumed(q, handler[h].to) = row[q]
    BY DEF Resumed, IsWaiting
  <2>2. Absent(q) => ~reminder[q].enabled
    BY DEF IInv, AbsentIsUntouched
  <2>3. Resumed(q, handler[h].to) \in Row
    BY <1>2, <1>3, RowsFit DEF Resumed
  <2> QED
    BY <2>1, <2>2, <2>3
<1>5. /\ event' \in Event /\ row' \in [Reminders -> Row] /\ stale' \in BOOLEAN
      /\ \A q \in Reminders : Absent(q) => row'[q].status = row[q].status
  <2>1. CASE ~event.published /\ event.status \in {"scheduled", "open"}
    <3>1. event' = [event EXCEPT !.published = TRUE,
                      !.status = IF Signups(event) THEN "open" ELSE "scheduled"]
      BY <2>1 DEF PublishCommit
    <3>2. event' \in Event
      BY <1>2, <3>1 DEF Event, Status
    <3>3. row' = [r \in Reminders |-> Resumed(r, handler[h].to)] /\ stale' \in BOOLEAN
      BY <1>1, <2>1 DEF PublishCommit
    <3> QED
      BY <1>4, <3>2, <3>3
  <2>2. CASE ~(~event.published /\ event.status \in {"scheduled", "open"})
    BY <1>1, <1>2, <2>2 DEF PublishCommit
  <2> QED
    BY <2>1, <2>2
<1>6. faults' \in Nat /\ faults' >= faults
  BY <1>1, <1>2
<1> QED
  BY <1>1, <1>2, <1>5, <1>6, EndsIdle, HandlerStep DEF Absent

LEMMA UpdateOrDeleteStep ==
  ASSUME IInv, NEW h \in Handlers, NEW r \in Reminders, Update(h, r) \/ Delete(h, r)
  PROVE  IInv'
<1>1. /\ handler[h].pc \in {"update", "delete"} /\ r \in handler[h].on /\ End(h)
      /\ event' = event /\ stale' = stale /\ stale \in BOOLEAN
      /\ UNCHANGED <<worker, messages>> /\ now' = now /\ issued' = issued /\ faults' = faults
  BY DEF Update, Delete, At, Keep, counters, IInv, TypeOK
<1>2. /\ event \in Event /\ reminder \in [Reminders -> Reminder] /\ row \in [Reminders -> Row]
      /\ faults \in Nat /\ handler \in [Handlers -> Handler] /\ handler[h] \in Handler
      /\ handler[h].listed[r] \in Reminder /\ handler[h].to \in Nat
  BY Typed DEF IInv, Handler
<1>3. /\ ~Absent(r)
      /\ handler[h].pc = "update" => handler[h].listed[r].ref \in References
  BY <1>1 DEF IInv, HandlerIsSound
<1>4. /\ reminder' \in [Reminders -> Reminder] /\ row' \in [Reminders -> Row]
      /\ \A q \in Reminders \ {r} : reminder'[q] = reminder[q] /\ row'[q] = row[q]
      /\ reminder'[r].enabled => reminder[r].enabled
      /\ reminder'[r].sent = reminder[r].sent
      /\ reminder'[r].ref # "none"
  <2>1. CASE Update(h, r)
    <3> DEFINE m == [reminder[r] EXCEPT !.ref = handler[h].listed[r].ref,
                                        !.minutes = handler[h].listed[r].minutes]
    <3>1. /\ reminder' = [reminder EXCEPT ![r] = m] /\ row' = [row EXCEPT ![r] = Armed(handler[h].to)]
          /\ handler[h].listed[r].ref \in References
      BY <1>2, <1>3, <2>1 DEF Update, At
    <3>2. /\ m \in Reminder /\ m.enabled = reminder[r].enabled /\ m.sent = reminder[r].sent
          /\ m.ref = handler[h].listed[r].ref
      BY <1>2 DEF Reminder
    <3>3. m.ref # "none" /\ Armed(handler[h].to) \in Row
      BY <1>2, <3>1, <3>2, RowsFit DEF References
    <3> HIDE DEF m
    <3> QED
      BY <1>2, <3>1, <3>2, <3>3
  <2>2. CASE Delete(h, r)
    <3> DEFINE m == [reminder[r] EXCEPT !.enabled = FALSE]
    <3>1. reminder' = [reminder EXCEPT ![r] = m] /\ row' = [row EXCEPT ![r] = Cancelled(row[r])]
      BY <1>2, <2>2 DEF Delete
    <3>2. /\ m \in Reminder /\ ~m.enabled /\ m.sent = reminder[r].sent
          /\ m.ref = reminder[r].ref /\ Cancelled(row[r]) \in Row
      BY <1>2, RowsFit DEF Reminder
    <3> HIDE DEF m
    <3> QED
      BY <1>2, <1>3, <3>1, <3>2 DEF Absent
  <2> QED
    BY <2>1, <2>2
<1>5. \A q \in Reminders : /\ Absent(q)' <=> Absent(q)
                           /\ reminder'[q].enabled => reminder[q].enabled
                           /\ reminder'[q].sent = reminder[q].sent
                           /\ Absent(q) => row'[q].status = row[q].status
  BY <1>3, <1>4 DEF Absent
<1>6. faults' \in Nat /\ faults' >= faults
  BY <1>1, <1>2
<1> QED
  BY <1>1, <1>2, <1>4, <1>5, <1>6, EndsIdle, HandlerStep

LEMMA HandlerLostStep == ASSUME IInv, NEW h \in Handlers, HandlerLost(h) PROVE IInv'
<1>1. /\ End(h) /\ stale' = TRUE /\ faults' = faults + 1
      /\ reminder' = reminder /\ event' = event /\ row' = row
      /\ UNCHANGED <<worker, messages>> /\ now' = now /\ issued' = issued
  BY DEF HandlerLost, Fault
<1>2. /\ event \in Event /\ reminder \in [Reminders -> Reminder] /\ row \in [Reminders -> Row]
      /\ faults \in Nat
  BY Typed DEF IInv
<1>3. faults' \in Nat /\ faults' >= faults
  BY <1>1, <1>2
<1> QED
  BY <1>1, <1>2, <1>3, EndsIdle, HandlerStep DEF Absent

\* The only step that makes a reminder exist: nobody else was about to.
LEMMA InsertStep ==
  ASSUME IInv, NEW h \in Handlers, NEW r \in Reminders, Insert(h, r) PROVE IInv'
<1>1. /\ handler[h].pc = "insert" /\ r \in handler[h].on /\ End(h)
      /\ reminder' = [reminder EXCEPT ![r] = handler[h].listed[r]]
      /\ row' = [row EXCEPT ![r] = Armed(handler[h].to)]
      /\ event' = event /\ stale' = stale /\ stale \in BOOLEAN
      /\ worker' = worker /\ messages' = messages /\ now' = now /\ issued' = issued
      /\ faults' = faults
  BY DEF Insert, At, Keep, counters, IInv, TypeOK
<1>2. /\ event \in Event /\ reminder \in [Reminders -> Reminder] /\ row \in [Reminders -> Row]
      /\ faults \in Nat /\ handler \in [Handlers -> Handler] /\ handler[h] \in Handler
      /\ messages \in [Reminders -> Nat] /\ worker \in Worker /\ now \in Times /\ issued \in Nat
      /\ handler[h].listed[r] \in Reminder /\ handler[h].to \in Nat
  BY Typed DEF IInv, Handler
<1>3. /\ Absent(r) /\ handler[h].listed[r].ref \in References
      /\ \A g \in Handlers \ {h} : r \notin handler[g].on
      /\ messages[r] = 0
  BY <1>1 DEF IInv, HandlerIsSound, AbsentIsUntouched
<1>4. /\ handler' \in [Handlers -> Handler] /\ handler'[h].on = {}
      /\ \A g \in Handlers \ {h} : handler'[g] = handler[g]
  BY <1>1, <1>2, EndsIdle
<1>5. /\ reminder' \in [Reminders -> Reminder] /\ row' \in [Reminders -> Row]
      /\ reminder'[r].ref # "none"
      /\ \A q \in Reminders \ {r} : reminder'[q] = reminder[q] /\ row'[q] = row[q]
  BY <1>1, <1>2, <1>3, RowsFit DEF References
<1>6. TypeOK'
  BY <1>1, <1>2, <1>4, <1>5, TypeFrom
<1>7. ASSUME NEW g \in Handlers, NEW q \in Reminders, q \in handler'[g].on
      PROVE  HandlerIsSound(g, q)'
  <2>1. g # h /\ q # r /\ HandlerIsSound(g, q) /\ q \in handler[g].on
    BY <1>3, <1>4, <1>7 DEF IInv
  <2>2. Absent(q)' <=> Absent(q)
    BY <1>5, <2>1 DEF Absent
  <2> QED
    BY <1>4, <2>1, <2>2 DEF HandlerIsSound
<1>8. \A g \in Handlers, q \in Reminders : HandlerIsSound(g, q)'
  BY <1>7 DEF HandlerIsSound
<1>9. ASSUME NEW q \in Reminders PROVE AbsentIsUntouched(q)' /\ SendIsCounted(q)'
  <2>1. AbsentIsUntouched(q) /\ SendIsCounted(q)
    BY DEF IInv
  <2>2. CASE q = r
    <3>1. messages'[r] <= faults' /\ messages'[r] <= 1 + faults'
      BY <1>1, <1>2, <1>3
    <3> QED
      BY <1>5, <2>2, <3>1 DEF AbsentIsUntouched, SendIsCounted, Absent
  <2>3. CASE q # r
    BY <1>1, <1>5, <2>1, <2>3 DEF AbsentIsUntouched, SendIsCounted, Absent, Executes
  <2> QED
    BY <2>2, <2>3
<1>10. ParkIsLater'
  BY <1>1 DEF IInv, ParkIsLater
<1> QED
  BY <1>6, <1>8, <1>9, <1>10 DEF IInv

-----------------------------------------------------------------------------
(* The schedule: the inductive invariant.                                  *)

Useful(r) == IsWaiting(reminder[r]) /\ CanBeSent(reminder[r], event)
Due(r) == DueAt(reminder[r].ref, reminder[r].minutes, event)
Reference(r) == ReferenceTime(reminder[r].ref, event)

\* A useful reminder has its row, and the executor will not take that away: it
\* may only park the row, until the time that makes the reminder useless.
Kept(r) ==
  Useful(r) =>
    /\ IsScheduled(r)
    /\ Executes("settle", r) => ~Fence(r)
    /\ Executes("park", r) /\ Fence(r) =>
         /\ worker.reference = Reference(r) /\ Due(r) <= now
         /\ ~event.published \/ Reference(r) <= now

\* Where that holds: on a schedule that is not stale, but for the rows that a
\* rescheduling in flight is about to rewrite; and, on a stale schedule, on the
\* rows that a rescheduling has rewritten that is alone.
Rewrites(h, r) == \/ handler[h].pc \in {"reload", "list"}
                  \/ handler[h].pc = "rewrite" /\ r \in handler[h].on
HasRewritten(h, r) == handler[h].alone /\ handler[h].pc = "rewrite" /\ r \notin handler[h].on
Watched(r) == \/ ~stale /\ \A h \in Handlers : ~Rewrites(h, r)
              \/ \E h \in Handlers : HasRewritten(h, r)

\* A command that is alone is the only one, and without it the schedule is stale.
Lone(h) ==
  handler[h].pc # "idle" =>
    /\ handler[h].alone => \A g \in Handlers \ {h} : handler[g].pc = "idle"
    /\ ~stale => handler[h].alone

\* An event that was read has kept its times, and only the scheduler went on.
IsRecent(e) ==
  /\ e.starts = event.starts /\ e.closes = event.closes
  /\ Over(e) => Over(event)
  /\ e.status = "closed" => Over(event) \/ event.status = "closed"

\* What a command has read is true while it is alone.
Knows(h) ==
  handler[h].alone =>
    /\ handler[h].pc = "retire" => Over(event)
    /\ handler[h].pc \in {"list", "rewrite"} => IsRecent(handler[h].seen)
    /\ handler[h].pc = "rewrite" =>
         /\ handler[h].to <= now
         /\ \A r \in handler[h].on : /\ handler[h].listed[r].ref = reminder[r].ref
                                     /\ handler[h].listed[r].minutes = reminder[r].minutes
    /\ handler[h].pc \in {"insert", "update"} =>
         \A r \in handler[h].on :
           handler[h].to = DueAt(handler[h].listed[r].ref, handler[h].listed[r].minutes, event)

\* A row was due when it was claimed, and it is not given back for ever.
RowIsClaimable(r) ==
  /\ row[r].status \in {"processing", "failed"} => row[r].due <= now
  /\ row[r].status = "pending" => row[r].attempt < MaxAttempts

SInv ==
  /\ worker.pc = "idle" => worker.on = {}
  /\ \A h \in Handlers : Lone(h) /\ Knows(h)
  /\ \A r \in Reminders : RowIsClaimable(r) /\ (Watched(r) => Kept(r))

-----------------------------------------------------------------------------
(* The schedule: steps of the clock and of the scheduler.                  *)

LEMMA TimesAreTyped ==
  ASSUME TypeOK, NEW r \in Reminders
  PROVE  /\ Due(r) \in Nat /\ Reference(r) \in Int /\ now \in Nat /\ row[r] \in Row
         /\ row[r].due \in Nat /\ row[r].attempt \in Nat /\ MaxAttempts \in Nat \ {0}
         /\ reminder[r] \in Reminder /\ event \in Event
         /\ event.starts \in Int /\ event.closes \in Int
<1>1. /\ event \in Event /\ reminder[r] \in Reminder /\ now \in Nat /\ row[r] \in Row
  BY Typed
<1>2. Due(r) \in Nat /\ Reference(r) \in Int
  BY <1>1, DueIsNatural, MinutesAreNatural DEF Due, Reference
<1> QED
  BY <1>1, <1>2, BoundsAssumption DEF Row, Event

\* The scheduler closes and completes: what is useful after that was before.
LEMMA EventKeeps ==
  ASSUME IInv, SInv, Tick \/ CloseOnTime \/ Complete PROVE SInv'
<1>1. /\ UNCHANGED <<reminder, row, worker, handler, stale>>
      /\ now \in Nat /\ now' \in Nat /\ now <= now'
      /\ event'.starts = event.starts /\ event'.closes = event.closes
      /\ event'.published = event.published
      /\ \/ event'.status = event.status
         \/ event'.status = "completed" /\ ~Over(event)
         \/ event'.status = "closed" /\ event.status \in {"scheduled", "open"}
  <2>1. event \in Event /\ now \in Nat
    BY Typed DEF IInv
  <2>2. CASE Tick
    BY <2>1, <2>2 DEF Tick
  <2>3. CASE CloseOnTime
    <3>1. event' = [event EXCEPT !.status = "closed"]
          /\ event.status \in {"scheduled", "open"}
      BY <2>3 DEF CloseOnTime, EventEnds
    <3>2. UNCHANGED <<reminder, row, worker, handler, stale, now>>
      BY <2>3 DEF CloseOnTime, EventEnds, counters
    <3> QED
      BY <2>1, <3>1, <3>2 DEF Event
  <2>4. CASE Complete
    <3>1. event' = [event EXCEPT !.status = "completed"]
          /\ event.status \in {"scheduled", "open", "closed"}
      BY <2>4 DEF Complete, EventEnds
    <3>2. UNCHANGED <<reminder, row, worker, handler, stale, now>>
      BY <2>4 DEF Complete, EventEnds, counters
    <3> QED
      BY <2>1, <3>1, <3>2 DEF Event, Over
  <2> QED
    BY <2>2, <2>3, <2>4
<1>2. /\ reminder' = reminder /\ row' = row /\ worker' = worker /\ handler' = handler
      /\ stale' = stale
  BY <1>1
<1>3. \A h \in Handlers : Lone(h)'
  BY <1>2 DEF SInv, Lone
<1>4. \A ref, minutes : /\ ReferenceTime(ref, event') = ReferenceTime(ref, event)
                        /\ DueAt(ref, minutes, event') = DueAt(ref, minutes, event)
  BY <1>1 DEF ReferenceTime, DueAt
<1>5. ASSUME NEW h \in Handlers PROVE Knows(h)'
  <2>1. Knows(h) /\ handler[h].to \in Nat
    BY Typed DEF SInv, IInv, Handler
  <2>2. Over(event) => Over(event')
    BY <1>1 DEF Over
  <2>3. \A e : IsRecent(e) => IsRecent(e)'
    BY <1>1, <2>2 DEF IsRecent, Over
  <2> QED
    BY <1>1, <1>2, <1>4, <2>1, <2>2, <2>3 DEF Knows
<1>6. ASSUME NEW r \in Reminders PROVE RowIsClaimable(r)' /\ (Watched(r)' => Kept(r)')
  <2>1. RowIsClaimable(r) /\ (Watched(r) => Kept(r)) /\ row[r].due \in Nat
        /\ Due(r) \in Nat /\ Reference(r) \in Int
    BY TimesAreTyped DEF SInv, IInv
  <2>2. RowIsClaimable(r)'
    BY <1>1, <1>2, <2>1 DEF RowIsClaimable
  <2>3. Watched(r)' => Watched(r)
    BY <1>2 DEF Watched, Rewrites, HasRewritten
  <2>4. Useful(r)' => Useful(r)
    BY <1>1, <1>2 DEF Useful, CanBeSent, IsUseless, Over, Signups
  <2>5. Due(r)' = Due(r) /\ Reference(r)' = Reference(r)
    BY <1>2, <1>4 DEF Due, Reference
  <2>6. IsScheduled(r) => IsScheduled(r)'
    BY <1>1, <1>2, <2>1, <2>5 DEF IsScheduled, Due, Reference
  <2>7. /\ Executes("settle", r)' <=> Executes("settle", r)
        /\ Executes("park", r)' <=> Executes("park", r)
        /\ Fence(r)' <=> Fence(r)
    BY <1>2 DEF Executes, Fence
  <2>8. Kept(r) => Kept(r)'
    BY <1>1, <1>2, <2>1, <2>4, <2>5, <2>6, <2>7 DEF Kept
  <2> QED
    BY <2>1, <2>2, <2>3, <2>8
<1> QED
  BY <1>2, <1>3, <1>5, <1>6 DEF SInv

\* What a step of the scheduler on one row has to show.
LEMMA RowKeeps ==
  ASSUME IInv, SInv, NEW r \in Reminders,
         UNCHANGED <<handler, event, stale, now>>,
         worker'.on \subseteq {r}, worker'.pc = "idle" => worker'.on = {},
         \A q \in Reminders \ {r} : row'[q] = row[q] /\ reminder'[q] = reminder[q],
         reminder'[r].ref = reminder[r].ref, reminder'[r].minutes = reminder[r].minutes,
         RowIsClaimable(r)', Kept(r) => Kept(r)'
  PROVE  SInv'
<1>1. handler' = handler /\ event' = event /\ stale' = stale /\ now' = now
  OBVIOUS
<1>2. \A h \in Handlers : Lone(h)'
  BY <1>1 DEF SInv, Lone
<1>3. \A q \in Reminders : /\ reminder'[q].ref = reminder[q].ref
                           /\ reminder'[q].minutes = reminder[q].minutes
  OBVIOUS
<1>4. ASSUME NEW h \in Handlers PROVE Knows(h)'
  <2>1. \A e : IsRecent(e) => IsRecent(e)'
    BY <1>1 DEF IsRecent
  <2>2. Knows(h) /\ handler[h].on \subseteq Reminders
    BY Typed DEF SInv, IInv, Handler
  <2> QED
    BY <1>1, <1>3, <2>1, <2>2 DEF Knows
<1>5. ASSUME NEW q \in Reminders PROVE RowIsClaimable(q)' /\ (Watched(q)' => Kept(q)')
  <2>1. RowIsClaimable(q) /\ (Watched(q) => Kept(q))
    BY DEF SInv
  <2>2. Watched(q)' => Watched(q)
    BY <1>1 DEF Watched, Rewrites, HasRewritten
  <2>3. CASE q = r
    BY <2>1, <2>2, <2>3
  <2>4. CASE q # r
    <3>1. row'[q] = row[q] /\ reminder'[q] = reminder[q]
      BY <2>4
    <3>2. ~Executes("settle", q)' /\ ~Executes("park", q)'
      BY <2>4 DEF Executes
    <3>3. RowIsClaimable(q)'
      BY <1>1, <2>1, <3>1 DEF RowIsClaimable
    <3>4. Kept(q) => Kept(q)'
      BY <1>1, <3>1, <3>2 DEF Kept, Useful, IsScheduled
    <3> QED
      BY <2>1, <2>2, <3>3, <3>4
  <2> QED
    BY <2>3, <2>4
<1> QED
  BY <1>2, <1>4, <1>5 DEF SInv

\* The row alone, which stays where it is due.
LEMMA ScheduledIsKept ==
  ASSUME NEW r \in Reminders, UNCHANGED <<event, now, reminder>>, Kept(r),
         row'[r].due = row[r].due, row'[r].status \in Live \cup {"failed"},
         worker'.pc \notin {"settle", "park"}
  PROVE  Kept(r)'
<1>1. event' = event /\ now' = now /\ reminder' = reminder
  OBVIOUS
<1>2. ~Executes("settle", r)' /\ ~Executes("park", r)'
  BY DEF Executes
<1> QED
  BY <1>1, <1>2 DEF Kept, Useful, IsScheduled

LEMMA ClaimKeeps == ASSUME IInv, SInv, NEW r \in Reminders, Claim(r) PROVE SInv'
<1>1. /\ row[r].status = "pending" /\ row[r].due <= now /\ row[r].attempt < MaxAttempts
      /\ row' = [row EXCEPT ![r].status = "processing", ![r].attempt = @ + 1]
      /\ worker' = [pc |-> "read", on |-> {r}, attempt |-> row[r].attempt + 1, reference |-> 0]
      /\ UNCHANGED <<handler, event, stale, now, reminder>>
  BY DEF Claim, Scheduled, counters
<1>2. row \in [Reminders -> Row] /\ row[r] \in Row
  BY Typed DEF IInv
<1>3. /\ row'[r].status = "processing" /\ row'[r].due = row[r].due
      /\ \A q \in Reminders \ {r} : row'[q] = row[q]
  BY <1>1, <1>2 DEF Row
<1>4. worker'.pc = "read" /\ worker'.on = {r}
  BY <1>1
<1>5. RowIsClaimable(r)'
  BY <1>1, <1>3 DEF RowIsClaimable
<1>6. Kept(r) => Kept(r)'
  BY <1>1, <1>3, <1>4, ScheduledIsKept DEF Live
<1> QED
  BY <1>1, <1>3, <1>4, <1>5, <1>6, RowKeeps

LEMMA ReadKeeps == ASSUME IInv, SInv, NEW r \in Reminders, Read(r) PROVE SInv'
<1> DEFINE m == reminder[r]
           o == Outcome(m, event)
<1>1. /\ worker.pc = "read" /\ worker.on = {r}
      /\ worker' = [worker EXCEPT !.pc = o, !.reference = ReferenceTime(m.ref, event)]
      /\ UNCHANGED <<handler, event, stale, now, reminder, row>>
  BY DEF Read, Executes, Scheduled, counters
<1>2. worker \in Worker
  BY Typed DEF IInv
<1>3. /\ worker'.pc = o /\ worker'.on = {r} /\ worker'.reference = Reference(r)
      /\ worker'.attempt = worker.attempt
  BY <1>1, <1>2 DEF Worker, Reference
<1>4. /\ o \in {"settle", "miss", "park", "send"}
      /\ o = "settle" => ~Useful(r)
      /\ o = "park" => ~event.published
  <2>1. Useful(r) => ~IsDone(m) /\ ~Over(event)
    BY DEF Useful, CanBeSent, IsWaiting, IsDone, IsUseless
  <2>2. Useful(r) /\ event.published => ~(m.ref = "signup_close" /\ event.status # "open")
    BY DEF Useful, CanBeSent
  <2> QED
    BY <2>1, <2>2 DEF Outcome
<1> HIDE DEF o
<1>5. RowIsClaimable(r)'
  BY <1>1 DEF SInv, RowIsClaimable
<1>6. ASSUME Kept(r) PROVE Kept(r)'
  <2> SUFFICES ASSUME Useful(r)' PROVE /\ IsScheduled(r)' /\ (Executes("settle", r)' => ~Fence(r)')
                /\ (Executes("park", r)' /\ Fence(r)' =>
                      /\ worker'.reference = Reference(r)' /\ Due(r)' <= now'
                      /\ ~event'.published \/ Reference(r)' <= now')
    BY DEF Kept
  <2>1. Useful(r) /\ IsScheduled(r)
    BY <1>1, <1>6 DEF Useful, Kept
  <2>2. IsScheduled(r)' /\ Reference(r)' = Reference(r) /\ Due(r)' = Due(r)
    BY <1>1, <2>1 DEF IsScheduled, Reference, Due
  <2>3. ~Executes("settle", r)'
    BY <1>3, <1>4, <2>1 DEF Executes
  <2>4. ASSUME Fence(r)' PROVE Due(r) <= now
    <3>1. row[r].status = "processing"
      BY <1>1, <2>4 DEF Fence
    <3>2. row[r].due <= now
      BY <3>1 DEF SInv, RowIsClaimable
    <3> QED
      BY <2>1, <3>2 DEF IsScheduled, Due
  <2> QED
    BY <1>1, <1>3, <1>4, <2>2, <2>3, <2>4 DEF Executes
<1>7. worker'.pc # "idle" /\ worker'.on \subseteq {r}
  BY <1>3, <1>4
<1> QED
  BY <1>1, <1>5, <1>6, <1>7, RowKeeps

LEMMA ParkKeeps == ASSUME IInv, SInv, NEW r \in Reminders, Park(r) PROVE SInv'
<1>1. /\ worker.pc = "park" /\ worker.on = {r}
      /\ row' = IF Fence(r) THEN [row EXCEPT ![r] = Armed(worker.reference)] ELSE row
      /\ worker' = [worker EXCEPT !.pc = "settle"]
      /\ UNCHANGED <<handler, event, stale, now, reminder>>
  BY DEF Park, WorkerAt, Executes, Scheduled, counters
<1>2. worker \in Worker /\ row \in [Reminders -> Row] /\ MaxAttempts \in Nat \ {0}
  BY Typed, BoundsAssumption DEF IInv
<1>3. /\ \A q \in Reminders \ {r} : row'[q] = row[q]
      /\ Fence(r) => row'[r] = Armed(worker.reference)
      /\ ~Fence(r) => row'[r] = row[r]
  BY <1>1, <1>2
<1>4. worker'.pc = "settle" /\ worker'.on = {r} /\ worker'.attempt = worker.attempt
  BY <1>1, <1>2 DEF Worker
<1>5. RowIsClaimable(r)'
  BY <1>1, <1>2, <1>3 DEF SInv, RowIsClaimable, Armed
<1>6. ASSUME Kept(r) PROVE Kept(r)'
  <2>1. /\ ~Executes("park", r)' /\ Executes("park", r)
        /\ Useful(r)' <=> Useful(r)
    BY <1>1, <1>4 DEF Executes, Useful
  <2>2. ~Fence(r)'
    BY <1>3, <1>4 DEF Fence, Armed
  <2>3. Useful(r) => IsScheduled(r)'
    <3>1. CASE Fence(r)
      <4>1. row'[r].status = "pending" /\ row'[r].due = worker.reference
        BY <1>3, <3>1 DEF Armed
      <4> QED
        BY <1>1, <1>6, <2>1, <3>1, <4>1 DEF Kept, IsScheduled, Due, Reference, Live
    <3>2. CASE ~Fence(r)
      BY <1>1, <1>3, <1>6, <3>2 DEF Kept, IsScheduled
    <3> QED
      BY <3>1, <3>2
  <2> QED
    BY <2>1, <2>2, <2>3 DEF Kept
<1> QED
  BY <1>1, <1>3, <1>4, <1>5, <1>6, RowKeeps

LEMMA SettleKeeps == ASSUME IInv, SInv, NEW r \in Reminders, Settle(r) PROVE SInv'
<1>1. /\ Executes("settle", r) /\ worker' = IdleWorker
      /\ row' = IF Fence(r) THEN [row EXCEPT ![r].status = "completed"] ELSE row
      /\ UNCHANGED <<handler, event, stale, now, reminder>>
  BY DEF Settle, Scheduled, counters
<1>2. row \in [Reminders -> Row] /\ row[r] \in Row
  BY Typed DEF IInv
<1>3. /\ \A q \in Reminders \ {r} : row'[q] = row[q]
      /\ Fence(r) => row'[r].status = "completed"
      /\ ~Fence(r) => row'[r] = row[r]
  BY <1>1, <1>2 DEF Row
<1>4. worker'.pc = "idle" /\ worker'.on = {}
  BY <1>1 DEF IdleWorker
<1>5. RowIsClaimable(r)'
  BY <1>1, <1>3 DEF SInv, RowIsClaimable
<1>6. ASSUME Kept(r) PROVE Kept(r)'
  <2>1. ~Executes("settle", r)' /\ ~Executes("park", r)' /\ (Useful(r)' <=> Useful(r))
    BY <1>1, <1>4 DEF Executes, Useful
  <2>2. Useful(r) => IsScheduled(r)'
    BY <1>1, <1>3, <1>6 DEF Kept, IsScheduled
  <2> QED
    BY <2>1, <2>2 DEF Kept
<1> QED
  BY <1>1, <1>3, <1>4, <1>5, <1>6, RowKeeps

\* A claimed row that is given back.
LEMMA GivenBackIsKept ==
  ASSUME IInv, SInv, NEW r \in Reminders, UNCHANGED <<handler, event, stale, now, reminder>>,
         row' = [row EXCEPT ![r] = GivenBack(@)], row[r].status = "processing",
         worker' = IdleWorker \/ (worker' = worker /\ worker.pc = "idle")
  PROVE  SInv'
<1>1. row \in [Reminders -> Row] /\ row[r] \in Row
  BY Typed DEF IInv
<1>2. /\ \A q \in Reminders \ {r} : row'[q] = row[q]
      /\ row'[r].due = row[r].due /\ row'[r].attempt = row[r].attempt
      /\ row'[r].status = IF row[r].attempt < MaxAttempts THEN "pending" ELSE "failed"
  BY <1>1 DEF GivenBack, Row
<1>3. worker'.pc = "idle" /\ worker'.on = {}
  BY DEF IdleWorker, SInv
<1>4. RowIsClaimable(r)'
  BY <1>2 DEF SInv, RowIsClaimable
<1>5. Kept(r) => Kept(r)'
  BY <1>2, <1>3, ScheduledIsKept DEF Live
<1> QED
  BY <1>2, <1>3, <1>4, <1>5, RowKeeps

LEMMA RecoverKeeps ==
  ASSUME IInv, SInv, NEW r \in Reminders, RecoverStaleActions(r) PROVE SInv'
BY GivenBackIsKept DEF RecoverStaleActions, IsLost, Scheduled, counters

LEMMA WorkerLostKeeps == ASSUME IInv, SInv, NEW r \in Reminders, WorkerLost(r) PROVE SInv'
<1>1. worker' = IdleWorker /\ UNCHANGED <<handler, event, stale, now, reminder>>
  BY DEF WorkerLost
<1>2. CASE UNCHANGED row
  <2>1. worker'.pc = "idle" /\ worker'.on = {}
    BY <1>1 DEF IdleWorker
  <2>2. ~Executes("settle", r)' /\ ~Executes("park", r)'
    BY <2>1 DEF Executes
  <2>3. RowIsClaimable(r)' /\ (Kept(r) => Kept(r)')
    BY <1>1, <1>2, <2>2 DEF SInv, RowIsClaimable, Kept, Useful, IsScheduled
  <2> QED
    BY <1>1, <1>2, <2>1, <2>3, RowKeeps
<1>3. CASE Fence(r) /\ row' = [row EXCEPT ![r] = GivenBack(@)]
  <2>1. row[r].status = "processing"
    BY <1>3 DEF Fence
  <2> QED
    BY <1>1, <1>3, <2>1, GivenBackIsKept
<1> QED
  BY <1>2, <1>3 DEF WorkerLost

\* Sending, and what is recorded of it.
LEMMA SendKeeps ==
  ASSUME IInv, SInv, NEW r \in Reminders, Miss(r) \/ Send(r) \/ Record(r) PROVE SInv'
<1>1. worker.on = {r} /\ UNCHANGED <<handler, event, stale, now, row>>
  BY DEF Miss, Send, Record, Executes, Scheduled, counters
<1>2. worker \in Worker /\ reminder \in [Reminders -> Reminder] /\ reminder[r] \in Reminder
  BY Typed DEF IInv
<1>3. RowIsClaimable(r)'
  BY <1>1 DEF SInv, RowIsClaimable
<1>4. CASE Send(r)
  <2>1. worker'.pc = "record" /\ worker'.on = {r} /\ reminder' = reminder
    BY <1>1, <1>2, <1>4 DEF Send, WorkerAt, Worker
  <2>2. ~Executes("settle", r)' /\ ~Executes("park", r)'
    BY <2>1 DEF Executes
  <2>3. Kept(r) => Kept(r)'
    BY <1>1, <2>1, <2>2 DEF Kept, Useful, IsScheduled
  <2> QED
    BY <1>1, <1>3, <2>1, <2>3, RowKeeps
<1>5. CASE Miss(r) \/ Record(r)
  <2>1. worker'.pc = "settle" /\ worker'.on = {r}
    BY <1>1, <1>2, <1>5 DEF Miss, Record, WorkerAt, Worker
  <2>2. /\ \A q \in Reminders \ {r} : reminder'[q] = reminder[q]
        /\ reminder'[r].ref = reminder[r].ref /\ reminder'[r].minutes = reminder[r].minutes
        /\ ~IsWaiting(reminder'[r])
    BY <1>2, <1>5 DEF Miss, Record, IsWaiting, Reminder
  <2>3. Kept(r)'
    BY <2>2 DEF Kept, Useful
  <2> QED
    BY <1>1, <1>3, <2>1, <2>2, <2>3, RowKeeps
<1> QED
  BY <1>4, <1>5

-----------------------------------------------------------------------------
(* The schedule: steps of the commands.                                    *)

\* Before a step of a command that is alone.
LEMMA AloneKeeps ==
  ASSUME SInv, NEW h \in Handlers, handler[h].pc # "idle", handler[h].alone,
         NEW r \in Reminders, ~Rewrites(h, r), ~stale \/ HasRewritten(h, r)
  PROVE  Kept(r)
<1>1. \A g \in Handlers \ {h} : handler[g].pc = "idle"
  BY DEF SInv, Lone
<1>2. \A g \in Handlers : ~Rewrites(g, r)
  BY <1>1 DEF Rewrites
<1>3. Watched(r)
  BY <1>2 DEF Watched
<1> QED
  BY <1>3 DEF SInv

\* What a step of a command has to show: only of the rows that it leaves watched,
\* and only if it is alone.
LEMMA HandlerKeeps ==
  ASSUME IInv, SInv, NEW h \in Handlers, handler[h].pc # "idle", NEW x,
         handler' = [handler EXCEPT ![h] = x],
         x.pc # "idle" => x.alone = handler[h].alone,
         stale \in BOOLEAN, ~stale' => ~stale \/ handler[h].alone,
         UNCHANGED <<worker, now>>,
         \A q \in Reminders : RowIsClaimable(q)',
         handler[h].alone => Knows(h)',
         \A q \in Reminders :
           handler[h].alone /\ ~Rewrites(h, q)' /\ (~stale' \/ HasRewritten(h, q)')
             => Kept(q)'
  PROVE  SInv'
<1>1. /\ handler \in [Handlers -> Handler] /\ handler'[h] = x
      /\ \A g \in Handlers \ {h} : handler'[g] = handler[g]
  BY Typed DEF IInv
<1>2. \A g \in Handlers : Lone(g)
  BY DEF SInv
<1>3. ~stale' => handler[h].alone
  BY <1>2 DEF Lone
<1>4. ASSUME NEW g \in Handlers \ {h}, handler[g].pc # "idle"
      PROVE  ~handler[g].alone /\ ~handler[h].alone
  BY <1>2, <1>4 DEF Lone
<1>5. ASSUME NEW g \in Handlers PROVE Lone(g)' /\ Knows(g)'
  <2>1. CASE g = h
    <3>1. Lone(h)'
      BY <1>1, <1>3, <1>4 DEF Lone
    <3>2. ~handler[h].alone => Knows(h)'
      BY <1>1 DEF Knows
    <3> QED
      BY <2>1, <3>1, <3>2
  <2>2. CASE g # h /\ handler[g].pc = "idle"
    BY <1>1, <2>2 DEF Lone, Knows
  <2>3. CASE g # h /\ handler[g].pc # "idle"
    BY <1>1, <1>3, <1>4, <2>3 DEF Lone, Knows
  <2> QED
    BY <2>1, <2>2, <2>3
<1>6. ASSUME NEW q \in Reminders, Watched(q)' PROVE Kept(q)'
  <2>1. CASE ~stale' /\ \A g \in Handlers : ~Rewrites(g, q)'
    BY <1>3, <2>1
  <2>2. CASE \E g \in Handlers : HasRewritten(g, q)'
    <3>1. PICK g \in Handlers : HasRewritten(g, q)'
      BY <2>2
    <3>2. g = h
      BY <1>1, <1>4, <3>1 DEF HasRewritten
    <3>3. handler[h].alone /\ ~Rewrites(h, q)'
      BY <1>1, <3>1, <3>2 DEF HasRewritten, Rewrites
    <3> QED
      BY <3>1, <3>2, <3>3
  <2> QED
    BY <1>6, <2>1, <2>2 DEF Watched
<1> QED
  BY <1>5, <1>6 DEF SInv

\* A row that is armed anew for the time of its reminder, or for a time that has
\* come like it, is kept: the executor that still has it has lost its claim.
LEMMA ArmedIsKept ==
  ASSUME NEW r \in Reminders, NEW due, row'[r] = Armed(due),
         due = Due(r)' \/ (due <= now' /\ Due(r)' <= now')
  PROVE  Kept(r)'
<1>1. row'[r].status = "pending" /\ row'[r].due = due
  BY DEF Armed
<1>2. ~Fence(r)'
  BY <1>1 DEF Fence
<1>3. IsScheduled(r)'
  BY <1>1 DEF IsScheduled, Due, Live
<1> QED
  BY <1>2, <1>3 DEF Kept

LEMMA ClaimableRows ==
  ASSUME IInv, SInv, now' = now, NEW r \in Reminders, NEW due \in Nat,
         row'[r] \in {row[r], Armed(due), Cancelled(row[r])}
  PROVE  RowIsClaimable(r)'
<1>1. RowIsClaimable(r) /\ MaxAttempts \in Nat \ {0}
  BY BoundsAssumption DEF SInv
<1>2. CASE row'[r] = Armed(due)
  <2>1. row'[r].status = "pending" /\ row'[r].attempt = 0
    BY <1>2 DEF Armed
  <2> QED
    BY <1>1, <2>1 DEF RowIsClaimable
<1>3. CASE row'[r] = row[r] \/ row'[r].status = "cancelled"
  BY <1>1, <1>3 DEF RowIsClaimable
<1>4. Cancelled(row[r]) = row[r] \/ Cancelled(row[r]).status = "cancelled"
  BY Typed DEF IInv, Cancelled, Row
<1> QED
  BY <1>2, <1>3, <1>4

LEMMA WriteKeeps == ASSUME IInv, SInv, NEW h \in Handlers, Write(h) PROVE SInv'
<1>1. /\ handler[h].pc = "write" /\ UNCHANGED <<worker, now>> /\ reminder' = reminder
      /\ row' = row /\ stale' = stale /\ stale \in BOOLEAN /\ now' = now
  BY DEF Write, At, Keep, counters, IInv, TypeOK
<1>2. handler[h] \in Handler /\ handler \in [Handlers -> Handler] /\ event \in Event
  BY Typed DEF IInv
<1>3. \A q \in Reminders : RowIsClaimable(q)'
  BY <1>1 DEF SInv, RowIsClaimable
<1>4. CASE event.status = handler[h].seen.status
  <2> DEFINE next == IF handler[h].op = "cancel" THEN "retire" ELSE "reload"
             x == [handler[h] EXCEPT !.seen = Unread, !.to = 0, !.pc = next]
  <2>1. event' = Written(h) /\ handler' = [handler EXCEPT ![h] = x]
    BY <1>2, <1>4 DEF Write
  <2>2. x.pc = next /\ x.alone = handler[h].alone /\ handler'[h] = x
    BY <1>2, <2>1 DEF Handler
  <2>3. next = "retire" => Over(event')
    BY <1>2, <2>1 DEF Written, Over, Event
  <2> HIDE DEF x
  <2>4. Knows(h)'
    BY <2>2, <2>3 DEF Knows
  <2>5. ASSUME NEW q \in Reminders, ~Rewrites(h, q)' PROVE Kept(q)'
    <3>1. next = "retire"
      BY <2>2, <2>5 DEF Rewrites
    <3> QED
      BY <2>3, <3>1 DEF Kept, Useful, CanBeSent, IsUseless
  <2> QED
    BY <1>1, <1>3, <2>1, <2>2, <2>4, <2>5, HandlerKeeps
<1>5. CASE event.status # handler[h].seen.status
  <2>1. End(h) /\ event' = event
    BY <1>5 DEF Write
  <2>2. handler' = [handler EXCEPT ![h] = IdleHandler] /\ handler'[h] = IdleHandler
        /\ IdleHandler.pc = "idle"
    BY <1>2, <2>1 DEF End, IdleHandler
  <2>3. Knows(h)'
    BY <2>2 DEF Knows
  <2>4. ASSUME NEW q \in Reminders, handler[h].alone, ~stale' \/ HasRewritten(h, q)'
        PROVE  Kept(q)'
    <3>1. ~stale /\ ~Rewrites(h, q)
      BY <1>1, <2>2, <2>4 DEF HasRewritten, Rewrites
    <3>2. Kept(q)
      BY <1>1, <2>4, <3>1, AloneKeeps
    <3> QED
      BY <1>1, <2>1, <3>2 DEF Kept, Useful, IsScheduled, Executes, Fence, Due, Reference
  <2> QED
    BY <1>1, <1>3, <2>2, <2>3, <2>4, HandlerKeeps
<1> QED
  BY <1>4, <1>5

LEMMA RetireKeeps == ASSUME IInv, SInv, NEW h \in Handlers, Retire(h) PROVE SInv'
<1>1. /\ handler[h].pc = "retire" /\ UNCHANGED <<worker, now>> /\ event' = event
      /\ row' = [r \in Reminders |-> Cancelled(row[r])] /\ stale' = stale /\ stale \in BOOLEAN
      /\ now' = now /\ handler' = [handler EXCEPT ![h] = IdleHandler]
  BY DEF Retire, At, Keep, counters, IInv, TypeOK, End
<1>2. handler'[h] = IdleHandler /\ IdleHandler.pc = "idle"
  BY <1>1, Typed DEF IInv, IdleHandler
<1>3. \A q \in Reminders : RowIsClaimable(q)'
  <2>1. 0 \in Nat /\ \A q \in Reminders : row'[q] = Cancelled(row[q])
    BY <1>1
  <2> QED
    BY <1>1, <2>1, ClaimableRows
<1>4. Knows(h)'
  BY <1>2 DEF Knows
<1>5. ASSUME NEW q \in Reminders, handler[h].alone PROVE Kept(q)'
  <2>1. Over(event')
    BY <1>1, <1>5 DEF SInv, Knows
  <2> QED
    BY <2>1 DEF Kept, Useful, CanBeSent, IsUseless
<1> QED
  BY <1>1, <1>2, <1>3, <1>4, <1>5, HandlerKeeps

\* Steps that read, and leave no row watched that was not.
LEMMA ReloadKeeps == ASSUME IInv, SInv, NEW h \in Handlers, Reload(h) PROVE SInv'
<1> DEFINE x == [handler[h] EXCEPT !.pc = "list", !.seen = event]
<1>1. /\ handler[h].pc = "reload" /\ UNCHANGED <<worker, now>> /\ event' = event /\ row' = row
      /\ stale' = stale /\ stale \in BOOLEAN /\ now' = now
  BY DEF Reload, Keep, counters, IInv, TypeOK
<1>2. /\ handler[h] \in Handler /\ handler \in [Handlers -> Handler]
      /\ handler' = [handler EXCEPT ![h] = x]
  BY Typed DEF IInv, Reload
<1>3. x.pc = "list" /\ x.seen = event /\ x.alone = handler[h].alone /\ handler'[h] = x
  BY <1>2 DEF Handler
<1> HIDE DEF x
<1>4. \A q \in Reminders : RowIsClaimable(q)' /\ Rewrites(h, q)'
  BY <1>1, <1>3 DEF SInv, RowIsClaimable, Rewrites
<1>5. Knows(h)'
  BY <1>1, <1>3 DEF Knows, IsRecent
<1> QED
  BY <1>1, <1>2, <1>3, <1>4, <1>5, HandlerKeeps

LEMMA StampKeeps == ASSUME IInv, SInv, NEW h \in Handlers, Stamp(h) PROVE SInv'
<1> DEFINE x == [handler[h] EXCEPT !.pc = "commit", !.to = now]
<1>1. /\ handler[h].pc = "stamp" /\ UNCHANGED <<worker, now>> /\ event' = event /\ row' = row
      /\ stale' = stale /\ stale \in BOOLEAN /\ now' = now /\ reminder' = reminder
  BY DEF Stamp, At, Keep, counters, IInv, TypeOK
<1>2. /\ handler[h] \in Handler /\ handler \in [Handlers -> Handler]
      /\ handler' = [handler EXCEPT ![h] = x]
  BY Typed DEF IInv, Stamp
<1>3. x.pc = "commit" /\ x.alone = handler[h].alone /\ handler'[h] = x
  BY <1>2 DEF Handler
<1> HIDE DEF x
<1>4. \A q \in Reminders : RowIsClaimable(q)'
  BY <1>1 DEF SInv, RowIsClaimable
<1>5. Knows(h)'
  BY <1>3 DEF Knows
<1>6. ASSUME NEW q \in Reminders, handler[h].alone, ~stale' \/ HasRewritten(h, q)'
      PROVE  Kept(q)'
  <2>1. ~stale /\ ~Rewrites(h, q)
    BY <1>1, <1>3, <1>6 DEF HasRewritten, Rewrites
  <2>2. Kept(q)
    BY <1>1, <1>6, <2>1, AloneKeeps
  <2> QED
    BY <1>1, <2>2 DEF Kept, Useful, IsScheduled, Executes, Fence, Due, Reference
<1> QED
  BY <1>1, <1>2, <1>3, <1>4, <1>5, <1>6, HandlerKeeps

LEMMA ListKeeps == ASSUME IInv, SInv, NEW h \in Handlers, List(h) PROVE SInv'
<1> DEFINE waiting == {r \in Reminders : IsWaiting(reminder[r])}
           x == [handler[h] EXCEPT !.pc = "rewrite", !.listed = reminder, !.to = now,
                                   !.on = waiting]
<1>1. /\ handler[h].pc = "list" /\ UNCHANGED <<worker, now>> /\ event' = event /\ row' = row
      /\ stale \in BOOLEAN /\ now' = now /\ reminder' = reminder
  BY DEF List, Keep, counters, IInv, TypeOK
<1>2. handler[h] \in Handler /\ handler \in [Handlers -> Handler] /\ now \in Nat
  BY Typed DEF IInv
<1>3. \A q \in Reminders : RowIsClaimable(q)'
  BY <1>1 DEF SInv, RowIsClaimable
<1>4. \A q \in Reminders : q \notin waiting => Kept(q)'
  BY <1>1 DEF Kept, Useful
<1>5. CASE waiting = {}
  <2>1. /\ handler' = [handler EXCEPT ![h] = IdleHandler] /\ handler'[h] = IdleHandler
        /\ IdleHandler.pc = "idle" /\ stale' = (stale /\ ~handler[h].alone)
    BY <1>2, <1>5 DEF List, End, IdleHandler, Repaired
  <2>2. Knows(h)' /\ \A q \in Reminders : Kept(q)'
    BY <1>4, <1>5, <2>1 DEF Knows
  <2> QED
    BY <1>1, <1>3, <2>1, <2>2, HandlerKeeps
<1>6. CASE waiting # {}
  <2>1. handler' = [handler EXCEPT ![h] = x] /\ stale' = stale
    BY <1>2, <1>6 DEF List
  <2>2. /\ x.pc = "rewrite" /\ x.listed = reminder /\ x.to = now /\ x.on = waiting
        /\ x.alone = handler[h].alone /\ x.seen = handler[h].seen /\ handler'[h] = x
    BY <1>2, <2>1 DEF Handler
  <2> HIDE DEF x
  <2>3. ASSUME handler[h].alone PROVE Knows(h)'
    <3>1. IsRecent(handler[h].seen)
      BY <1>1, <2>3 DEF SInv, Knows
    <3>2. handler'[h].seen = handler[h].seen /\ Over(event)' = Over(event)
      BY <1>1, <2>2 DEF Over
    <3>3. IsRecent(handler[h].seen)'
      BY <1>1, <3>1, <3>2 DEF IsRecent, Over
    <3>4. handler'[h].to <= now' /\ handler'[h].listed = reminder' /\ handler'[h].pc = "rewrite"
      BY <1>1, <1>2, <2>2
    <3> QED
      BY <3>3, <3>4 DEF Knows
  <2>4. ASSUME NEW q \in Reminders, ~Rewrites(h, q)' PROVE Kept(q)'
    BY <1>4, <2>2, <2>4 DEF Rewrites
  <2> QED
    BY <1>1, <1>3, <2>1, <2>2, <2>3, <2>4, HandlerKeeps
<1> QED
  BY <1>5, <1>6

\* A reminder that a rescheduling alone finds useless is not useful; if it is
\* useful, its row is armed for it.
LEMMA RewrittenIsKept ==
  ASSUME IInv, SInv, NEW h \in Handlers, NEW r \in Reminders, Rewrite(h, r), handler[h].alone
  PROVE  Kept(r)'
<1> DEFINE m == handler[h].listed[r]
           e == handler[h].seen
           to == handler[h].to
<1>1. /\ handler[h].pc = "rewrite" /\ r \in handler[h].on /\ event' = event /\ now' = now
      /\ row' = [row EXCEPT ![r] = Rewritten(m, e, to, row[r])] /\ reminder' = reminder
  BY DEF Rewrite, Keep, counters
<1>2. row \in [Reminders -> Row] /\ Due(r) \in Nat /\ now \in Nat /\ to \in Nat
  BY Typed, TimesAreTyped DEF IInv, Handler
<1>3. /\ m.ref = reminder[r].ref /\ m.minutes = reminder[r].minutes /\ IsRecent(e) /\ to <= now
  BY <1>1 DEF SInv, Knows
<1>4. Due(r)' = Due(r)
  BY <1>1 DEF Due
<1> HIDE DEF m, e, to
<1>5. DueAt(m.ref, m.minutes, e) = Due(r)
  BY <1>3 DEF DueAt, Due, ReferenceTime, IsRecent
<1>6. IsUseless(m, e) => ~Useful(r)
  BY <1>3 DEF IsRecent, IsUseless, Useful, CanBeSent, Signups, Over
<1>7. CASE IsUseless(m, e)
  BY <1>1, <1>6, <1>7 DEF Kept, Useful
<1>8. CASE ~IsUseless(m, e)
  <2> DEFINE due == IF Due(r) <= to THEN to ELSE Due(r)
  <2>1. row'[r] = Armed(due)
    BY <1>1, <1>2, <1>5, <1>8 DEF Rewritten
  <2>2. due = Due(r)' \/ (due <= now' /\ Due(r)' <= now')
    BY <1>1, <1>2, <1>3, <1>4
  <2> HIDE DEF due
  <2> QED
    BY <2>1, <2>2, ArmedIsKept
<1> QED
  BY <1>7, <1>8

LEMMA RewriteKeeps ==
  ASSUME IInv, SInv, NEW h \in Handlers, NEW r \in Reminders, Rewrite(h, r) PROVE SInv'
<1> DEFINE x == IF handler[h].on = {r} THEN IdleHandler ELSE [handler[h] EXCEPT !.on = @ \ {r}]
<1>1. /\ handler[h].pc = "rewrite" /\ r \in handler[h].on /\ event' = event /\ now' = now
      /\ reminder' = reminder /\ UNCHANGED <<worker, now>> /\ worker' = worker
      /\ stale \in BOOLEAN
      /\ stale' = (stale /\ ~(handler[h].alone /\ handler[h].on = {r}))
  BY DEF Rewrite, Keep, counters, Repaired, IInv, TypeOK
<1>2. /\ handler[h] \in Handler /\ handler \in [Handlers -> Handler]
      /\ row \in [Reminders -> Row] /\ row[r] \in Row
      /\ handler[h].listed[r] \in Reminder /\ handler[h].seen \in Event
      /\ handler[h].to \in Nat
  BY Typed DEF IInv, Handler
<1>3. handler' = [handler EXCEPT ![h] = x]
  BY <1>2 DEF Rewrite, End
<1>4. /\ handler'[h] = x
      /\ x.pc # "idle" =>
           /\ handler[h].on # {r} /\ x.on = handler[h].on \ {r} /\ x.alone = handler[h].alone
           /\ x.pc = "rewrite" /\ x.to = handler[h].to /\ x.seen = handler[h].seen
           /\ x.listed = handler[h].listed
      /\ x.pc = "idle" => handler[h].on = {r}
  BY <1>1, <1>2, <1>3 DEF Handler, IdleHandler
<1> HIDE DEF x
<1>5. ASSUME NEW q \in Reminders PROVE RowIsClaimable(q)'
  <2> DEFINE m == handler[h].listed[r]
             due == DueAt(m.ref, m.minutes, handler[h].seen)
             best == IF due <= handler[h].to THEN handler[h].to ELSE due
  <2>1. best \in Nat
    BY <1>2, DueIsNatural, MinutesAreNatural
  <2>2. row'[r] \in {Armed(best), Cancelled(row[r])}
    BY <1>2 DEF Rewrite, Rewritten
  <2>3. q # r => row'[q] = row[q]
    BY <1>2 DEF Rewrite
  <2> HIDE DEF best
  <2> QED
    BY <1>1, <2>1, <2>2, <2>3, ClaimableRows
<1>6. ASSUME handler[h].alone PROVE Knows(h)'
  <2>1. Knows(h)
    BY DEF SInv
  <2>2. IsRecent(handler[h].seen) => (x.pc # "idle" => IsRecent(handler[h].seen)')
    BY <1>1, <1>4 DEF IsRecent, Over
  <2>3. CASE x.pc = "idle"
    BY <1>4, <2>3 DEF Knows
  <2>4. CASE x.pc # "idle"
    BY <1>1, <1>4, <1>6, <2>1, <2>2, <2>4 DEF Knows
  <2> QED
    BY <2>3, <2>4
<1>7. ASSUME NEW q \in Reminders, handler[h].alone, ~Rewrites(h, q)',
             ~stale' \/ HasRewritten(h, q)'
      PROVE  Kept(q)'
  <2>1. CASE q = r
    BY <1>7, <2>1, RewrittenIsKept
  <2>2. CASE q # r
    <3>1. q \notin handler[h].on
      BY <1>4, <1>7, <2>2 DEF Rewrites
    <3>2. Kept(q)
      BY <1>1, <1>7, <3>1, AloneKeeps DEF Rewrites, HasRewritten
    <3>3. row'[q] = row[q]
      BY <1>2, <2>2 DEF Rewrite
    <3> QED
      BY <1>1, <3>2, <3>3 DEF Kept, Useful, IsScheduled, Executes, Fence, Due, Reference
  <2> QED
    BY <2>1, <2>2
<1> QED
  BY <1>1, <1>3, <1>4, <1>5, <1>6, <1>7, HandlerKeeps

\* The publication releases what has fallen due; a row that is not released was
\* not due, or the time that makes its reminder useless has come.
LEMMA ReleasedIsKept ==
  ASSUME IInv, SInv, NEW r \in Reminders, NEW stamp, stamp = now, Kept(r),
         UNCHANGED <<worker, now, reminder>>,
         ~event.published, event.status \in {"scheduled", "open"},
         event' = [event EXCEPT !.published = TRUE,
                     !.status = IF Signups(event) THEN "open" ELSE "scheduled"],
         row'[r] = Resumed(r, stamp)
  PROVE  Kept(r)'
<1>1. /\ Due(r) \in Nat /\ Reference(r) \in Int /\ now \in Nat /\ row[r] \in Row
      /\ row[r].due \in Nat
  BY TimesAreTyped DEF IInv
<1>2. event \in Event /\ now' = now /\ reminder' = reminder /\ worker' = worker
  BY Typed DEF IInv
<1>3. /\ event'.starts = event.starts /\ event'.closes = event.closes /\ event'.published
      /\ event'.status = IF Signups(event) THEN "open" ELSE "scheduled"
  BY <1>2 DEF Event
<1>4. Due(r)' = Due(r) /\ Reference(r)' = Reference(r)
  BY <1>2, <1>3 DEF Due, Reference, DueAt, ReferenceTime
<1>5. SUFFICES ASSUME Useful(r)' PROVE Kept(r)'
  BY DEF Kept
<1>6. Useful(r)
  BY <1>2, <1>3, <1>5 DEF Useful, CanBeSent, IsUseless, Over, Signups
<1>7. IsScheduled(r) /\ RowIsClaimable(r)
  BY <1>6 DEF Kept, SInv
<1>8. CASE row[r].status \in Live /\ now < Reference(r) /\ Due(r) <= now
  <2>1. row'[r] = Armed(stamp)
    BY <1>6, <1>8 DEF Resumed, Useful, Due, Reference
  <2> QED
    BY <1>1, <1>2, <1>4, <1>8, <2>1, ArmedIsKept
<1>9. CASE ~(row[r].status \in Live /\ now < Reference(r) /\ Due(r) <= now)
  <2>1. row'[r] = row[r]
    BY <1>9 DEF Resumed, Due, Reference
  <2>2. IsScheduled(r)'
    BY <1>1, <1>2, <1>4, <1>7, <1>9, <2>1 DEF IsScheduled, Due, Reference, RowIsClaimable, Live
  <2>3. /\ Executes("settle", r)' <=> Executes("settle", r)
        /\ Executes("park", r)' <=> Executes("park", r)
        /\ Fence(r)' <=> Fence(r)
    BY <1>2, <2>1 DEF Executes, Fence
  <2>4. Executes("park", r) /\ Fence(r) => Due(r) <= now /\ Reference(r) <= now
    BY <1>1, <1>6, <1>9 DEF Kept, Fence, Live
  <2> QED
    BY <1>2, <1>4, <1>6, <2>2, <2>3, <2>4 DEF Kept
<1> QED
  BY <1>8, <1>9

LEMMA PublishCommitKeeps ==
  ASSUME IInv, SInv, NEW h \in Handlers, PublishCommit(h) PROVE SInv'
<1>1. /\ handler[h].pc = "commit" /\ reminder' = reminder /\ UNCHANGED <<worker, now>>
      /\ worker' = worker /\ now' = now /\ stale \in BOOLEAN
      /\ handler' = [handler EXCEPT ![h] = IdleHandler]
  BY DEF PublishCommit, At, Keep, counters, End, IInv, TypeOK
<1>2. handler \in [Handlers -> Handler] /\ handler[h].to \in Nat
  BY Typed DEF IInv, Handler
<1>3. handler'[h] = IdleHandler /\ IdleHandler.pc = "idle" /\ Knows(h)'
  BY <1>1, <1>2 DEF IdleHandler, Knows
<1>4. \A q \in Reminders : ~HasRewritten(h, q)' /\ ~Rewrites(h, q)
  BY <1>1, <1>3 DEF HasRewritten, Rewrites
<1>5. CASE ~event.published /\ event.status \in {"scheduled", "open"}
  <2>1. /\ event' = [event EXCEPT !.published = TRUE,
                       !.status = IF Signups(event) THEN "open" ELSE "scheduled"]
        /\ \A q \in Reminders : row'[q] = Resumed(q, handler[h].to)
        /\ stale' = (stale \/ handler[h].to # now)
    BY <1>5 DEF PublishCommit
  <2>2. ASSUME NEW q \in Reminders PROVE RowIsClaimable(q)'
    <3>1. row'[q] \in {Armed(handler[h].to), row[q]}
      BY <2>1 DEF Resumed
    <3> QED
      BY <1>1, <1>2, <3>1, ClaimableRows
  <2>3. ASSUME NEW q \in Reminders, handler[h].alone, ~stale' \/ HasRewritten(h, q)'
        PROVE  Kept(q)'
    <3>1. ~stale /\ handler[h].to = now
      BY <1>4, <2>1, <2>3
    <3>2. Kept(q)
      BY <1>1, <1>4, <2>3, <3>1, AloneKeeps
    <3> QED
      BY <1>1, <1>5, <2>1, <3>1, <3>2, ReleasedIsKept
  <2> QED
    BY <1>1, <1>3, <2>1, <2>2, <2>3, HandlerKeeps
<1>6. CASE ~(~event.published /\ event.status \in {"scheduled", "open"})
  <2>1. event' = event /\ row' = row /\ stale' = stale
    BY <1>6 DEF PublishCommit
  <2>2. \A q \in Reminders : RowIsClaimable(q)'
    BY <1>1, <2>1 DEF SInv, RowIsClaimable
  <2>3. ASSUME NEW q \in Reminders, handler[h].alone, ~stale' \/ HasRewritten(h, q)'
        PROVE  Kept(q)'
    <3>1. Kept(q)
      BY <1>1, <1>4, <2>1, <2>3, AloneKeeps
    <3> QED
      BY <1>1, <2>1, <3>1 DEF Kept, Useful, IsScheduled, Executes, Fence, Due, Reference
  <2> QED
    BY <1>1, <1>3, <2>1, <2>2, <2>3, HandlerKeeps
<1> QED
  BY <1>5, <1>6

\* The commands on one reminder write it and its row at once.
LEMMA ReminderKeeps ==
  ASSUME IInv, SInv, NEW h \in Handlers, NEW r \in Reminders,
         Insert(h, r) \/ Update(h, r) \/ Delete(h, r)
  PROVE  SInv'
<1>1. /\ handler[h].pc \in {"insert", "update", "delete"} /\ r \in handler[h].on
      /\ event' = event /\ stale' = stale /\ stale \in BOOLEAN
      /\ UNCHANGED <<worker, now>> /\ worker' = worker /\ now' = now
      /\ handler' = [handler EXCEPT ![h] = IdleHandler]
  BY DEF Insert, Update, Delete, At, Keep, counters, End, IInv, TypeOK
<1>2. /\ handler \in [Handlers -> Handler] /\ handler[h].to \in Nat
      /\ reminder \in [Reminders -> Reminder] /\ row \in [Reminders -> Row]
      /\ handler[h].listed[r] \in Reminder /\ reminder[r] \in Reminder
  BY Typed DEF IInv, Handler
<1>3. handler'[h] = IdleHandler /\ IdleHandler.pc = "idle" /\ Knows(h)'
  BY <1>1, <1>2 DEF IdleHandler, Knows
<1>4. \A q \in Reminders : ~HasRewritten(h, q)' /\ ~Rewrites(h, q)
  BY <1>1, <1>3 DEF HasRewritten, Rewrites
<1>5. /\ \A q \in Reminders \ {r} : row'[q] = row[q] /\ reminder'[q] = reminder[q]
      /\ row'[r] \in {Armed(handler[h].to), Cancelled(row[r])}
  BY <1>2 DEF Insert, Update, Delete
<1>6. \A q \in Reminders : RowIsClaimable(q)'
  BY <1>1, <1>2, <1>5, ClaimableRows
<1>7. ASSUME handler[h].alone PROVE Kept(r)'
  <2>1. CASE Delete(h, r)
    <3>1. ~reminder'[r].enabled
      BY <1>2, <2>1 DEF Delete, Reminder
    <3> QED
      BY <3>1 DEF Kept, Useful, IsWaiting
  <2>2. CASE Insert(h, r) \/ Update(h, r)
    <3> DEFINE m == handler[h].listed[r]
    <3>1. handler[h].pc \in {"insert", "update"} /\ row'[r] = Armed(handler[h].to)
      BY <1>2, <2>2 DEF Insert, Update, At
    <3>2. reminder'[r].ref = m.ref /\ reminder'[r].minutes = m.minutes
      BY <1>2, <2>2 DEF Insert, Update, Reminder
    <3>3. handler[h].to = DueAt(m.ref, m.minutes, event)
      BY <1>1, <1>7, <3>1 DEF SInv, Knows
    <3>4. handler[h].to = Due(r)'
      BY <1>1, <3>2, <3>3 DEF Due
    <3> QED
      BY <3>1, <3>4, ArmedIsKept
  <2> QED
    BY <2>1, <2>2
<1>8. ASSUME NEW q \in Reminders, handler[h].alone, ~stale' \/ HasRewritten(h, q)'
      PROVE  Kept(q)'
  <2>1. CASE q = r
    BY <1>7, <1>8, <2>1
  <2>2. CASE q # r
    <3>1. Kept(q)
      BY <1>1, <1>4, <1>8, AloneKeeps
    <3> QED
      BY <1>1, <1>5, <2>2, <3>1 DEF Kept, Useful, IsScheduled, Executes, Fence, Due, Reference
  <2> QED
    BY <2>1, <2>2
<1> QED
  BY <1>1, <1>3, <1>6, <1>8, HandlerKeeps

LEMMA HandlerLostKeeps ==
  ASSUME IInv, SInv, NEW h \in Handlers, HandlerLost(h) PROVE SInv'
<1>1. /\ handler[h].pc # "idle" /\ UNCHANGED <<worker, now>> /\ row' = row /\ now' = now
      /\ handler' = [handler EXCEPT ![h] = IdleHandler] /\ stale' = TRUE /\ stale \in BOOLEAN
  BY DEF HandlerLost, Busy, End, IInv, TypeOK
<1>2. handler'[h] = IdleHandler /\ IdleHandler.pc = "idle"
  BY <1>1, Typed DEF IInv, IdleHandler
<1>3. Knows(h)' /\ \A q \in Reminders : RowIsClaimable(q)' /\ ~HasRewritten(h, q)'
  BY <1>1, <1>2 DEF SInv, RowIsClaimable, HasRewritten, Knows
<1> QED
  BY <1>1, <1>2, <1>3, HandlerKeeps

\* A command that begins leaves a clean schedule alone, or makes it stale.
LEMMA BeginKeeps ==
  ASSUME IInv, SInv, NEW h \in Handlers, NEW op \in AllOps,
         NEW pc \in {"write", "stamp", "insert", "update", "delete"}, NEW more \in Handler,
         Begin(h, op, pc, more),
         pc \in {"insert", "update"} =>
           \A r \in more.on : more.to = DueAt(more.listed[r].ref, more.listed[r].minutes, event)
  PROVE  SInv'
<1>1. /\ handler[h].pc = "idle" /\ event' = event /\ reminder' = reminder /\ row' = row
      /\ worker' = worker /\ now' = now /\ stale' = (stale \/ Busy # {}) /\ stale \in BOOLEAN
  BY DEF Begin, IInv, TypeOK
<1>2. handler \in [Handlers -> Handler]
  BY Typed DEF IInv
<1> DEFINE x == [more EXCEPT !.op = op, !.pc = pc, !.alone = Busy = {}]
           y(g) == [handler[g] EXCEPT !.alone = handler[g].pc = "idle"]
<1>3. handler' = [g \in Handlers |-> IF g = h THEN x ELSE y(g)]
  BY DEF Begin
<1>4. /\ x.pc = pc /\ x.alone = (Busy = {}) /\ x.on = more.on /\ x.to = more.to
      /\ x.listed = more.listed
  BY DEF Handler
<1>5. ASSUME NEW g \in Handlers \ {h}
      PROVE  handler'[g].pc = handler[g].pc /\ handler'[g].alone = (handler[g].pc = "idle")
  <2>1. handler'[g] = y(g) /\ handler[g] \in Handler
    BY <1>2, <1>3
  <2> QED
    BY <2>1 DEF Handler
<1>6. handler'[h] = x
  BY <1>3
<1> HIDE DEF x, y
<1>7. Busy = {} => \A g \in Handlers : handler[g].pc = "idle"
  BY DEF Busy
<1>8. \A g \in Handlers : Lone(g)'
  BY <1>1, <1>4, <1>5, <1>6, <1>7 DEF Lone
<1>9. ASSUME NEW g \in Handlers PROVE Knows(g)'
  <2>1. CASE g # h
    BY <1>5, <2>1 DEF Knows
  <2>2. CASE g = h
    BY <1>1, <1>4, <1>6, <2>2 DEF Knows
  <2> QED
    BY <2>1, <2>2
<1>10. ASSUME NEW r \in Reminders PROVE RowIsClaimable(r)' /\ (Watched(r)' => Kept(r)')
  <2>1. RowIsClaimable(r) /\ (Watched(r) => Kept(r))
    BY DEF SInv
  <2>2. Watched(r)' => Watched(r)
    <3>1. \A g \in Handlers : ~HasRewritten(g, r)'
      BY <1>4, <1>5, <1>6 DEF HasRewritten
    <3>2. ~stale' => ~stale /\ \A g \in Handlers : ~Rewrites(g, r)
      BY <1>1, <1>7 DEF Rewrites
    <3> QED
      BY <3>1, <3>2 DEF Watched
  <2>3. RowIsClaimable(r)' /\ (Kept(r) => Kept(r)')
    BY <1>1, <2>1 DEF RowIsClaimable, Kept, Useful, IsScheduled, Executes, Fence, Due, Reference
  <2> QED
    BY <2>1, <2>2, <2>3
<1> QED
  BY <1>1, <1>8, <1>9, <1>10 DEF SInv

LEMMA ChoosesKeeps ==
  ASSUME IInv, SInv, NEW h \in Handlers, NEW r \in Reminders, NEW op \in AllOps,
         NEW pc \in {"insert", "update"}, Chooses(h, r, op, pc)
  PROVE  SInv'
<1>1. PICK ref \in References, minutes \in Minutes :
        Begin(h, op, pc, [IdleHandler EXCEPT !.on = {r}, !.to = DueAt(ref, minutes, event),
                                             !.listed[r] = NewReminder(ref, minutes)])
  BY DEF Chooses
<1> DEFINE more == [IdleHandler EXCEPT !.on = {r}, !.to = DueAt(ref, minutes, event),
                                       !.listed[r] = NewReminder(ref, minutes)]
<1>2. DueAt(ref, minutes, event) \in Nat
  <2>1. minutes \in Nat /\ event \in Event
    BY BoundsAssumption, Typed DEF IInv
  <2> QED
    BY <2>1, DueIsNatural
<1>3. /\ more \in Handler /\ more.on = {r} /\ more.to = DueAt(ref, minutes, event)
      /\ more.listed[r].ref = ref /\ more.listed[r].minutes = minutes
  BY <1>2, IdleFits, RemindersFit DEF Handler
<1>4. \A q \in more.on : more.to = DueAt(more.listed[q].ref, more.listed[q].minutes, event)
  BY <1>3
<1> HIDE DEF more
<1> QED
  BY <1>1, <1>3, <1>4, BeginKeeps DEF more

LEMMA CommandsKeep == ASSUME IInv, SInv, NEW h \in Handlers, Commands(h) PROVE SInv'
<1>1. /\ Validated \in Handler /\ IdleHandler \in Handler
      /\ \A to \in Nat : [Validated EXCEPT !.to = to] \in Handler
  BY ValidatedFits, IdleFits DEF IInv
<1>2. /\ event.starts \in Int /\ now \in Nat
      /\ {"reopen", "move", "publish", "add", "edit", "remove"} \subseteq AllOps
  BY Typed DEF IInv, Event, AllOps
<1>3. CASE Close(h) \/ Cancel(h)
  <2>1. PICK op \in AllOps : Begin(h, op, "write", Validated)
    BY <1>3 DEF Close, Cancel, AllOps
  <2> QED
    BY <1>1, <2>1, BeginKeeps
<1>4. CASE Reopen(h)
  <2>1. PICK to \in {event.starts - 1, event.starts} :
          to > now /\ Begin(h, "reopen", "write", [Validated EXCEPT !.to = to])
    BY <1>4 DEF Reopen
  <2>2. to \in Nat
    BY <1>2, <2>1
  <2> QED
    BY <1>1, <1>2, <2>1, <2>2, BeginKeeps
<1>5. CASE Move(h)
  <2>1. event \in Event
    BY Typed DEF IInv
  <2>2. PICK starts \in Times, closes \in Int :
          Begin(h, "move", "write",
                [Validated EXCEPT !.seen.starts = starts, !.seen.closes = closes])
    BY <1>5, <2>1, DeadlinesAreTimes DEF Move
  <2> DEFINE x == [Validated EXCEPT !.seen.starts = starts, !.seen.closes = closes]
  <2>3. x \in Handler
    <3>1. starts \in Int
      BY DEF Times
    <3> QED
      BY <3>1, ValidatedFits DEF IInv
  <2> HIDE DEF x
  <2> QED
    BY <1>2, <2>2, <2>3, BeginKeeps DEF x
<1>6. CASE Publish(h)
  <2>1. Begin(h, "publish", "stamp", IdleHandler)
    BY <1>6 DEF Publish
  <2> QED
    BY <1>1, <1>2, <2>1, BeginKeeps
<1>7. CASE Add(h) \/ Edit(h)
  <2>1. PICK r \in Reminders, op \in AllOps, pc \in {"insert", "update"} : Chooses(h, r, op, pc)
    BY <1>2, <1>7 DEF Add, Edit
  <2> QED
    BY <2>1, ChoosesKeeps
<1>8. CASE Remove(h)
  <2>1. PICK r \in Reminders : Begin(h, "remove", "delete", [IdleHandler EXCEPT !.on = {r}])
    BY <1>8 DEF Remove
  <2>2. [IdleHandler EXCEPT !.on = {r}] \in Handler
    BY <1>1 DEF Handler
  <2> QED
    BY <1>2, <2>1, <2>2, BeginKeeps
<1> QED
  BY <1>3, <1>4, <1>5, <1>6, <1>7, <1>8 DEF Commands

LEMMA StartsScheduled == ASSUME Init PROVE SInv
<1>1. /\ worker = IdleWorker /\ handler = [h \in Handlers |-> IdleHandler]
      /\ row = [r \in Reminders |->
                  IF reminder[r].enabled
                  THEN Armed(DueAt(reminder[r].ref, reminder[r].minutes, event)) ELSE NoRow]
  BY DEF Init
<1>2. worker.pc = "idle" /\ worker.on = {} /\ \A h \in Handlers : handler[h].pc = "idle"
  BY <1>1 DEF IdleWorker, IdleHandler
<1>3. \A h \in Handlers : Lone(h) /\ Knows(h)
  BY <1>2 DEF Lone, Knows
<1>4. ASSUME NEW r \in Reminders PROVE RowIsClaimable(r) /\ Kept(r)
  <2>1. CASE reminder[r].enabled
    <3>1. row[r].status = "pending" /\ row[r].due = Due(r) /\ row[r].attempt = 0
      BY <1>1, <2>1 DEF Armed, Due
    <3> QED
      BY <1>2, <3>1, BoundsAssumption
         DEF RowIsClaimable, Kept, IsScheduled, Due, Live, Executes
  <2>2. CASE ~reminder[r].enabled
    BY <1>1, <2>2 DEF RowIsClaimable, Kept, Useful, IsWaiting, NoRow
  <2> QED
    BY <2>1, <2>2
<1> QED
  BY <1>2, <1>3, <1>4 DEF SInv

LEMMA MovesKeep == ASSUME IInv, SInv, [Next]_vars PROVE SInv'
<1>1. CASE UNCHANGED vars
  BY <1>1 DEF vars, SInv, Lone, Knows, IsRecent, RowIsClaimable, Watched, Rewrites, HasRewritten,
              Kept, Useful, IsScheduled, Executes, Fence, Due, Reference
<1>2. ASSUME NEW r \in Reminders, Works(r) \/ WorkerLost(r) PROVE SInv'
  BY <1>2, ClaimKeeps, ReadKeeps, ParkKeeps, SendKeeps, SettleKeeps, RecoverKeeps,
     WorkerLostKeeps DEF Works
<1>3. ASSUME NEW h \in Handlers, Handles(h) \/ HandlerLost(h) PROVE SInv'
  BY <1>3, WriteKeeps, RetireKeeps, ReloadKeeps, ListKeeps, StampKeeps, PublishCommitKeeps,
     RewriteKeeps, ReminderKeeps, HandlerLostKeeps DEF Handles
<1> QED
  BY <1>1, <1>2, <1>3, CommandsKeep, EventKeeps DEF Next

-----------------------------------------------------------------------------
(* The theorems.                                                           *)

LEMMA Starts == ASSUME Init PROVE IInv
<1>1. /\ now = 1 /\ worker = IdleWorker /\ handler = [h \in Handlers |-> IdleHandler]
      /\ messages = [r \in Reminders |-> 0] /\ stale = FALSE /\ issued = 0 /\ faults = 0
      /\ row = [r \in Reminders |->
                  IF reminder[r].enabled
                  THEN Armed(DueAt(reminder[r].ref, reminder[r].minutes, event)) ELSE NoRow]
  BY DEF Init
<1>2. event \in Event /\ now \in Times /\ MaxTime \in Nat
  BY <1>1, BoundsAssumption DEF Init, Event, Status, Times
<1>3. ASSUME NEW r \in Reminders
      PROVE  reminder[r] \in Reminder /\ (Absent(r) => ~reminder[r].enabled)
  <2>1. reminder[r] = NoReminder
          \/ \E ref \in References, m \in Minutes : reminder[r] = NewReminder(ref, m)
    BY DEF Init
  <2> QED
    BY <2>1, RemindersFit DEF Absent
<1>4. reminder \in [Reminders -> Reminder]
  <2>1. reminder = [r \in Reminders |-> reminder[r]]
    BY DEF Init
  <2> QED
    BY <1>3, <2>1
<1>5. ASSUME NEW r \in Reminders
      PROVE  row[r] \in Row /\ (Absent(r) => row[r].status = "none")
  <2>1. DueAt(reminder[r].ref, reminder[r].minutes, event) \in Nat
    BY <1>2, <1>3, MinutesAreNatural, DueIsNatural
  <2> QED
    BY <1>1, <1>3, <2>1, RowsFit DEF NoRow
<1>6. row \in [Reminders -> Row]
  BY <1>1, <1>5
<1>7. TypeOK
  BY <1>1, <1>2, <1>4, <1>6, IdleFits DEF TypeOK, Worker, Handler, WorkerPcs, HandlerPcs
<1>8. worker.on = {} /\ worker.pc = "idle"
  BY <1>1 DEF IdleWorker
<1>9. \A r \in Reminders : AbsentIsUntouched(r) /\ SendIsCounted(r)
  <2>1. \A r \in Reminders : AbsentIsUntouched(r)
    BY <1>1, <1>3, <1>5, <1>8 DEF AbsentIsUntouched
  <2>2. \A r \in Reminders : messages[r] <= faults /\ messages[r] <= 1 + faults
    <3>1. 0 <= 0 /\ 0 <= 1 + 0
      OBVIOUS
    <3>2. faults = 0 /\ \A r \in Reminders : messages[r] = 0
      BY <1>1
    <3> QED
      BY <3>1, <3>2, Zenon
  <2>3. \A r \in Reminders : SendIsCounted(r)
    BY <1>8, <2>2 DEF SendIsCounted, Executes
  <2> QED
    BY <2>1, <2>3
<1>10. \A h \in Handlers, r \in Reminders : HandlerIsSound(h, r)
  BY <1>1, IdleFits DEF HandlerIsSound
<1> QED
  BY <1>7, <1>8, <1>9, <1>10 DEF IInv, ParkIsLater

LEMMA Moves == ASSUME IInv, [Next]_vars PROVE IInv'
<1>1. CASE UNCHANGED vars
  <2>1. /\ UNCHANGED <<reminder, row, worker, handler, messages, stale, issued, faults>>
        /\ now' = now /\ event' = event /\ now \in Times /\ event \in Event
    BY <1>1 DEF vars, IInv, TypeOK
  <2> QED
    BY <2>1, EventStep
<1>2. ASSUME NEW r \in Reminders, Works(r) \/ WorkerLost(r) PROVE IInv'
  BY <1>2, ClaimStep, ReadStep, MissStep, ParkStep, SendStep, RecordStep, SettleStep,
     RecoverStep, WorkerLostStep DEF Works
<1>3. ASSUME NEW h \in Handlers, Commands(h) PROVE IInv'
  BY <1>3, EventCommands, ReminderCommands DEF Commands
<1>4. ASSUME NEW h \in Handlers, Handles(h) \/ HandlerLost(h) PROVE IInv'
  BY <1>4, WriteStep, RetireStep, ReloadStep, ListStep, StampStep, PublishCommitStep,
     RewriteStep, InsertStep, UpdateOrDeleteStep, HandlerLostStep DEF Handles
<1> QED
  BY <1>1, <1>2, <1>3, <1>4, ClockSteps DEF Next

LEMMA Invariance == Spec => []IInv
BY Starts, Moves, PTL DEF Spec

\* Rows, reminders and what commands hold of them keep their types: a row that
\* is parked waits for a time that exists, whatever was read.
THEOREM TypeCorrect == Spec => []TypeOK
<1>1. IInv => TypeOK
  BY DEF IInv
<1> QED
  BY <1>1, Invariance, PTL

\* A reminder is sent once but for the faults, however its row is reset,
\* released, retried or recovered while it is being sent.
THEOREM SentAtMostOnce == Spec => []SentOnce
<1>1. IInv => SentOnce
  BY DEF IInv, SendIsCounted, SentOnce
<1> QED
  BY <1>1, Invariance, PTL

LEMMA Schedule == Spec => []SInv
<1>1. IInv /\ SInv /\ [Next]_vars => SInv'
  BY MovesKeep
<1> QED
  BY <1>1, StartsScheduled, Invariance, PTL DEF Spec

\* Whatever the executor does while a command rewrites the rows, and whatever a
\* command does while the executor works: on a schedule that is not stale, every
\* reminder that is still useful has its row.
THEOREM ScheduleIsKept == Spec => []ScheduleFollowsEvent
<1>1. SInv => ScheduleFollowsEvent
  <2> SUFFICES ASSUME SInv, ~stale, Busy = {}, NEW r \in Reminders, Useful(r)
               PROVE  IsScheduled(r)
    BY DEF ScheduleFollowsEvent, Useful
  <2>1. \A h \in Handlers : handler[h].pc = "idle"
    BY DEF Busy
  <2>2. Watched(r)
    BY <2>1 DEF Watched, Rewrites
  <2> QED
    BY <2>2 DEF SInv, Kept
<1> QED
  BY <1>1, Schedule, PTL

\* No release, park, retry or recovery loses the row of a reminder: it ends
\* settled, or its attempts are used up.
THEOREM NoneIsForgotten == Spec => []NoReminderForgotten
<1>1. IInv /\ SInv => NoReminderForgotten
  <2> SUFFICES ASSUME IInv, SInv, Quiet, ~stale, NEW r \in Reminders, Useful(r)
               PROVE  row[r].status = "failed"
    BY DEF NoReminderForgotten, Useful
  <2>1. \A h \in Handlers : handler[h].pc = "idle"
    BY DEF Quiet, Busy
  <2>2. Watched(r)
    BY <2>1 DEF Watched, Rewrites
  <2>3. RowIsClaimable(r) /\ IsScheduled(r)
    BY <2>2 DEF SInv, Kept
  <2>4. row[r].status # "processing" /\ row[r].status # "pending"
    BY <2>3 DEF Quiet, IsLost, SInv, RowIsClaimable
  <2> QED
    BY <2>3, <2>4 DEF IsScheduled, Live
<1> QED
  BY <1>1, Invariance, Schedule, PTL
=============================================================================
