------------------------------ MODULE Reminders ------------------------------
(***************************************************************************)
(* The reminders of one event and the rows of scheduled_actions that send  *)
(* them: src/reminders, the reminder commands, the reminder executor, and  *)
(* the commands that move, close, reopen, publish or cancel the event.     *)
(* The scheduler works through one row at a time (ScheduledActions models  *)
(* claims in full); a command is in flight between any two of its          *)
(* transactions, and handlers of commands may overlap.                     *)
(***************************************************************************)
EXTENDS Integers

CONSTANTS
  Reminders,    \* reminder ids; those not yet added are NoReminder
  Handlers,     \* handlers of commands
  Ops,          \* Ops[h]: the commands handler h is given
  Minutes,      \* choices of minutes-before, in ticks of the clock
  MaxAttempts,  \* MAX_ACTION_ATTEMPTS
  MaxTime,      \* bound: the clock
  MaxCommands,  \* bound: commands issued
  MaxFaults     \* bound: lost processes and failing statements

AllOps == {"close", "cancel", "reopen", "move", "publish", "add", "edit", "remove"}

ASSUME BoundsAssumption ==
  /\ Minutes \subseteq Nat /\ MaxAttempts \in Nat \ {0} /\ MaxTime \in Nat \ {0}
  /\ MaxCommands \in Nat /\ MaxFaults \in Nat
ASSUME OpsAssumption == Ops \in [Handlers -> SUBSET AllOps]

VARIABLES
  now,
  event,
  reminder,  \* reminder[r]: a row of event_reminders
  row,       \* row[r]: the action event_reminder:<r>
  worker,    \* the scheduler and the row it executes
  handler,   \* handler[h]: a command in flight
  messages,  \* messages[r]: how often r was sent
  stale,     \* ghost: the schedule may not be that of the event
  issued, faults

vars == <<now, event, reminder, row, worker, handler, messages, stale, issued, faults>>
counters == <<now, issued, faults>>

Times == 1 .. MaxTime

\* closes = 0: an announcement, without signups.
Status == {"scheduled", "open", "closed", "cancelled", "completed"}
Over(e) == e.status \in {"cancelled", "completed"}
Signups(e) == e.closes # 0

References == {"event_start", "signup_close"}
NoReminder == [ref |-> "none", minutes |-> 0, enabled |-> FALSE, sent |-> FALSE,
               missed |-> FALSE]
NewReminder(ref, minutes) ==
  [NoReminder EXCEPT !.ref = ref, !.minutes = minutes, !.enabled = TRUE]
IsWaiting(m) == m.enabled /\ ~m.sent /\ ~m.missed

NoRow == [status |-> "none", due |-> 0, attempt |-> 0]
Live == {"pending", "processing"}
Armed(due) == [status |-> "pending", due |-> due, attempt |-> 0]
Cancelled(a) == IF a.status \in Live THEN [a EXCEPT !.status = "cancelled"] ELSE a

\* calculateReminderDueAt; a time before the first tick is the first tick.
ReferenceTime(ref, e) == IF ref = "event_start" THEN e.starts ELSE e.closes
DueAt(ref, minutes, e) ==
  LET t == ReferenceTime(ref, e) IN IF t > minutes THEN t - minutes ELSE 1

\* seen: the event as a command has read it; listed: the reminders it has read;
\* on: those it still has to write; to: the due time or the stamp it has
\* computed; alone: no other command and no fault since it began.
Unread == [status |-> "scheduled", published |-> FALSE, starts |-> 0, closes |-> 0]
IdleWorker == [pc |-> "idle", on |-> {}, attempt |-> 0, reference |-> 0]
IdleHandler == [op |-> "none", pc |-> "idle", seen |-> Unread, to |-> 0, on |-> {},
                listed |-> [r \in Reminders |-> NoReminder], alone |-> TRUE]

\* An event as it is created or generated, with reminders that are not due yet,
\* or that event just published.
Init ==
  /\ now = 1
  /\ event \in [status : {"scheduled", "open"}, published : BOOLEAN,
                starts : {MaxTime}, closes : {0, MaxTime - 1}]
  /\ event.status = "open" <=> event.published /\ Signups(event)
  /\ reminder \in [Reminders -> {NoReminder} \cup
                    {NewReminder(ref, m) : ref \in References, m \in Minutes}]
  /\ \A r \in Reminders :
       reminder[r].enabled =>
         /\ reminder[r].ref = "signup_close" => Signups(event)
         /\ DueAt(reminder[r].ref, reminder[r].minutes, event) > now
  /\ row = [r \in Reminders |->
              IF reminder[r].enabled
              THEN Armed(DueAt(reminder[r].ref, reminder[r].minutes, event)) ELSE NoRow]
  /\ worker = IdleWorker /\ handler = [h \in Handlers |-> IdleHandler]
  /\ messages = [r \in Reminders |-> 0] /\ stale = FALSE
  /\ issued = 0 /\ faults = 0

-----------------------------------------------------------------------------
(* Time, and the lifecycle steps of the scheduler that leave reminders be.  *)

Tick ==
  /\ now < MaxTime /\ now' = now + 1
  /\ UNCHANGED <<event, reminder, row, worker, handler, messages, stale, issued, faults>>

EventEnds(status) ==
  /\ event' = [event EXCEPT !.status = status]
  /\ UNCHANGED <<reminder, row, worker, handler, messages, stale, counters>>

\* executeCloseAttendance
CloseOnTime ==
  /\ Signups(event) /\ event.status \in {"scheduled", "open"} /\ event.closes <= now
  /\ EventEnds("closed")

\* executeCompleteEvent
Complete ==
  /\ event.status \in {"scheduled", "open", "closed"} /\ event.starts < now
  /\ EventEnds("completed")

-----------------------------------------------------------------------------
(* The scheduler on the row of a reminder.                                 *)

Executes(pc, r) == worker.pc = pc /\ worker.on = {r}
WorkerAt(pc) == worker' = [worker EXCEPT !.pc = pc]
Scheduled == UNCHANGED <<event, handler, stale, counters>>

Claim(r) ==
  /\ worker.pc = "idle"
  /\ row[r].status = "pending" /\ row[r].due <= now /\ row[r].attempt < MaxAttempts
  /\ row' = [row EXCEPT ![r].status = "processing", ![r].attempt = @ + 1]
  /\ worker' = [pc |-> "read", on |-> {r}, attempt |-> row[r].attempt + 1, reference |-> 0]
  /\ UNCHANGED <<reminder, messages>> /\ Scheduled

\* Mutant: a reminder that was sent is sent once more.
IsDoneIfMissed(m) == ~m.enabled \/ m.missed

IsDone(m) == ~m.enabled \/ m.sent \/ m.missed

\* executeEventReminder: the one SELECT and what follows from it.
Outcome(m, e) ==
  IF IsDone(m) \/ Over(e) THEN "settle"
  ELSE IF ReferenceTime(m.ref, e) <= now THEN "miss"
  ELSE IF ~e.published THEN "park"
  ELSE IF m.ref = "signup_close" /\ e.status # "open" THEN "settle"
  ELSE "send"

Read(r) ==
  /\ Executes("read", r)
  /\ worker' = [worker EXCEPT !.pc = Outcome(reminder[r], event),
                              !.reference = ReferenceTime(reminder[r].ref, event)]
  /\ UNCHANGED <<reminder, row, messages>> /\ Scheduled

\* markEventReminderMissed
Miss(r) ==
  /\ Executes("miss", r)
  /\ reminder' = IF reminder[r].sent \/ reminder[r].missed THEN reminder
                 ELSE [reminder EXCEPT ![r].missed = TRUE]
  /\ WorkerAt("settle")
  /\ UNCHANGED <<row, messages>> /\ Scheduled

\* Mutant: a row that was released meanwhile is parked as well.
FenceOpen(r) == row[r].status \in Live

Fence(r) == row[r].status = "processing" /\ row[r].attempt = worker.attempt

\* The event is not published: the row waits for the publication, at the latest
\* for the time from which the reminder is useless.
Park(r) ==
  /\ Executes("park", r)
  /\ row' = IF Fence(r) THEN [row EXCEPT ![r] = Armed(worker.reference)] ELSE row
  /\ WorkerAt("settle")
  /\ UNCHANGED <<reminder, messages>> /\ Scheduled

Send(r) ==
  /\ Executes("send", r)
  /\ messages' = [messages EXCEPT ![r] = @ + 1]
  /\ WorkerAt("record")
  /\ UNCHANGED <<reminder, row>> /\ Scheduled

Record(r) ==
  /\ Executes("record", r)
  /\ reminder' = IF reminder[r].enabled THEN [reminder EXCEPT ![r].sent = TRUE] ELSE reminder
  /\ WorkerAt("settle")
  /\ UNCHANGED <<row, messages>> /\ Scheduled

\* markActionCompleted
Settle(r) ==
  /\ Executes("settle", r)
  /\ row' = IF Fence(r) THEN [row EXCEPT ![r].status = "completed"] ELSE row
  /\ worker' = IdleWorker
  /\ UNCHANGED <<reminder, messages>> /\ Scheduled

\* handleActionFailure and recoverStaleActions give the row back while it has an
\* attempt left; the backoff is below the resolution of the clock.
GivenBack(a) == [a EXCEPT !.status = IF a.attempt < MaxAttempts THEN "pending" ELSE "failed"]

\* Mutant: a claim that was lost is never taken back.
NeverLost(r) == FALSE

IsLost(r) == row[r].status = "processing" /\ r \notin worker.on

RecoverStaleActions(r) ==
  /\ worker.pc = "idle" /\ IsLost(r)
  /\ row' = [row EXCEPT ![r] = GivenBack(@)]
  /\ UNCHANGED <<reminder, worker, messages>> /\ Scheduled

-----------------------------------------------------------------------------
(* Commands: read and validate, write, then bring the rows up to date.      *)

End(h) == handler' = [handler EXCEPT ![h] = IdleHandler]
At(h, pc, ops) == handler[h].pc = pc /\ handler[h].op \in ops
Busy == {h \in Handlers : handler[h].pc # "idle"}

Validated == [IdleHandler EXCEPT !.seen = event]

\* A command begins; those in flight are no longer alone.
Begin(h, op, pc, more) ==
  /\ handler[h].pc = "idle" /\ op \in Ops[h] /\ issued + faults < MaxCommands
  /\ handler' = [g \in Handlers |->
       IF g = h THEN [more EXCEPT !.op = op, !.pc = pc, !.alone = Busy = {}]
       ELSE [handler[g] EXCEPT !.alone = handler[g].pc = "idle"]]
  /\ stale' = (stale \/ Busy # {})
  /\ issued' = issued + 1
  /\ UNCHANGED <<now, event, reminder, row, worker, messages, faults>>

Keep == UNCHANGED <<worker, messages, counters>>

Close(h) ==
  /\ Signups(event) /\ event.published /\ event.status = "open"
  /\ Begin(h, "close", "write", Validated)

Cancel(h) ==
  /\ ~Over(event)
  /\ Begin(h, "cancel", "write", Validated)

\* `to' is the new deadline.
Reopen(h) ==
  /\ Signups(event) /\ event.published /\ ~Over(event) /\ event.starts > now
  /\ \E to \in {event.starts - 1, event.starts} :
       to > now /\ Begin(h, "reopen", "write", [Validated EXCEPT !.to = to])

\* The deadline keeps its distance to the start, or is given one.
Deadlines(e, starts) ==
  IF Signups(e) THEN {starts - (e.starts - e.closes), starts - 1, starts} ELSE {0}

\* The start, the deadline or both; `seen' takes the times as they are to be.
Move(h) ==
  /\ ~Over(event)
  /\ \E starts \in Times : \E closes \in Deadlines(event, starts) :
       /\ starts > now
       /\ Signups(event) => closes > (IF event.status = "closed" THEN 0 ELSE now)
       /\ Begin(h, "move", "write",
                [Validated EXCEPT !.seen.starts = starts, !.seen.closes = closes])

\* An unpublished event that closed is scheduled again by a later deadline.
Written(h) ==
  LET op == handler[h].op
      seen == handler[h].seen
  IN CASE op = "close" -> [event EXCEPT !.status = "closed", !.closes = now]
       [] op = "cancel" -> [event EXCEPT !.status = "cancelled"]
       [] op = "reopen" -> [event EXCEPT !.status = "open", !.closes = handler[h].to]
       [] op = "move" -> [event EXCEPT !.starts = seen.starts, !.closes = seen.closes,
             !.status = IF ~seen.published /\ seen.status = "closed" /\ seen.closes > now
                        THEN "scheduled" ELSE seen.status]

\* The UPDATE applies to the status the command has validated; what it has read
\* does not matter any more.
Write(h) ==
  /\ At(h, "write", {"close", "cancel", "reopen", "move"})
  /\ IF event.status = handler[h].seen.status
     THEN /\ event' = Written(h)
          /\ handler' = [handler EXCEPT ![h].seen = Unread, ![h].to = 0,
               ![h].pc = IF handler[h].op = "cancel" THEN "retire" ELSE "reload"]
     ELSE End(h) /\ UNCHANGED event
  /\ UNCHANGED <<reminder, row, stale>> /\ Keep

\* cancelEventScheduledActions
Retire(h) ==
  /\ At(h, "retire", {"cancel"})
  /\ row' = [r \in Reminders |-> Cancelled(row[r])]
  /\ End(h)
  /\ UNCHANGED <<event, reminder, stale>> /\ Keep

\* reschedulePendingEventReminders: the event, then the reminders, then each row.
Reload(h) ==
  /\ handler[h].pc = "reload"
  /\ handler' = [handler EXCEPT ![h].pc = "list", ![h].seen = event]
  /\ UNCHANGED <<event, reminder, row, stale>> /\ Keep

\* A rescheduling that was alone from its first read on has repaired every row.
Repaired(h) == stale' = (stale /\ ~handler[h].alone)

List(h) ==
  LET waiting == {r \in Reminders : IsWaiting(reminder[r])} IN
  /\ handler[h].pc = "list"
  /\ IF waiting = {} THEN End(h) /\ Repaired(h)
     ELSE /\ handler' = [handler EXCEPT ![h].pc = "rewrite", ![h].listed = reminder,
                                        ![h].to = now, ![h].on = waiting]
          /\ UNCHANGED stale
  /\ UNCHANGED <<event, reminder, row>> /\ Keep

IsUseless(m, e) ==
  Over(e) \/ (m.ref = "signup_close" /\ (~Signups(e) \/ e.status = "closed"))

\* Mutant: the row of a reminder that is already due is left to the scheduler.
RewrittenUnlessDue(m, e, stamp, a) ==
  LET due == DueAt(m.ref, m.minutes, e) IN
  IF IsUseless(m, e) THEN Cancelled(a) ELSE IF due <= stamp THEN a ELSE Armed(due)

Rewritten(m, e, stamp, a) ==
  LET due == DueAt(m.ref, m.minutes, e) IN
  IF IsUseless(m, e) THEN Cancelled(a) ELSE Armed(IF due <= stamp THEN stamp ELSE due)

Rewrite(h, r) ==
  /\ handler[h].pc = "rewrite" /\ r \in handler[h].on
  /\ row' = [row EXCEPT ![r] = Rewritten(handler[h].listed[r], handler[h].seen, handler[h].to, @)]
  /\ IF handler[h].on = {r} THEN End(h) /\ Repaired(h)
     ELSE handler' = [handler EXCEPT ![h].on = @ \ {r}] /\ UNCHANGED stale
  /\ UNCHANGED <<event, reminder>> /\ Keep

-----------------------------------------------------------------------------
(* Publication, and the commands on one reminder.                          *)

Publish(h) ==
  /\ ~event.published /\ event.status \in {"scheduled", "open"} /\ event.starts > now
  /\ Signups(event) => event.closes > now
  /\ Begin(h, "publish", "stamp", IdleHandler)

\* The message is sent; publicationTime is taken before the transaction.
Stamp(h) ==
  /\ At(h, "stamp", {"publish"})
  /\ handler' = [handler EXCEPT ![h].pc = "commit", ![h].to = now]
  /\ UNCHANGED <<event, reminder, row, stale>> /\ Keep

\* resumeDueEventRemindersAfterPublication, for one row.
Resumed(r, stamp) ==
  LET m == reminder[r] IN
  IF /\ IsWaiting(m) /\ row[r].status \in Live
     /\ stamp < ReferenceTime(m.ref, event) /\ DueAt(m.ref, m.minutes, event) <= stamp
  THEN Armed(stamp) ELSE row[r]

\* A row that fell due between the stamp and the commit is not released.
PublishCommit(h) ==
  /\ At(h, "commit", {"publish"})
  /\ IF ~event.published /\ event.status \in {"scheduled", "open"}
     THEN /\ event' = [event EXCEPT !.published = TRUE,
                          !.status = IF Signups(event) THEN "open" ELSE "scheduled"]
          /\ row' = [r \in Reminders |-> Resumed(r, handler[h].to)]
          /\ stale' = (stale \/ handler[h].to # now)
     ELSE UNCHANGED <<event, row, stale>>
  /\ End(h)
  /\ UNCHANGED reminder /\ Keep

\* The timing of a new or edited reminder, due in the future.
Chooses(h, r, op, pc) ==
  \E ref \in References, minutes \in Minutes :
    /\ ref = "signup_close" => Signups(event)
    /\ DueAt(ref, minutes, event) > now
    /\ Begin(h, op, pc, [IdleHandler EXCEPT !.on = {r}, !.to = DueAt(ref, minutes, event),
                                            !.listed[r] = NewReminder(ref, minutes)])

Add(h) ==
  /\ ~Over(event)
  /\ \E r \in Reminders :
       /\ reminder[r] = NoReminder /\ \A g \in Handlers : r \notin handler[g].on
       /\ Chooses(h, r, "add", "insert")

Edit(h) ==
  /\ ~Over(event)
  /\ \E r \in Reminders : IsWaiting(reminder[r]) /\ Chooses(h, r, "edit", "update")

Remove(h) ==
  \E r \in Reminders :
    /\ reminder[r].enabled /\ ~reminder[r].sent
    /\ Begin(h, "remove", "delete", [IdleHandler EXCEPT !.on = {r}])

\* createEventReminder, in one transaction with its row.
Insert(h, r) ==
  /\ At(h, "insert", {"add"}) /\ r \in handler[h].on
  /\ reminder' = [reminder EXCEPT ![r] = handler[h].listed[r]]
  /\ row' = [row EXCEPT ![r] = Armed(handler[h].to)]
  /\ End(h)
  /\ UNCHANGED <<event, stale>> /\ Keep

\* Unconditional: the reminder may have been sent or removed since it was read.
Update(h, r) ==
  /\ At(h, "update", {"edit"}) /\ r \in handler[h].on
  /\ reminder' = [reminder EXCEPT ![r].ref = handler[h].listed[r].ref,
                                  ![r].minutes = handler[h].listed[r].minutes]
  /\ row' = [row EXCEPT ![r] = Armed(handler[h].to)]
  /\ End(h)
  /\ UNCHANGED <<event, stale>> /\ Keep

Delete(h, r) ==
  /\ At(h, "delete", {"remove"}) /\ r \in handler[h].on
  /\ reminder' = [reminder EXCEPT ![r].enabled = FALSE]
  /\ row' = [row EXCEPT ![r] = Cancelled(@)]
  /\ End(h)
  /\ UNCHANGED <<event, stale>> /\ Keep

-----------------------------------------------------------------------------
(* Faults.                                                                 *)

Fault == faults < MaxFaults /\ issued + faults < MaxCommands /\ faults' = faults + 1

HandlerLost(h) ==
  /\ h \in Busy /\ Fault
  /\ End(h) /\ stale' = TRUE
  /\ UNCHANGED <<now, event, reminder, row, worker, messages, issued>>

\* A statement or a Discord call throws, and the row is given back; or the
\* process dies, and the row stays with its claim.
WorkerLost(r) ==
  /\ worker.on = {r} /\ Fault
  /\ \/ UNCHANGED row
     \/ Fence(r) /\ row' = [row EXCEPT ![r] = GivenBack(@)]
  /\ worker' = IdleWorker
  /\ UNCHANGED <<now, event, reminder, handler, messages, stale, issued>>

-----------------------------------------------------------------------------

Works(r) ==
  \/ Claim(r) \/ Read(r) \/ Miss(r) \/ Park(r) \/ Send(r) \/ Record(r) \/ Settle(r)
  \/ RecoverStaleActions(r)

Commands(h) ==
  \/ Close(h) \/ Cancel(h) \/ Reopen(h) \/ Move(h) \/ Publish(h)
  \/ Add(h) \/ Edit(h) \/ Remove(h)

Handles(h) ==
  \/ Write(h) \/ Retire(h) \/ Reload(h) \/ List(h)
  \/ Stamp(h) \/ PublishCommit(h)
  \/ \E r \in Reminders : Rewrite(h, r) \/ Insert(h, r) \/ Update(h, r) \/ Delete(h, r)

Next ==
  \/ Tick \/ CloseOnTime \/ Complete
  \/ \E r \in Reminders : Works(r) \/ WorkerLost(r)
  \/ \E h \in Handlers : Commands(h) \/ Handles(h) \/ HandlerLost(h)

Spec == Init /\ [][Next]_vars

-----------------------------------------------------------------------------
(* Properties.                                                             *)

Reminder == [ref : References \cup {"none"}, minutes : Minutes \cup {0},
             enabled : BOOLEAN, sent : BOOLEAN, missed : BOOLEAN]
Row == [status : {"none", "pending", "processing", "completed", "cancelled", "failed"},
        due : Nat, attempt : 0 .. MaxAttempts]
Event == [status : Status, published : BOOLEAN, starts : Int, closes : Int]

TypeOK ==
  /\ now \in Times /\ event \in Event
  /\ reminder \in [Reminders -> Reminder] /\ row \in [Reminders -> Row]
  /\ worker \in [pc : {"idle", "read", "miss", "park", "send", "record", "settle"},
                 on : SUBSET Reminders, attempt : 0 .. MaxAttempts, reference : Int]
  /\ handler \in [Handlers ->
       [op : AllOps \cup {"none"},
        pc : {"idle", "write", "retire", "reload", "list", "rewrite", "stamp", "commit",
              "insert", "update", "delete"},
        seen : Event, to : Nat, on : SUBSET Reminders, listed : [Reminders -> Reminder],
        alone : BOOLEAN]]
  /\ messages \in [Reminders -> Nat] /\ stale \in BOOLEAN
  /\ issued \in Nat /\ faults \in Nat

\* The row of r is due when r should be sent, or both times have come; while
\* the event is unpublished it may wait for the reference time instead.
IsScheduled(r) ==
  LET m == reminder[r]
      due == DueAt(m.ref, m.minutes, event)
  IN /\ row[r].status \in Live \cup {"failed"}
     /\ \/ row[r].due = due
        \/ due <= now /\ row[r].due <= now
        \/ due <= now /\ ~event.published /\ row[r].due = ReferenceTime(m.ref, event)

\* What the executor would still send, now or after the publication.  A published
\* event with signups is never "scheduled", unless overlapping edits made it so.
CanBeSent(m, e) ==
  ~IsUseless(m, e) /\ (m.ref = "signup_close" /\ e.published => e.status = "open")

\* "Pending reminders tied to event timing are recalculated when their reference
\* changes": between commands, whatever the scheduler was doing while they ran,
\* every reminder that is still useful has a row at the time that follows from
\* the event as it is stored.  Commands that overlap, a command that is lost and
\* a row that falls due while the publication commits leave a stale schedule
\* behind, until a later command reschedules alone.
ScheduleFollowsEvent ==
  ~stale /\ Busy = {} =>
    \A r \in Reminders :
      IsWaiting(reminder[r]) /\ CanBeSent(reminder[r], event) => IsScheduled(r)

\* "An already-sent reminder is not sent again merely because the event was
\* edited": a reminder is sent once, however often its row is reset while it is
\* being sent; only a fault between the message and its record may repeat it.
SentOnce == \A r \in Reminders : messages[r] <= 1 + faults

\* Nothing is left to do: no row that can be claimed or recovered, no command.
Quiet ==
  /\ now = MaxTime /\ worker.pc = "idle" /\ Busy = {}
  /\ \A r \in Reminders :
       ~IsLost(r) /\ ~(row[r].status = "pending" /\ row[r].attempt < MaxAttempts)

\* When nothing is left to do, and the schedule was not stale, every reminder
\* was sent, missed or removed, has become useless or has used its attempts: no
\* release, park, retry or recovery has lost its row.
NoReminderForgotten ==
  Quiet /\ ~stale =>
    \A r \in Reminders :
      IsWaiting(reminder[r]) /\ CanBeSent(reminder[r], event) => row[r].status = "failed"
=============================================================================
