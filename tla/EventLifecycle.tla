--------------------------- MODULE EventLifecycle ---------------------------
(***************************************************************************)
(* The life of one event: scheduled publication, attendance closing and    *)
(* completion by the scheduler (src/scheduler/event-scheduler.ts), the     *)
(* publication protocol of src/events/event-publication.ts, the commands   *)
(* of src/commands/event.ts, event-edit.ts and event-publish.ts, and the   *)
(* attendance button that closes an overdue event.                         *)
(*                                                                         *)
(* Every SQL statement or transaction and every Discord call is a step, so *)
(* a handler acts on what it read some steps ago.  Times are small         *)
(* numbers; the event lasts one unit.                                      *)
(***************************************************************************)
EXTENDS Integers, FiniteSets

CONSTANTS
  Handlers,     \* commands and button presses in flight at once
  Ops,          \* which of them are issued
  MaxTime,      \* bound: the clock
  MaxCommands,  \* bound: commands issued
  MaxFaults     \* bound: lost processes, failed statements, deleted messages

Scheduler == "scheduler"
AllOps == {"close", "reopen", "cancel", "move", "hold", "publish", "click",
           "refresh"}
FirstStart == 3   \* bound: when the event starts if it is not moved
Lead == 2         \* bound: publication this long before the start

ASSUME HandlersAssumption == Scheduler \notin Handlers /\ IsFiniteSet(Handlers)
ASSUME OpsAssumption == Ops \subseteq AllOps
ASSUME BoundsAssumption ==
  MaxTime \in Nat /\ MaxTime > FirstStart /\ MaxCommands \in Nat /\ MaxFaults \in Nat

VARIABLES
  now,
  event,     \* the row of events
  row,       \* row[k]: the scheduled_actions of the event
  link,      \* the linked public message: a number, 0 before publication
  gone,      \* that message was deleted on Discord
  shown,     \* what the linked message displays
  messages,  \* how many public messages exist on Discord, linked or not
  strays,    \* of them, left behind by processes that died
  proc,      \* the scheduler worker and the handlers
  issued, faults

discord == <<link, gone, shown, messages, strays>>
vars == <<now, event, row, discord, proc, issued, faults>>

Times == 0 .. MaxTime
Procs == Handlers \cup {Scheduler}
Status == {"scheduled", "open", "closed", "cancelled", "completed"}
Final == {"cancelled", "completed"}
Event == [status : Status, published : BOOLEAN, signups : BOOLEAN,
          held : BOOLEAN, starts : Times, closes : Int]
EndsAt(e) == e.starts + 1
PublishesAt(e) == e.starts - Lead

Kinds == {"publish_event", "close_attendance", "complete_event"}
Live == {"pending", "processing"}
Row == [status : Live \cup {"none", "completed", "cancelled"}, due : Int]
NoRow == [status |-> "none", due |-> 0]
Armed(due) == [status |-> "pending", due |-> due]
Retired(k, status) ==
  IF row[k].status \in Live THEN [row[k] EXCEPT !.status = status] ELSE row[k]

View(e) == [status |-> e.status, starts |-> e.starts]
NoMessage == [status |-> "none", starts |-> 0]

\* What an idle process has in mind: nothing.
Unread == [status |-> "scheduled", published |-> FALSE, signups |-> FALSE,
           held |-> FALSE, starts |-> 0, closes |-> 0]
IdleProcess == [op |-> "none", pc |-> "idle", to |-> 0, next |-> "scheduled",
                seen |-> Unread, msg |-> 0]

\* held: publishMinutesBeforeStart is null.  createStoredEvent arms the rows.
Init ==
  /\ now = 0
  /\ event \in [status : {"scheduled"}, published : {FALSE}, signups : BOOLEAN,
                held : BOOLEAN, starts : {FirstStart}, closes : {FirstStart - 1}]
  /\ row = [k \in Kinds |->
              CASE k = "publish_event" ->
                     IF event.held THEN NoRow ELSE Armed(PublishesAt(event))
                [] k = "close_attendance" ->
                     IF event.signups THEN Armed(event.closes) ELSE NoRow
                [] OTHER -> Armed(EndsAt(event))]
  /\ link = 0 /\ gone = FALSE /\ shown = NoMessage /\ messages = 0 /\ strays = 0
  /\ proc = [p \in Procs |-> IdleProcess]
  /\ issued = 0 /\ faults = 0

Tick ==
  /\ now < MaxTime /\ now' = now + 1
  /\ UNCHANGED <<event, row, discord, proc, issued, faults>>

-----------------------------------------------------------------------------
(* Steps of a process.  `seen' is the event as it last read it, `msg' the   *)
(* message it is linked to, `next' the status a command decided to write;  *)
(* an idle process remembers nothing.                                      *)

At(p, pc, ops) == proc[p].pc = pc /\ proc[p].op \in ops
Goto(p, pc) == proc' = [proc EXCEPT ![p].pc = pc]
Sees(p, pc) == proc' = [proc EXCEPT ![p].pc = pc, ![p].seen = event]

\* The executor or handler returns; the scheduler still settles its row.
Ended(p) == IF p = Scheduler THEN [proc[p] EXCEPT !.pc = "done"]
            ELSE IdleProcess
End(p) == proc' = [proc EXCEPT ![p] = Ended(p)]
Steps(p, pc, more) ==
  IF more THEN Goto(p, pc) ELSE End(p)

Clock == UNCHANGED <<now, issued, faults>>
Discord == UNCHANGED discord

-----------------------------------------------------------------------------
(* publishStoredEvent, run by the scheduler and by /event publish.         *)

Publishable(e) ==
  /\ ~e.published /\ e.status \notin Final
  /\ e.starts > now
  /\ e.signups => e.closes > now

\* Everything the Discord message is built from is read here.
PublishRead(p) ==
  /\ At(p, "start", {"publish", "publish_event"})
  /\ IF Publishable(event) THEN Sees(p, "send") ELSE End(p)
  /\ UNCHANGED <<event, row>> /\ Clock /\ Discord

PublishSend(p) ==
  /\ At(p, "send", {"publish", "publish_event"})
  /\ messages' = messages + 1
  /\ Goto(p, "link")
  /\ UNCHANGED <<event, row, link, gone, shown, strays>> /\ Clock

PublishedStatus(p) == IF proc[p].seen.signups THEN "open" ELSE "scheduled"

\* Mutants: the claim does not look at published_at; it does not look at status.
CanPublishAgain == event.status \in {"scheduled", "open"}
CanPublishFinal == ~event.published

\* The conditional UPDATE of the publication transaction.
CanPublish == ~event.published /\ event.status \in {"scheduled", "open"}

\* The winner links its message; the loser deletes it.
PublishLink(p) ==
  /\ At(p, "link", {"publish", "publish_event"})
  /\ IF CanPublish
     THEN /\ event' = [event EXCEPT !.published = TRUE, !.status = PublishedStatus(p)]
          /\ shown' = [status |-> PublishedStatus(p), starts |-> proc[p].seen.starts]
          /\ link' = 1
          /\ Steps(p, "unschedule", p # Scheduler)
          /\ UNCHANGED messages
     ELSE /\ messages' = messages - 1
          /\ End(p)
          /\ UNCHANGED <<event, shown, link>>
  /\ UNCHANGED <<row, gone, strays>> /\ Clock

\* markEventPublicationCompleted.
PublishUnschedule(p) ==
  /\ At(p, "unschedule", {"publish"})
  /\ row' = [row EXCEPT !["publish_event"] = Retired("publish_event", "completed")]
  /\ End(p)
  /\ UNCHANGED event /\ Clock /\ Discord

-----------------------------------------------------------------------------
(* refreshAttendanceMessage: read the event, then edit the linked message; *)
(* if Discord no longer knows it, send another one and swap the link.      *)

RefreshRead(p) ==
  /\ proc[p].pc = "refresh"
  /\ IF link = 0 THEN End(p)
     ELSE proc' = [proc EXCEPT ![p].pc = "edit", ![p].seen = event, ![p].msg = link]
  /\ UNCHANGED <<event, row>> /\ Clock /\ Discord

AfterRefresh(p) == Steps(p, "retire", proc[p].op = "close")

RefreshEdit(p) ==
  /\ proc[p].pc = "edit"
  /\ IF proc[p].msg = link /\ ~gone
     THEN shown' = View(proc[p].seen) /\ AfterRefresh(p) /\ UNCHANGED messages
     ELSE messages' = messages + 1 /\ Goto(p, "swap") /\ UNCHANGED shown
  /\ UNCHANGED <<event, row, link, gone, strays>> /\ Clock

\* Mutant: the link is replaced whichever message it names.
SwapAlways(p) == TRUE

\* Only the link this refresh read may be replaced.
SwapApplies(p) == proc[p].msg = link

RefreshSwap(p) ==
  /\ proc[p].pc = "swap"
  /\ IF SwapApplies(p)
     THEN /\ link' = link + 1 /\ gone' = FALSE /\ shown' = View(proc[p].seen)
          /\ UNCHANGED messages
     ELSE messages' = messages - 1 /\ UNCHANGED <<link, gone, shown>>
  /\ AfterRefresh(p)
  /\ UNCHANGED <<event, row, strays>> /\ Clock

\* Somebody deletes the public message.
DeleteMessage ==
  /\ link # 0 /\ ~gone /\ faults < MaxFaults
  /\ gone' = TRUE /\ messages' = messages - 1 /\ faults' = faults + 1
  /\ UNCHANGED <<now, event, row, link, shown, strays, proc, issued>>

-----------------------------------------------------------------------------
(* The scheduler (ScheduledActions models claims and retries in full).     *)

Claim(k) ==
  /\ proc[Scheduler].pc = "idle"
  /\ row[k].status = "pending" /\ row[k].due <= now
  /\ row' = [row EXCEPT ![k].status = "processing"]
  /\ proc' = [proc EXCEPT ![Scheduler].op = k, ![Scheduler].pc = "start"]
  /\ UNCHANGED event /\ Clock /\ Discord

\* executeCloseAttendance.
CloseLoad ==
  /\ At(Scheduler, "start", {"close_attendance"})
  /\ IF event.status \in Final \/ (event.status = "closed" /\ ~event.published)
     THEN End(Scheduler)
     ELSE Sees(Scheduler, IF event.status = "closed" THEN "refresh" ELSE "write")
  /\ UNCHANGED <<event, row>> /\ Clock /\ Discord

CloseWrite ==
  /\ At(Scheduler, "write", {"close_attendance"})
  /\ IF event.status \in {"scheduled", "open"}
     THEN /\ event' = [event EXCEPT !.status = "closed"]
          /\ Steps(Scheduler, "refresh", proc[Scheduler].seen.published)
     ELSE End(Scheduler) /\ UNCHANGED event
  /\ UNCHANGED row /\ Clock /\ Discord

\* Mutant: a closed event is not completed.
CanCompleteUnlessClosed == event.status \in {"scheduled", "open"}

CanComplete == event.status \in {"scheduled", "open", "closed"}

\* executeCompleteEvent: an interrupted completion resumes with the clean-up.
CompleteLoad ==
  /\ At(Scheduler, "start", {"complete_event"})
  /\ IF event.status = "cancelled" THEN End(Scheduler)
     ELSE Sees(Scheduler, IF event.status = "completed" THEN "retire" ELSE "write")
  /\ UNCHANGED <<event, row>> /\ Clock /\ Discord

CompleteWrite ==
  /\ At(Scheduler, "write", {"complete_event"})
  /\ IF CanComplete
     THEN event' = [event EXCEPT !.status = "completed"] /\ Goto(Scheduler, "retire")
     ELSE End(Scheduler) /\ UNCHANGED event
  /\ UNCHANGED row /\ Clock /\ Discord

CompleteRetire ==
  /\ At(Scheduler, "retire", {"complete_event"})
  /\ row' = [k \in Kinds |-> IF k = "complete_event" THEN row[k]
                             ELSE Retired(k, "completed")]
  /\ Steps(Scheduler, "refresh", proc[Scheduler].seen.published)
  /\ UNCHANGED event /\ Clock /\ Discord

MarkActionCompleted ==
  LET k == proc[Scheduler].op IN
  /\ proc[Scheduler].pc = "done"
  /\ row' = IF row[k].status = "processing"
            THEN [row EXCEPT ![k].status = "completed"] ELSE row
  /\ proc' = [proc EXCEPT ![Scheduler] = IdleProcess]
  /\ UNCHANGED event /\ Clock /\ Discord

-----------------------------------------------------------------------------
(* Commands and attendance clicks: read and validate, write, repair rows.  *)
(* A click in time answers the event and only refreshes the message.       *)

Overdue(e) == e.status = "open" /\ (e.closes <= now \/ e.starts <= now)

Move(e, s) == [e EXCEPT !.starts = s, !.closes = s - (e.starts - e.closes)]

CanMove(s) ==
  /\ s > now /\ s < MaxTime
  /\ event.signups /\ event.status \in {"open", "scheduled"}
       => Move(event, s).closes > now
  /\ ~event.published /\ ~event.held
       => /\ PublishesAt(Move(event, s)) > now
          /\ event.signups =>
               PublishesAt(Move(event, s)) < Move(event, s).closes

\* What the command accepts after its first read.  `to' is the new start of a
\* move, the new deadline of a reopening.
Accepts(op, to) ==
  CASE op = "close" -> event.signups /\ event.published /\ event.status = "open"
    [] op = "reopen" -> /\ event.signups /\ event.published
                        /\ event.status \notin Final
                        /\ event.starts > now
                        /\ to \in {event.starts, event.starts - 1} /\ to > now
    [] op = "cancel" -> event.status \notin Final
    [] op = "move" -> event.status \notin Final /\ CanMove(to)
    [] op = "hold" -> /\ event.status \notin Final /\ ~event.published /\ ~event.held
                      /\ event.signups /\ event.status \in {"open", "scheduled"}
                           => event.closes > now
    [] op = "publish" -> Publishable(event)
    [] op = "click" -> event.published /\ event.signups
    [] op = "refresh" -> event.published

FirstStep(op) ==
  CASE op = "publish" -> "start"
    [] op \in {"click", "refresh"} ->
         IF event.signups /\ Overdue(event) THEN "write" ELSE "refresh"
    [] OTHER -> "write"

\* An unpublished event that closed is scheduled again when its deadline moves
\* into the future; a published one stays closed.
EditedStatus(e, closes) ==
  IF ~e.published /\ e.signups /\ e.status = "closed" /\ closes > now
  THEN "scheduled" ELSE e.status

NextStatus(op, to) ==
  CASE op = "reopen" -> "open"
    [] op = "cancel" -> "cancelled"
    [] op = "move" -> EditedStatus(event, Move(event, to).closes)
    [] op = "hold" -> EditedStatus(event, event.closes)
    [] OTHER -> "closed"

Command(h, op) ==
  /\ proc[h].pc = "idle" /\ issued < MaxCommands
  /\ \E to \in IF op \in {"move", "reopen"} THEN Times ELSE {0} :
       /\ Accepts(op, to)
       /\ proc' = [proc EXCEPT ![h] =
                     [op |-> op, pc |-> FirstStep(op), to |-> to, msg |-> 0,
                      next |-> NextStatus(op, to), seen |-> event]]
  /\ issued' = issued + 1
  /\ UNCHANGED <<now, event, row, discord, faults>>

\* Mutant: the UPDATE is not conditional on the status that was validated.
WriteAnyway(h) == TRUE

\* The WHERE clause of the UPDATE.  /event refresh alone has none.
WriteApplies(h) ==
  proc[h].op = "refresh" \/ event.status = proc[h].seen.status

\* The columns the command sets; an edit writes back all it read.
Written(h) ==
  LET op == proc[h].op
      old == proc[h].seen
      new == IF op = "move" THEN Move(old, proc[h].to) ELSE old
      e == [event EXCEPT !.status = proc[h].next]
  IN CASE op = "close" -> [e EXCEPT !.closes = now]
       [] op = "reopen" -> [e EXCEPT !.closes = proc[h].to]
       [] op \in {"move", "hold"} ->
            [e EXCEPT !.starts = new.starts, !.closes = new.closes,
                      !.held = old.held \/ op = "hold"]
       [] OTHER -> e

AfterWrite ==
  [close |-> "refresh", click |-> "retire", refresh |-> "retire",
   reopen |-> "rows", cancel |-> "rows", move |-> "rows", hold |-> "rows"]

Write(h) ==
  /\ h \in Handlers /\ proc[h].pc = "write"
  /\ IF WriteApplies(h)
     THEN event' = Written(h) /\ Goto(h, AfterWrite[proc[h].op])
     ELSE Steps(h, "refresh", proc[h].op = "click") /\ UNCHANGED event
  /\ UNCHANGED row /\ Clock /\ Discord

\* The row changes of a move, decided by the event as it was read.  The mutant
\* keeps the close action of an open event.
MovedRows(h, statuses) ==
  LET old == proc[h].seen
      new == Move(old, proc[h].to)
  IN [k \in Kinds |->
        CASE k = "close_attendance" ->
               IF old.signups /\ proc[h].next \in statuses
               THEN Armed(new.closes) ELSE row[k]
          [] k = "complete_event" -> Armed(EndsAt(new))
          [] OTHER -> IF ~old.published /\ ~old.held
                      THEN Armed(PublishesAt(new)) ELSE row[k]]
MovedForgettingOpen(h) == MovedRows(h, {"scheduled"})
\* Mutant: the completion stays where it was.
MovedForgettingEnd(h) ==
  [MovedRows(h, {"open", "scheduled"}) EXCEPT !["complete_event"] = row["complete_event"]]
Moved(h) == MovedRows(h, {"open", "scheduled"})

Repaired(h) ==
  CASE proc[h].op = "reopen" ->
         [row EXCEPT !["close_attendance"] = Armed(proc[h].to)]
    [] proc[h].op = "cancel" -> [k \in Kinds |-> Retired(k, "cancelled")]
    [] proc[h].op = "move" -> Moved(h)
    [] OTHER -> [row EXCEPT !["publish_event"] = Retired("publish_event", "cancelled")]

\* The upserts of a handler are one step.
Rows(h) ==
  /\ h \in Handlers /\ proc[h].pc = "rows"
  /\ row' = Repaired(h)
  /\ Steps(h, "refresh", proc[h].seen.published)
  /\ UNCHANGED event /\ Clock /\ Discord

\* markAttendanceCloseCompleted.
Retire(h) ==
  /\ At(h, "retire", {"close", "click", "refresh"})
  /\ row' = [row EXCEPT !["close_attendance"] = Retired("close_attendance", "completed")]
  /\ Steps(h, "refresh", proc[h].op # "close")
  /\ UNCHANGED event /\ Clock /\ Discord

\* A lost process or a failing statement.  A handler is gone; the scheduler
\* gets its row back (stale recovery or retry).  A message that was sent but
\* not linked is deleted if a statement failed, and stays if the process died.
Lost(p) ==
  /\ proc[p].pc # "idle" /\ faults < MaxFaults
  /\ row' = [k \in Kinds |->
               IF p = Scheduler /\ k = proc[p].op /\ row[k].status = "processing"
               THEN [row[k] EXCEPT !.status = "pending"] ELSE row[k]]
  /\ proc' = [proc EXCEPT ![p] = IdleProcess]
  /\ IF proc[p].pc \in {"link", "swap"}
     THEN \/ strays' = strays + 1 /\ UNCHANGED messages
          \/ messages' = messages - 1 /\ UNCHANGED strays
     ELSE UNCHANGED <<messages, strays>>
  /\ faults' = faults + 1
  /\ UNCHANGED <<now, event, link, gone, shown, issued>>

-----------------------------------------------------------------------------

Works(p) ==
  \/ PublishRead(p) \/ PublishSend(p) \/ PublishLink(p) \/ PublishUnschedule(p)
  \/ RefreshRead(p) \/ RefreshEdit(p) \/ RefreshSwap(p)
  \/ Write(p) \/ Rows(p) \/ Retire(p)

Schedules ==
  \/ \E k \in Kinds : Claim(k)
  \/ CloseLoad \/ CloseWrite
  \/ CompleteLoad \/ CompleteWrite \/ CompleteRetire
  \/ MarkActionCompleted

Next ==
  \/ Tick
  \/ DeleteMessage
  \/ Schedules
  \/ \E p \in Procs : Works(p) \/ Lost(p)
  \/ \E h \in Handlers, op \in Ops : Command(h, op)

Spec == Init /\ [][Next]_vars

\* The clock moves, the scheduler polls, and a started handler goes on.
Fairness ==
  /\ WF_vars(Tick)
  /\ WF_vars(Schedules \/ Works(Scheduler))
  /\ \A h \in Handlers : WF_vars(Works(h))

FairSpec == Spec /\ Fairness

-----------------------------------------------------------------------------
(* Properties.                                                             *)

Process == [op : AllOps \cup Kinds \cup {"none"},
            pc : {"idle", "start", "send", "link", "unschedule", "refresh", "edit",
                  "swap", "write", "rows", "retire", "done"},
            to : Times, msg : Nat, next : Status, seen : Event]

\* Shape of the state; an idle process has forgotten what it read.
TypeOK ==
  /\ now \in Times
  /\ event \in Event
  /\ row \in [Kinds -> Row]
  /\ shown \in [status : Status \cup {"none"}, starts : Times]
  /\ link \in Nat /\ gone \in BOOLEAN /\ messages \in Int /\ strays \in Nat
  /\ issued \in Nat /\ faults \in Nat
  /\ proc \in [Procs -> Process]
  /\ \A p \in Procs : proc[p].pc = "idle" <=> proc[p].op = "none"

\* "Cancellation is final", and so is completion: nobody who validated an
\* earlier status, publisher, editor, closer or scheduler, writes over it.
FinalStatusIsFinal ==
  [][event.status \in Final => event'.status = event.status]_vars

\* Processes that have sent a message and not yet linked it.
Unlinked == {p \in Procs : proc[p].pc \in {"link", "swap"}}

\* Publishers and refreshers racing each other leave one public message: beside
\* the linked one there are only those a process is still working on and those
\* of processes that died between the send and the database.
OnePublicMessage ==
  /\ event.published <=> link # 0
  /\ messages = Cardinality(Unlinked) + (IF link # 0 /\ ~gone THEN 1 ELSE 0) + strays

\* An event open for attendance is going to close: with one command at a time
\* (it may overlap the scheduler), the close action is live and due at the
\* stored deadline whenever no command is at work.
OpenHasCloser ==
  /\ Cardinality(Handlers) = 1 /\ faults = 0 /\ event.status = "open"
  /\ \A h \in Handlers : proc[h].pc = "idle"
  => /\ row["close_attendance"].status \in Live
     /\ row["close_attendance"].due = event.closes

\* An event that has not ended is going to: its completion action is live,
\* whoever edits, closes, reopens or is lost, and with one command at a time it
\* is due at the end of the event as stored whenever no command is at work.
EndIsWatched ==
  event.status \notin Final =>
    /\ row["complete_event"].status \in Live
    /\ Cardinality(Handlers) = 1 /\ faults = 0 /\ (\A h \in Handlers : proc[h].pc = "idle")
         => row["complete_event"].due = EndsAt(event)

\* Every event reaches a final status and keeps it, however often it was moved,
\* closed or reopened, and whatever process was lost.
EventEnds == <>[](event.status \in Final)

\* "When a published event changes, the bot refreshes the public message": once
\* every handler and the scheduler are done, the linked message shows the
\* stored status and start.  An edit during a publication violates it: which of
\* the two refreshes is decided by publishedAt as the edit has read it.
MessageIsCurrent ==
  event.published /\ faults = 0 /\ (\A p \in Procs : proc[p].pc = "idle")
    => shown = View(event)
=============================================================================
