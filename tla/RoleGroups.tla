----------------------------- MODULE RoleGroups -----------------------------
(***************************************************************************)
(* Role-request groups of one event: automatic opening and closing by the  *)
(* scheduler (src/scheduler/event-scheduler.ts), publication               *)
(* (src/role-requests/role-request-group-publication.ts), refresh and      *)
(* recovery of the messages (role-request-message.ts), rescheduling and    *)
(* wake-up (role-request-scheduling.ts), and the commands that post and    *)
(* close groups (src/commands/event-role-requests.ts) or change the event. *)
(*                                                                         *)
(* The scheduler has several workers, so the attempt number that fences a  *)
(* claim is kept; ScheduledActions models the rest of it.                  *)
(***************************************************************************)
EXTENDS Integers, FiniteSets

CONSTANTS
  Groups,       \* groups of the event, there from the start or posted later
  Workers,      \* scheduler processes
  Handlers,     \* commands and button presses in flight at once
  Ops,          \* which of them are issued
  MaxTime,      \* bound: the clock
  MaxCommands,  \* bound: commands issued
  MaxFaults     \* bound: lost processes, failed statements, deleted messages

AllOps == {"move", "hold", "schedule", "cancel", "complete", "post", "close", "refresh"}
Procs == Workers \cup Handlers

ASSUME ProcsAssumption == Workers \cap Handlers = {} /\ IsFiniteSet(Procs)
ASSUME OpsAssumption == Ops \subseteq AllOps
ASSUME BoundsAssumption == MaxTime \in Nat /\ MaxCommands \in Nat /\ MaxFaults \in Nat

FirstStart == 2   \* bound: when the event starts if it is not moved
Lead == 1         \* bound: a scheduled publication this long before the start
OpenLead == 2     \* bound: automatic groups open this long before the start
                  \* and close at the start

VARIABLES
  now,
  event,     \* the columns of events that matter to groups
  group,     \* the rows of role_request_groups, and their Discord messages
  row,       \* row[g][k]: the scheduled_actions that open and close them
  proc,
  issued, faults

vars == <<now, event, group, row, proc, issued, faults>>

Times == 0 .. MaxTime
Kinds == {"open", "close"}

\* ended: cancelled or completed.  held: no publication is scheduled.  torn is
\* history: a move or a post was lost before it scheduled its rows.
Event == [ended : BOOLEAN, published : BOOLEAN, held : BOOLEAN, torn : BOOLEAN, starts : Int]

OpensAt(e) == e.starts - OpenLead
ClosesAt(e) == e.starts
PublishesAt(e) == e.starts - Lead

\* planned: it opens a time before the start, not when it is posted.
\* link numbers the message of the group, gone says that somebody deleted it;
\* messages counts those on Discord, strays those that dead processes left.
Group == [state : {"absent", "kept", "deleted"}, planned : BOOLEAN, opens : Int, closes : Int,
          closed : BOOLEAN, link : Nat, gone : BOOLEAN, messages : Int, strays : Nat]
Absent == [state |-> "absent", planned |-> FALSE, opens |-> 0, closes |-> 0,
           closed |-> FALSE, link |-> 0, gone |-> FALSE, messages |-> 0, strays |-> 0]
Planned(e) == [Absent EXCEPT !.state = "kept", !.planned = TRUE,
                             !.opens = OpensAt(e), !.closes = ClosesAt(e)]

Live == {"pending", "processing"}
Row == [status : Live \cup {"none", "completed", "cancelled"}, due : Int, attempt : Nat]
NoRow == [status |-> "none", due |-> 0, attempt |-> 0]
Armed(due) == [status |-> "pending", due |-> due, attempt |-> 0]
Retired(r, status) == IF r.status \in Live THEN [r EXCEPT !.status = status] ELSE r

\* isAwaitingEventPublication.
Awaiting(e) == ~e.published /\ (e.held \/ PublishesAt(e) <= now)

\* What a process has in mind: the group it works on, the groups it has still to
\* refresh, a time it read, the message it found linked, the attempt it claimed.
Process == [op : AllOps \cup Kinds \cup {"none"},
            pc : {"idle", "load", "check", "recheck", "send", "link", "explain",
                  "requeue", "failed", "done", "insert", "schedule", "write",
                  "mark", "groups", "retire", "refresh", "edit", "swap"},
            on : SUBSET Groups, todo : SUBSET Groups,
            at : Int, msg : Nat, attempt : Nat]
Idle == [op |-> "none", pc |-> "idle", on |-> {}, todo |-> {}, at |-> 0,
         msg |-> 0, attempt |-> 0]

\* A preset is applied with its groups and both of their rows; the other groups
\* are not posted yet.
Init ==
  /\ now = 0
  /\ event \in [ended : {FALSE}, published : {FALSE}, held : BOOLEAN, torn : {FALSE},
                starts : {FirstStart}]
  /\ group \in [Groups -> {Absent, Planned(event)}]
  /\ row = [g \in Groups |->
              IF group[g].planned
              THEN [open |-> Armed(OpensAt(event)), close |-> Armed(ClosesAt(event))]
              ELSE [k \in Kinds |-> NoRow]]
  /\ proc = [p \in Procs |-> Idle]
  /\ issued = 0 /\ faults = 0

Tick ==
  /\ now < MaxTime /\ now' = now + 1
  /\ UNCHANGED <<event, group, row, proc, issued, faults>>

Clock == UNCHANGED <<now, issued, faults>>
At(p, pc, op) == proc[p].pc = pc /\ proc[p].op = op
Goto(p, pc) == proc' = [proc EXCEPT ![p].pc = pc]
Stop(p) == proc' = [proc EXCEPT ![p] = Idle]
On(p) == CHOOSE g \in proc[p].on : TRUE

-----------------------------------------------------------------------------
(* The event changes.  EventLifecycle models how it does.                  *)

\* The mutant forgets actions that are being processed.
ResumedPending == {"pending"}
Resumed == Live

\* Publication wakes the openings that fell due, whoever works on them.
Publish ==
  LET wakes(g) == /\ group[g].planned /\ group[g].link = 0 /\ ~group[g].closed
                  /\ group[g].opens <= now /\ group[g].closes > now
                  /\ row[g]["open"].status \in Resumed
  IN
  /\ ~event.published /\ ~event.ended /\ event.starts > now
  /\ event' = [event EXCEPT !.published = TRUE]
  /\ row' = [g \in Groups |->
               IF wakes(g) THEN [row[g] EXCEPT !["open"] = Armed(now)] ELSE row[g]]
  /\ UNCHANGED <<group, proc>> /\ Clock

\* An edit of the start or of the publication schedule; only the former goes on
\* to reschedule the groups.
Edit(h, op) ==
  /\ ~event.ended
  /\ \/ /\ op = "move"
        /\ \E s \in Times :
             /\ s > now /\ s < MaxTime /\ s # event.starts
             /\ ~event.published /\ ~event.held => PublishesAt([event EXCEPT !.starts = s]) > now
             /\ event' = [event EXCEPT !.starts = s]
        /\ proc' = [proc EXCEPT ![h].op = op, ![h].pc = "groups"]
     \/ /\ op \in {"hold", "schedule"} /\ ~event.published
        /\ op = "schedule" => PublishesAt(event) > now
        /\ event' = [event EXCEPT !.held = (op = "hold")] /\ UNCHANGED proc
  /\ UNCHANGED <<group, row>>

Later(t) == IF t <= now THEN now ELSE t

Moves(g) == group[g].state = "kept" /\ ~group[g].closed

\* rescheduleRoleRequestGroupsForEventStart: by the start as it is now.
MoveGroups(h) ==
  LET opening(g) == Moves(g) /\ group[g].planned /\ group[g].link = 0 IN
  /\ At(h, "groups", "move")
  /\ group' = [g \in Groups |->
                 [group[g] EXCEPT !.closes = IF Moves(g) THEN ClosesAt(event) ELSE @,
                                  !.opens = IF opening(g) THEN OpensAt(event) ELSE @]]
  /\ row' = [g \in Groups |->
               [open |-> IF opening(g) THEN Armed(Later(OpensAt(event))) ELSE row[g]["open"],
                close |-> IF Moves(g) THEN Armed(Later(ClosesAt(event))) ELSE row[g]["close"]]]
  /\ event' = [event EXCEPT !.torn = FALSE]
  /\ Stop(h) /\ Clock

\* /event cancel, or the completion of an event that is over.
End(h, op) ==
  /\ ~event.ended
  /\ op = "cancel" \/ (op = "complete" /\ event.starts < now)
  /\ event' = [event EXCEPT !.ended = TRUE]
  /\ proc' = [proc EXCEPT ![h].op = op, ![h].pc = "retire"]
  /\ UNCHANGED <<group, row>>

\* Cancellation cancels every row of the event, completion none of a group; both
\* refresh the messages.
EndRetire(h) ==
  /\ proc[h].pc = "retire"
  /\ row' = IF proc[h].op = "cancel"
            THEN [g \in Groups |-> [k \in Kinds |-> Retired(row[g][k], "cancelled")]]
            ELSE row
  /\ proc' = [proc EXCEPT ![h].pc = "refresh",
                          ![h].todo = {g \in Groups : group[g].link # 0}]
  /\ UNCHANGED <<event, group>> /\ Clock

-----------------------------------------------------------------------------
(* refreshRoleRequestMessages and refreshRoleRequestGroupMessage.          *)

RefreshNext(p) ==
  /\ proc[p].pc = "refresh"
  /\ \/ /\ proc[p].todo = {}
        /\ IF p \in Workers THEN Goto(p, "done") ELSE Stop(p)
     \/ \E g \in proc[p].todo :
          proc' = [proc EXCEPT ![p].todo = @ \ {g}, ![p].on = {g}, ![p].msg = group[g].link,
                               ![p].pc = IF group[g].link = 0 THEN "refresh" ELSE "edit"]
  /\ UNCHANGED <<event, group, row>> /\ Clock

\* Discord knows the message: it is edited.  If not, another one is sent.
RefreshEdit(p) ==
  LET g == On(p) IN
  /\ proc[p].pc = "edit"
  /\ IF proc[p].msg = group[g].link /\ ~group[g].gone
     THEN Goto(p, "refresh") /\ UNCHANGED group
     ELSE Goto(p, "swap") /\ group' = [group EXCEPT ![g].messages = @ + 1]
  /\ UNCHANGED <<event, row>> /\ Clock

\* Mutant: the link is replaced whichever message it names.
SwapAlways(p) == TRUE
SwapApplies(p) == proc[p].msg = group[On(p)].link

RefreshSwap(p) ==
  LET g == On(p) IN
  /\ proc[p].pc = "swap"
  /\ IF SwapApplies(p)
     THEN group' = [group EXCEPT ![g].link = @ + 1, ![g].gone = FALSE]
     ELSE group' = [group EXCEPT ![g].messages = @ - 1]
  /\ Goto(p, "refresh")
  /\ UNCHANGED <<event, row>> /\ Clock

\* A member's click or request refreshes the messages of every group.
Refresh(h, op) ==
  /\ op = "refresh"
  /\ proc' = [proc EXCEPT ![h].op = op, ![h].pc = "refresh",
                          ![h].todo = {g \in Groups : group[g].link # 0}]
  /\ UNCHANGED <<event, group, row>>

DeleteMessage(g) ==
  /\ group[g].link # 0 /\ ~group[g].gone /\ faults < MaxFaults
  /\ group' = [group EXCEPT ![g].gone = TRUE, ![g].messages = @ - 1]
  /\ faults' = faults + 1
  /\ UNCHANGED <<now, event, row, proc, issued>>

-----------------------------------------------------------------------------
(* The scheduler.                                                          *)

Claim(w, g, k) ==
  /\ proc[w].pc = "idle"
  /\ row[g][k].status = "pending" /\ row[g][k].due <= now
  /\ row' = [row EXCEPT ![g][k].status = "processing", ![g][k].attempt = @ + 1]
  /\ proc' = [proc EXCEPT ![w] = [Idle EXCEPT !.op = k, !.pc = "load", !.on = {g},
                                              !.attempt = row[g][k].attempt + 1]]
  /\ UNCHANGED <<event, group>> /\ Clock

Mine(w) == row[On(w)][proc[w].op]
Becomes(w, r) == row' = [row EXCEPT ![On(w)][proc[w].op] = r]

\* Mutant: the fence does not compare attempts.
OwnsProcessing(w) == Mine(w).status = "processing"
Owns(w) == Mine(w).status = "processing" /\ Mine(w).attempt = proc[w].attempt

\* executeRoleRequestGroupOpen reads the closing time it may park the row at.
OpenLoad(w) ==
  /\ At(w, "load", "open")
  /\ proc' = [proc EXCEPT ![w].pc = "check", ![w].at = group[On(w)].closes]
  /\ UNCHANGED <<event, group, row>> /\ Clock

\* classifyUnpublishableState.
Obstacle(g) ==
  IF group[g].link # 0 \/ event.ended \/ group[g].closed \/ group[g].closes <= now THEN "over"
  ELSE IF group[g].opens > now THEN "early"
  ELSE IF Awaiting(event) THEN "awaiting"
  ELSE "none"

\* What publishRoleRequestGroup does next if nothing is in the way.
Onward == [check |-> "recheck", recheck |-> "send", explain |-> "failed"]

\* Before and after the Discord look-ups, and after losing the link.
OpenCheck(w) ==
  LET o == Obstacle(On(w)) IN
  /\ proc[w].op = "open" /\ proc[w].pc \in DOMAIN Onward
  /\ proc' = [proc EXCEPT
       ![w].pc = CASE o = "over" -> "done"
                   [] o \in {"early", "awaiting"} -> "requeue"
                   [] OTHER -> Onward[proc[w].pc],
       ![w].at = IF o = "early" THEN group[On(w)].opens ELSE @]
  /\ UNCHANGED <<event, group, row>> /\ Clock

OpenSend(w) ==
  /\ At(w, "send", "open")
  /\ group' = [group EXCEPT ![On(w)].messages = @ + 1]
  /\ Goto(w, "link")
  /\ UNCHANGED <<event, row>> /\ Clock

\* Mutant: the claim does not look at the message that is already linked.
LinkableAgain(g) ==
  /\ ~group[g].closed /\ group[g].opens <= now /\ group[g].closes > now
  /\ ~event.ended /\ ~Awaiting(event)

\* The conditional UPDATE of the group and the re-reading of the locked event.
Linkable(g) ==
  /\ group[g].link = 0 /\ ~group[g].closed
  /\ group[g].opens <= now /\ group[g].closes > now
  /\ ~event.ended /\ ~Awaiting(event)

OpenLink(w) ==
  LET g == On(w) IN
  /\ At(w, "link", "open")
  /\ IF Linkable(g)
     THEN group' = [group EXCEPT ![g].link = 1] /\ Goto(w, "done")
     ELSE group' = [group EXCEPT ![g].messages = @ - 1] /\ Goto(w, "explain")
  /\ UNCHANGED <<event, row>> /\ Clock

\* The row comes back at the opening time, or is parked until publication
\* wakes it or the group closes.
OpenRequeue(w) ==
  /\ At(w, "requeue", "open")
  /\ IF Owns(w) THEN Becomes(w, Armed(proc[w].at)) ELSE UNCHANGED row
  /\ Goto(w, "done")
  /\ UNCHANGED <<event, group>> /\ Clock

CloseLoad(w) ==
  /\ At(w, "load", "close")
  /\ proc' = [proc EXCEPT
       ![w].pc = IF event.ended \/ group[On(w)].state = "deleted" THEN "done"
                 ELSE IF group[On(w)].closed THEN "refresh" ELSE "write",
       ![w].todo = proc[w].on]
  /\ UNCHANGED <<event, group, row>> /\ Clock

\* Mutant: only a group with a message is closed.
CanClosePosted(g) == group[g].state = "kept" /\ ~group[g].closed /\ ~event.ended /\ group[g].link # 0
CanClose(g) == group[g].state = "kept" /\ ~group[g].closed /\ ~event.ended

CloseWrite(w) ==
  LET g == On(w) IN
  /\ w \in Workers /\ At(w, "write", "close")
  /\ IF CanClose(g)
     THEN group' = [group EXCEPT ![g].closed = TRUE] /\ Goto(w, "refresh")
     ELSE Goto(w, "done") /\ UNCHANGED group
  /\ UNCHANGED <<event, row>> /\ Clock

Rest(w) == Stop(w)

\* markActionCompleted, or handleActionFailure with a retry.
Settle(w) ==
  /\ proc[w].pc \in {"done", "failed"}
  /\ IF Owns(w)
     THEN Becomes(w, [Mine(w) EXCEPT
            !.status = IF proc[w].pc = "done" THEN "completed" ELSE "pending"])
     ELSE UNCHANGED row
  /\ Rest(w)
  /\ UNCHANGED <<event, group>> /\ Clock

-----------------------------------------------------------------------------
(* Commands that post and close a group.                                   *)

\* postRoleRequestGroup computes the closing time before it talks to Discord.
Post(h, op) ==
  /\ op = "post" /\ ~event.ended /\ ClosesAt(event) > now
  /\ \E g \in Groups :
       /\ group[g].state = "absent"
       /\ \A q \in Procs : g \notin proc[q].on
       /\ proc' = [proc EXCEPT ![h] = [Idle EXCEPT !.op = op, !.pc = "insert", !.on = {g},
                                                   !.at = ClosesAt(event)]]
  /\ UNCHANGED <<event, group, row>>

PostInsert(h) ==
  /\ At(h, "insert", "post")
  /\ group' = [group EXCEPT ![On(h)].state = "kept", ![On(h)].opens = now,
                            ![On(h)].closes = proc[h].at]
  /\ Goto(h, "send")
  /\ UNCHANGED <<event, row>> /\ Clock

PostSend(h) ==
  /\ At(h, "send", "post")
  /\ group' = [group EXCEPT ![On(h)].messages = @ + 1]
  /\ Goto(h, "link")
  /\ UNCHANGED <<event, row>> /\ Clock

PostLink(h) ==
  /\ At(h, "link", "post")
  /\ group' = [group EXCEPT ![On(h)].link = 1]
  /\ Goto(h, "schedule")
  /\ UNCHANGED <<event, row>> /\ Clock

PostSchedule(h) ==
  /\ At(h, "schedule", "post")
  /\ row' = [row EXCEPT ![On(h)]["close"] = Armed(proc[h].at)]
  /\ Stop(h)
  /\ UNCHANGED <<event, group>> /\ Clock

\* closeRoleRequestGroup.
Close(h, op) ==
  /\ op = "close"
  /\ \E g \in Groups :
       /\ group[g].state = "kept" /\ ~group[g].closed
       /\ proc' = [proc EXCEPT ![h] = [Idle EXCEPT !.op = op, !.pc = "write", !.on = {g}]]
  /\ UNCHANGED <<event, group, row>>

CloseNow(h) ==
  /\ h \in Handlers /\ At(h, "write", "close")
  /\ group' = [group EXCEPT ![On(h)].closed = group[On(h)].state = "kept"]
  /\ Goto(h, "mark")
  /\ UNCHANGED <<event, row>> /\ Clock

CloseMark(h) ==
  /\ At(h, "mark", "close")
  /\ row' = [row EXCEPT ![On(h)]["close"] = Retired(@, "completed")]
  /\ proc' = [proc EXCEPT ![h].pc = "refresh", ![h].todo = proc[h].on]
  /\ UNCHANGED <<event, group>> /\ Clock

Command(h, op) ==
  /\ proc[h].pc = "idle" /\ issued < MaxCommands
  /\ Edit(h, op) \/ End(h, op) \/ Refresh(h, op) \/ Post(h, op) \/ Close(h, op)
  /\ issued' = issued + 1
  /\ UNCHANGED <<now, faults>>

-----------------------------------------------------------------------------
(* Faults.                                                                 *)

Unlinked(p) == proc[p].pc \in {"link", "swap"}
Tears(p) == \/ proc[p].op = "move" /\ proc[p].pc = "groups"
            \/ proc[p].op = "post" /\ proc[p].pc # "insert"

\* The process dies; a message it sent and did not link stays.
Dies(p) ==
  /\ group' = IF Unlinked(p) THEN [group EXCEPT ![On(p)].strays = @ + 1] ELSE group
  /\ event' = [event EXCEPT !.torn = @ \/ Tears(p)]

\* A statement of it fails.  Unlinked messages are deleted.
Throws(p) ==
  /\ proc[p].op # "post"
  /\ group' = IF Unlinked(p) THEN [group EXCEPT ![On(p)].messages = @ - 1] ELSE group
  /\ event' = [event EXCEPT !.torn = @ \/ Tears(p)]

\* A post that fails after its INSERT deletes its message and its group.
PostUndone(h) ==
  LET g == On(h)
      kept == proc[h].pc = "schedule" /\ ~group[g].gone
  IN
  /\ proc[h].op = "post" /\ proc[h].pc # "insert"
  /\ group' = [group EXCEPT
       ![g] = [@ EXCEPT !.state = "deleted", !.link = 0, !.gone = FALSE],
       ![g].messages = IF Unlinked(h) \/ (kept /\ group[g].link = 1) THEN @ - 1 ELSE @,
       ![g].strays = IF kept /\ group[g].link # 1 THEN @ + 1 ELSE @]
  /\ UNCHANGED event

\* Its row, if it is a worker, will be given back.
Lost(p) ==
  /\ proc[p].pc # "idle" /\ faults < MaxFaults
  /\ IF p \in Workers /\ Owns(p)
     THEN Becomes(p, [Mine(p) EXCEPT !.status = "pending"]) ELSE UNCHANGED row
  /\ Dies(p) \/ Throws(p) \/ PostUndone(p)
  /\ Stop(p)
  /\ faults' = faults + 1
  /\ UNCHANGED <<now, issued>>

\* Stale recovery takes the row of a worker that only is slow.
Stale(w) ==
  /\ proc[w].pc # "idle" /\ Owns(w) /\ faults < MaxFaults
  /\ Becomes(w, [Mine(w) EXCEPT !.status = "pending"])
  /\ faults' = faults + 1
  /\ UNCHANGED <<now, event, group, proc, issued>>

-----------------------------------------------------------------------------

Schedules(w) ==
  \/ \E g \in Groups, k \in Kinds : Claim(w, g, k)
  \/ OpenLoad(w) \/ OpenCheck(w) \/ OpenSend(w) \/ OpenLink(w) \/ OpenRequeue(w)
  \/ CloseLoad(w) \/ CloseWrite(w)
  \/ Settle(w)
  \/ RefreshNext(w) \/ RefreshEdit(w) \/ RefreshSwap(w)

Handles(h) ==
  \/ MoveGroups(h) \/ EndRetire(h)
  \/ PostInsert(h) \/ PostSend(h) \/ PostLink(h) \/ PostSchedule(h)
  \/ CloseNow(h) \/ CloseMark(h)
  \/ RefreshNext(h) \/ RefreshEdit(h) \/ RefreshSwap(h)

Next ==
  \/ Tick
  \/ Publish
  \/ \E g \in Groups : DeleteMessage(g)
  \/ \E w \in Workers : Schedules(w) \/ Stale(w)
  \/ \E h \in Handlers : Handles(h)
  \/ \E h \in Handlers, op \in Ops : Command(h, op)
  \/ \E p \in Procs : Lost(p)

Spec == Init /\ [][Next]_vars

\* The clock moves, every scheduler polls, a started handler goes on.
Fairness ==
  /\ WF_vars(Tick)
  /\ \A w \in Workers : WF_vars(Schedules(w))
  /\ \A h \in Handlers : WF_vars(Handles(h))

FairSpec == Spec /\ Fairness

-----------------------------------------------------------------------------
(* Properties.                                                             *)

\* Shape of the state; an idle process has nothing in mind.
TypeOK ==
  /\ now \in Times
  /\ event \in Event
  /\ group \in [Groups -> Group]
  /\ row \in [Groups -> [Kinds -> Row]]
  /\ proc \in [Procs -> Process]
  /\ \A p \in Procs : proc[p].pc = "idle" => proc[p] = Idle
  /\ issued \in Nat /\ faults \in Nat

\* Workers that open the same group, refreshers that replace its deleted message
\* and administrators who post leave one message for each group: the linked one,
\* beside those a process still holds and those of processes that died.
OneGroupMessage ==
  \A g \in Groups :
    group[g].messages =
      Cardinality({p \in Procs : Unlinked(p) /\ proc[p].on = {g}}) + (IF group[g].link # 0 /\ ~group[g].gone THEN 1 ELSE 0)
        + group[g].strays

Quiet == \A h \in Handlers : proc[h].pc = "idle"
Opening(g) == \E w \in Workers : proc[w].op = "open" /\ proc[w].on = {g}

\* "If the event publishes before the group closes, event publication wakes the
\* opening action immediately", an early group opens before a publication that
\* is still to come, and an opening never gets lost on the way: whenever nothing
\* is in the way of a group, and no edit is under way or was lost, it is being
\* opened or its row is due.  (With several workers and a fault, a worker of an
\* earlier claim can park the row again.)
OpeningIsWatched ==
  Quiet /\ ~event.torn /\ (faults = 0 \/ Cardinality(Workers) = 1) =>
    \A g \in Groups :
      group[g].planned /\ Obstacle(g) = "none" =>
        Opening(g) \/ (row[g]["open"].status \in Live /\ row[g]["open"].due <= now)

\* "Every still-open group retains its relative closing rule": its closing time
\* follows the start, and a live row is there to close it then, or at once if
\* that has passed.
ClosingIsWatched ==
  Quiet /\ ~event.torn /\ ~event.ended =>
    \A g \in Groups :
      group[g].state = "kept" /\ ~group[g].closed =>
        /\ group[g].closes = ClosesAt(event)
        /\ row[g]["close"].status \in Live
        /\ \/ row[g]["close"].due = group[g].closes
           \/ group[g].closes < row[g]["close"].due /\ row[g]["close"].due <= now

\* No group waits for an opening or a closing that nobody is going to make.
GroupsAreWatched == OpeningIsWatched /\ ClosingIsWatched

\* Every group of a preset closes at last, posted or not, whatever is lost,
\* unless the event ends first.
GroupsClose == \A g \in Groups : <>(group[g].planned => group[g].closed \/ event.ended)
=============================================================================
