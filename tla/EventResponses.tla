--------------------------- MODULE EventResponses ---------------------------
(***************************************************************************)
(* What members answer: the attendance button                              *)
(* (src/interactions/attendance-button.ts), the buttons that add and       *)
(* withdraw role requests (role-request-button.ts), and the refreshing of  *)
(* the messages that show both.                                            *)
(*                                                                         *)
(* Every write is one guarded statement that locks the rows its guard      *)
(* reads.  PostgreSQL evaluates the guard in the snapshot of the statement *)
(* and again on each locked row that changed since; what is not locked,    *)
(* the answer of the member among it, is only ever seen in the snapshot.   *)
(* So a statement is two steps: its snapshot, and its locks and write.     *)
(*                                                                         *)
(* The event and its groups change under the members as EventLifecycle and *)
(* RoleGroups let them; buttons are those of the linked messages, so every *)
(* group here has opened.                                                  *)
(***************************************************************************)
EXTENDS Integers, FiniteSets

CONSTANTS
  Members,
  Options,      \* active role options of the event
  Groups,       \* role-request groups with a message; each offers every option
  Barred,       \* <<member, option>>: qualified_only, and the member is not
  Clicks,       \* button presses in flight at once
  MaxTime,      \* bound: the clock
  MaxClicks,    \* bound: button presses
  MaxCommands,  \* bound: commands that change the event or its groups
  MaxFaults     \* bound: lost processes and failed calls

ASSUME BarredAssumption == Barred \subseteq Members \X Options
ASSUME ClicksAssumption == IsFiniteSet(Clicks)
ASSUME NoneAssumption == "none" \notin Members \cup Options \cup Groups
ASSUME BoundsAssumption ==
  MaxTime \in Nat /\ MaxClicks \in Nat /\ MaxCommands \in Nat /\ MaxFaults \in Nat

VARIABLES
  now,
  event,     \* the row of events
  group,     \* the rows of role_request_groups
  answer,    \* attendance_responses: answer[m]
  request,   \* role_requests: request[<<m, o>>]
  unseen,    \* kinds of rows written since a refresh last read them
  dropped,   \* those of them a fault left unread
  timer,     \* attendanceRefreshTimers has the event
  reading,   \* refreshes begun by the timer that have still to read a kind
  click,     \* the handlers of button presses
  clicked, commands, faults, made

world == <<now, event, group>>
bounds == <<clicked, commands, faults>>
vars == <<world, answer, request, unseen, dropped, timer, reading, click, bounds, made>>

Times == 0 .. MaxTime + 1
Status == {"scheduled", "open", "closed", "cancelled", "completed"}
Final == {"cancelled", "completed"}
Ended == event.status \in Final

\* until: the earlier of attendanceClosesAt and startsAt.
Event == [status : Status, signups : BOOLEAN, until : Times]
Group == [positive : BOOLEAN, closed : BOOLEAN, until : Times]

\* attending stands for tentative too, none for no row.
Answers == {"none", "attending", "not_attending"}
Chosen == Answers \ {"none"}

\* id 0: no row.  from: sourceGroupId.
Pairs == Members \X Options
NoRequest == [id |-> 0, from |-> "none"]
Request == [id : Nat \ {0}, from : Groups] \cup {NoRequest}

Kinds == {"counts", "requests", "answers"}
NoReads == [k \in Kinds |-> 0]

Ops == {"answer", "add", "withdraw"}
Handler == [op : Ops \cup {"none"},
            pc : {"idle", "read", "signup", "snapshot", "write", "close", "reply",
                  "requests", "answers"},
            who : Members \cup {"none"}, what : Options \cup {"none"},
            via : Groups \cup {"none"}, want : Answers,
            at : Times, saw : Answers, id : Nat]
Idle == [op |-> "none", pc |-> "idle", who |-> "none", what |-> "none", via |-> "none",
         want |-> "none", at |-> 0, saw |-> "none", id |-> 0]

\* A group asks for a positive answer only where answers are taken.
Init ==
  /\ now = 0
  /\ event \in [status : {"scheduled", "open"}, signups : BOOLEAN, until : {1}]
  /\ event.status = "open" => event.signups
  /\ group \in [Groups -> [positive : BOOLEAN, closed : {FALSE}, until : {1}]]
  /\ \A g \in Groups : group[g].positive => event.signups
  /\ answer = [m \in Members |-> "none"]
  /\ request = [p \in Pairs |-> NoRequest]
  /\ unseen = {} /\ dropped = {} /\ timer = FALSE /\ reading = NoReads
  /\ click = [c \in Clicks |-> Idle]
  /\ clicked = 0 /\ commands = 0 /\ faults = 0 /\ made = 0

Tick ==
  /\ now < MaxTime /\ now' = now + 1
  /\ UNCHANGED <<event, group, answer, request, unseen, dropped, timer, reading, click,
                 bounds, made>>

-----------------------------------------------------------------------------
(* The event and its groups change.                                        *)

Others == UNCHANGED <<now, answer, request, unseen, dropped, timer, reading, click, clicked,
                      faults, made>>

\* Publication, and closing by the scheduler or by command.
Open == /\ event.status = "scheduled" /\ event.signups /\ event.until > now
        /\ event' = [event EXCEPT !.status = "open"]
        /\ UNCHANGED <<group, commands>> /\ Others
Close == /\ event.status = "open"
         /\ event' = [event EXCEPT !.status = "closed"]
         /\ UNCHANGED <<group, commands>> /\ Others

\* /event cancel, and executeCompleteEvent.
End(status) ==
  /\ ~Ended /\ status = "completed" => event.until <= now
  /\ event' = [event EXCEPT !.status = status]
  /\ UNCHANGED <<group, commands>> /\ Others

\* /event edit, and reopen of an event that is closed.
Move(status) ==
  /\ commands < MaxCommands /\ commands' = commands + 1
  /\ ~Ended /\ status # event.status => (event.status = "closed" /\ status = "open")
  /\ \E t \in Times : t > now /\ event' = [event EXCEPT !.until = t, !.status = status]
  /\ UNCHANGED group /\ Others

\* The scheduler or /event role-close closes a group, an edit moves it.
CloseGroup(g) ==
  /\ ~group[g].closed
  /\ group' = [group EXCEPT ![g].closed = TRUE]
  /\ UNCHANGED <<event, commands>> /\ Others
MoveGroups ==
  /\ commands < MaxCommands /\ commands' = commands + 1
  /\ \E t \in Times :
       group' = [g \in Groups |-> [group[g] EXCEPT !.until = IF group[g].closed THEN @ ELSE t]]
  /\ UNCHANGED event /\ Others

-----------------------------------------------------------------------------
(* Steps of a handler: what it does to the answers, requests and world it  *)
(* does not name.                                                          *)

Goto(c, pc) == click' = [click EXCEPT ![c].pc = pc]
Stop(c) == click' = [click EXCEPT ![c] = Idle]
Quiet == UNCHANGED <<world, timer, reading, bounds>>
Kept == UNCHANGED <<answer, request, unseen, dropped, made>>
At(c, op, pc) == click[c].op = op /\ click[c].pc = pc
Pair(c) == <<click[c].who, click[c].what>>

Press(c) ==
  /\ click[c].pc = "idle" /\ clicked < MaxClicks /\ clicked' = clicked + 1
  /\ \E m \in Members :
       \/ \E a \in Chosen :
            click' = [click EXCEPT ![c] = [Idle EXCEPT !.op = "answer", !.pc = "read",
                                                       !.who = m, !.want = a]]
       \/ \E o \in Options, g \in Groups :
            click' = [click EXCEPT ![c] = [Idle EXCEPT !.op = "add", !.pc = "read",
                                                       !.who = m, !.what = o, !.via = g]]
       \/ \E o \in Options :
            click' = [click EXCEPT ![c] = [Idle EXCEPT !.op = "withdraw", !.pc = "read",
                                                       !.who = m, !.what = o]]
  /\ UNCHANGED <<world, timer, reading, commands, faults>> /\ Kept

-----------------------------------------------------------------------------
(* handleAttendanceButton.                                                 *)

\* A click on an event that takes no answers still refreshes the messages.
AnswerRead(c) ==
  /\ At(c, "answer", "read")
  /\ \/ ~event.signups /\ Stop(c)
     \/ event.signups /\ event.status # "open" /\ Goto(c, "reply")
     \/ event.signups /\ event.status = "open" /\ event.until <= now /\ Goto(c, "close")
     \/ /\ event.signups /\ event.status = "open" /\ event.until > now
        /\ click' = [click EXCEPT ![c].pc = "snapshot", ![c].at = now]
  /\ Quiet /\ Kept

\* The click closes the overdue event.  EventLifecycle has the row it retires.
AnswerClose(c) ==
  /\ At(c, "answer", "close")
  /\ event' = IF event.status = "open" THEN [event EXCEPT !.status = "closed"] ELSE event
  /\ Goto(c, "reply")
  /\ UNCHANGED <<now, group, timer, reading, bounds>> /\ Kept

TakesAnswer(c) == event.status = "open" /\ event.signups /\ event.until > click[c].at

AnswerSnapshot(c) ==
  /\ At(c, "answer", "snapshot")
  /\ Goto(c, IF TakesAnswer(c) THEN "write" ELSE "reply")
  /\ Quiet /\ Kept

AnswerWrite(c) ==
  /\ At(c, "answer", "write")
  /\ IF TakesAnswer(c)
     THEN /\ answer' = [answer EXCEPT ![click[c].who] = click[c].want]
          /\ unseen' = unseen \cup {"counts", "answers"}
     ELSE UNCHANGED <<answer, unseen>>
  /\ Goto(c, "reply")
  /\ Quiet /\ UNCHANGED <<request, dropped, made>>

\* Mutant: a refresh that is under way stands for the next one.
CoalescesRunning == timer \/ reading # NoReads

\* scheduleAttendanceRefresh, once the member has been told.
Coalesces == timer
AnswerReply(c) ==
  /\ At(c, "answer", "reply")
  /\ timer' = IF Coalesces THEN timer ELSE TRUE
  /\ Stop(c)
  /\ UNCHANGED <<world, reading, bounds>> /\ Kept

-----------------------------------------------------------------------------
(* handleAddRequest.                                                       *)

AddRead(c) ==
  LET g == group[click[c].via] IN
  /\ At(c, "add", "read")
  /\ IF Ended \/ g.closed \/ g.until <= now THEN Stop(c) ELSE Goto(c, "signup")
  /\ Quiet /\ Kept

\* Mutant: only a group that asks for an answer looks at it.
AllowsAnyAnswer(c, a) == group[click[c].via].positive => a = "attending"

\* Both the early check and the guard of the statement.
Allows(c, a) ==
  /\ event.signups => a # "not_attending"
  /\ group[click[c].via].positive => event.signups /\ a = "attending"

AddSignup(c) ==
  /\ At(c, "add", "signup")
  /\ IF Allows(c, answer[click[c].who]) /\ Pair(c) \notin Barred
     THEN click' = [click EXCEPT ![c].pc = "snapshot", ![c].at = now]
     ELSE Stop(c)
  /\ Quiet /\ Kept

\* The guard on the rows that the statement locks.
TakesRequest(c) ==
  LET g == group[click[c].via] IN ~Ended /\ ~g.closed /\ g.until > click[c].at

AddSnapshot(c) ==
  LET a == answer[click[c].who] IN
  /\ At(c, "add", "snapshot")
  /\ IF TakesRequest(c) /\ Allows(c, a)
     THEN click' = [click EXCEPT ![c].pc = "write", ![c].saw = a]
     ELSE Stop(c)
  /\ Quiet /\ Kept

\* ON CONFLICT DO NOTHING.
Conflicts(c) == request[Pair(c)] # NoRequest

Stored(c) == [id |-> made + 1, from |-> click[c].via]

AddWrite(c) ==
  /\ At(c, "add", "write")
  /\ IF TakesRequest(c) /\ ~Conflicts(c)
     THEN /\ made' = made + 1
          /\ request' = [request EXCEPT ![Pair(c)] = Stored(c)]
          /\ unseen' = unseen \cup {"requests"}
          /\ Goto(c, "requests")
     ELSE Stop(c) /\ UNCHANGED <<made, request, unseen>>
  /\ Quiet /\ UNCHANGED <<answer, dropped>>

-----------------------------------------------------------------------------
(* handleWithdrawRequest.                                                  *)

WithdrawRead(c) ==
  /\ At(c, "withdraw", "read")
  /\ IF Ended THEN Stop(c) ELSE Goto(c, "snapshot")
  /\ Quiet /\ Kept

\* The DELETE finds the row of its snapshot; a later one is not in it.
WithdrawSnapshot(c) ==
  /\ At(c, "withdraw", "snapshot")
  /\ IF Ended \/ request[Pair(c)] = NoRequest THEN Stop(c)
     ELSE click' = [click EXCEPT ![c].pc = "write", ![c].id = request[Pair(c)].id]
  /\ Quiet /\ Kept

\* Mutant: the event is not locked and looked at again.
WithdrawsAnyway(c) == request[Pair(c)].id = click[c].id
Withdraws(c) == ~Ended /\ request[Pair(c)].id = click[c].id

WithdrawWrite(c) ==
  /\ At(c, "withdraw", "write")
  /\ IF Withdraws(c)
     THEN /\ request' = [request EXCEPT ![Pair(c)] = NoRequest]
          /\ unseen' = unseen \cup {"requests"}
          /\ Goto(c, "requests")
     ELSE Stop(c) /\ UNCHANGED <<request, unseen>>
  /\ Quiet /\ UNCHANGED <<answer, dropped, made>>

-----------------------------------------------------------------------------
(* refreshRoleRequestMessages reads the requests, then the answers of      *)
(* those who made them; refreshAttendanceMessage counts the answers.       *)

Read(k) == unseen' = unseen \ {k} /\ dropped' = dropped \ {k}

\* The handler of a request refreshes the messages before it replies.
HandlerReads(c) ==
  /\ click[c].pc \in {"requests", "answers"}
  /\ Read(click[c].pc)
  /\ IF click[c].pc = "requests" THEN Goto(c, "answers") ELSE Stop(c)
  /\ Quiet /\ UNCHANGED <<answer, request, made>>

\* The timer is forgotten before anything is read.
Fire ==
  /\ timer /\ timer' = FALSE
  /\ reading' = [reading EXCEPT !["counts"] = @ + 1, !["requests"] = @ + 1]
  /\ UNCHANGED <<world, click, bounds>> /\ Kept

TimerReads(k) ==
  /\ reading[k] > 0 /\ Read(k)
  /\ reading' = IF k = "requests"
                THEN [reading EXCEPT ![k] = @ - 1, !["answers"] = @ + 1]
                ELSE [reading EXCEPT ![k] = @ - 1]
  /\ UNCHANGED <<world, answer, request, timer, click, bounds, made>>

-----------------------------------------------------------------------------
(* Faults.                                                                 *)

\* A call of a handler or a reply to Discord fails, or the process is lost.
Fault ==
  /\ faults < MaxFaults /\ faults' = faults + 1
  /\ dropped' = unseen
  /\ \/ \E c \in Clicks : click[c].pc # "idle" /\ Stop(c) /\ UNCHANGED <<timer, reading>>
     \/ /\ click' = [c \in Clicks |-> Idle]
        /\ timer' = FALSE /\ reading' = NoReads
  /\ UNCHANGED <<world, answer, request, unseen, clicked, commands, made>>

-----------------------------------------------------------------------------
Handles(c) ==
  \/ AnswerRead(c) \/ AnswerClose(c) \/ AnswerSnapshot(c) \/ AnswerWrite(c) \/ AnswerReply(c)
  \/ AddRead(c) \/ AddSignup(c) \/ AddSnapshot(c) \/ AddWrite(c)
  \/ WithdrawRead(c) \/ WithdrawSnapshot(c) \/ WithdrawWrite(c)
  \/ HandlerReads(c)

Next ==
  \/ Tick \/ Open \/ Close \/ MoveGroups
  \/ (\E s \in Final : End(s)) \/ (\E s \in Status : Move(s))
  \/ \E g \in Groups : CloseGroup(g)
  \/ \E c \in Clicks : Press(c) \/ Handles(c)
  \/ Fire \/ (\E k \in Kinds : TimerReads(k))
  \/ Fault

Spec == Init /\ [][Next]_vars

-----------------------------------------------------------------------------
(* Properties.                                                             *)

\* The shape of the rows, of the refreshes in flight and of the handlers.
TypeOK ==
  /\ now \in 0 .. MaxTime /\ event \in Event /\ group \in [Groups -> Group]
  /\ answer \in [Members -> Answers] /\ request \in [Pairs -> Request]
  /\ unseen \subseteq Kinds /\ dropped \subseteq unseen
  /\ timer \in BOOLEAN /\ reading \in [Kinds -> Nat]
  /\ click \in [Clicks -> Handler]
  /\ clicked \in Nat /\ commands \in Nat /\ faults \in Nat /\ made \in Nat

Added(p) == request[p] = NoRequest /\ request'[p] # NoRequest

\* Whatever the handler found when it looked, once attendance has closed no
\* answer is stored (attendance-button.ts:137), and once the event is cancelled or
\* completed nobody adds or withdraws (role-request-button.ts:713): statements
\* that wait for its row find it so.
LateClicksChangeNothing ==
  [][/\ answer' # answer => event.status = "open"
     /\ request' # request => ~Ended]_vars

\* requestIsCurrentlyAvailable.
Available(m, g) ==
  event.signups => answer[m] = "attending" \/ (answer[m] = "none" /\ ~group[g].positive)

\* What the statement accepts comes through a group that is not closed
\* (role-request-button.ts:255), and the message lists it as available
\* (role-request-message.ts:528), unless the member answered while it ran.
AcceptedIsAvailable ==
  [][\A p \in Pairs : Added(p) =>
       /\ ~group[request'[p].from].closed
       /\ \/ Available(p[1], request'[p].from)
          \/ \E c \in Clicks : Pair(c) = p /\ click[c].saw # answer[p[1]]]_vars

\* A request keeps its time, whichever group it is repeated through and
\* whatever its member answers (DECISIONS D042).
KeepsFirstRequest ==
  [][\A p \in Pairs : request[p] # NoRequest => request'[p] \in {request[p], NoRequest}]_vars

\* What has been written and not read by a refresh is about to be, unless a
\* fault came in between: the timers coalesce without losing an answer
\* (attendance-button.ts:216).
Awaited(k) ==
  \/ timer \/ reading[k] > 0 \/ (k = "answers" /\ reading["requests"] > 0)
  \/ \E c \in Clicks : \/ click[c].pc = "reply" /\ k # "requests"
                       \/ click[c].pc = k
                       \/ click[c].pc = "requests" /\ k = "answers"
UnseenIsAwaited == \A k \in unseen \ dropped : Awaited(k)
=============================================================================
