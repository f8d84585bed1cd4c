------------------------ MODULE EventLifecycleProofs ------------------------
(***************************************************************************)
(* Safety of the life of an event for any number of handlers, commands and *)
(* faults.                                                                 *)
(***************************************************************************)
EXTENDS EventLifecycle, FiniteSetTheorems, TLAPS

Pcs == {"idle", "start", "send", "link", "unschedule", "refresh", "edit",
        "swap", "write", "rows", "retire", "done"}

\* The local states of the processes are well formed.
ProcsOK ==
  /\ proc \in [Procs -> Process]
  /\ \A p \in Procs : proc[p].pc = "idle" <=> proc[p].op = "none"

\* An action of p leaves the other processes alone.
Others(p) == \A q \in Procs \ {p} : proc'[q] = proc[q]

\* A refresh under way knows a link that is or was the current one; it sends a
\* replacement only for a message that is gone or no longer linked.
LinkKnown ==
  /\ gone => link # 0
  /\ \A p \in Procs :
       /\ proc[p].pc \in {"edit", "swap"} => proc[p].msg # 0 /\ proc[p].msg <= link
       /\ proc[p].pc = "swap" /\ proc[p].msg = link => gone

\* A handler about to write validated a status that was not final; the overdue
\* close of /event refresh needs no such reading, for it checks nothing.
WriterKnown ==
  \A h \in Handlers :
    proc[h].pc = "write" =>
      /\ proc[h].op \in DOMAIN AfterWrite \cap Ops
      /\ proc[h].seen.status \notin Final

IInv == TypeOK /\ LinkKnown /\ WriterKnown /\ OnePublicMessage

-----------------------------------------------------------------------------
(* What the moves of a process keep.                                       *)

LEMMA IdleFits == IdleProcess \in Process /\ IdleProcess.op = "none" /\ IdleProcess.pc = "idle"
<1>1. 0 \in Times
  BY BoundsAssumption DEF Times
<1> QED
  BY <1>1 DEF IdleProcess, Process, Unread, Event, Status

\* A process moves to a local state that is well formed.
LEMMA MoveFits ==
  ASSUME TypeOK, NEW p \in Procs, NEW r \in Process, r.pc = "idle" <=> r.op = "none",
         proc' = [proc EXCEPT ![p] = r]
  PROVE  ProcsOK' /\ Others(p) /\ proc'[p] = r
BY DEF TypeOK, ProcsOK, Others

LEMMA GotoFits ==
  ASSUME TypeOK, NEW p \in Procs, proc[p].pc # "idle", NEW pc \in Pcs \ {"idle"}, Goto(p, pc)
  PROVE  ProcsOK' /\ Others(p) /\ proc'[p].pc = pc /\ proc'[p].msg = proc[p].msg
<1> DEFINE r == [proc[p] EXCEPT !.pc = pc]
<1>1. r \in Process /\ (r.pc = "idle" <=> r.op = "none") /\ r.pc = pc /\ r.msg = proc[p].msg
  BY DEF TypeOK, Process, Pcs
<1>2. proc' = [proc EXCEPT ![p] = r]
  BY DEF Goto, TypeOK
<1> HIDE DEF r
<1> QED
  BY <1>1, <1>2, MoveFits

LEMMA SeesFits ==
  ASSUME TypeOK, NEW p \in Procs, proc[p].pc # "idle", NEW pc \in Pcs \ {"idle"}, Sees(p, pc)
  PROVE  ProcsOK' /\ Others(p) /\ proc'[p].pc = pc
<1> DEFINE r == [proc[p] EXCEPT !.pc = pc, !.seen = event]
<1>1. r \in Process /\ (r.pc = "idle" <=> r.op = "none") /\ r.pc = pc
  BY DEF TypeOK, Process, Pcs
<1>2. proc' = [proc EXCEPT ![p] = r]
  BY DEF Sees, TypeOK
<1> HIDE DEF r
<1> QED
  BY <1>1, <1>2, MoveFits

LEMMA EndFits ==
  ASSUME TypeOK, NEW p \in Procs, proc[p].pc # "idle", End(p)
  PROVE  ProcsOK' /\ Others(p) /\ proc'[p].pc \in {"idle", "done"}
<1>1. CASE p = Scheduler
  <2> DEFINE r == [proc[p] EXCEPT !.pc = "done"]
  <2>1. r \in Process /\ (r.pc = "idle" <=> r.op = "none") /\ r.pc = "done"
    BY DEF TypeOK, Process
  <2> QED
    BY <1>1, <2>1, MoveFits DEF End, Ended
<1>2. CASE p # Scheduler
  BY <1>2, IdleFits, MoveFits DEF End, Ended
<1> QED
  BY <1>1, <1>2

LEMMA StepsFits ==
  ASSUME TypeOK, NEW p \in Procs, proc[p].pc # "idle", NEW pc \in Pcs \ {"idle"},
         NEW more, Steps(p, pc, more)
  PROVE  ProcsOK' /\ Others(p) /\ proc'[p].pc \in {pc, "idle", "done"}
<1>1. Goto(p, pc) \/ End(p)
  BY DEF Steps
<1> QED
  BY <1>1, GotoFits, EndFits

LEMMA SchedulerIsProc == Scheduler \in Procs /\ Handlers \subseteq Procs
BY DEF Procs

-----------------------------------------------------------------------------
(* The steps of the processes, by what they do to the local state.         *)

\* Steps that neither begin nor end work on an unlinked message, nor read a link.
Plain(p) ==
  \/ PublishRead(p) \/ PublishUnschedule(p) \/ Write(p) \/ Rows(p) \/ Retire(p)
  \/ p = Scheduler /\ (CloseLoad \/ CloseWrite \/ CompleteLoad \/ CompleteWrite
                       \/ CompleteRetire \/ MarkActionCompleted)

Neutral == {"idle", "start", "send", "unschedule", "refresh", "write", "rows", "retire", "done"}

LEMMA PlainFits ==
  ASSUME TypeOK, WriterKnown, NEW p \in Procs, Plain(p)
  PROVE  /\ ProcsOK' /\ Others(p) /\ UNCHANGED discord
         /\ proc[p].pc \in Neutral \ {"idle"} /\ proc'[p].pc \in Neutral
         /\ p \in Handlers => proc'[p].pc # "write"
<1>1. CASE PublishRead(p)
  <2>1. proc[p].pc = "start" /\ (Sees(p, "send") \/ End(p))
    BY <1>1 DEF PublishRead, At
  <2> QED
    BY <1>1, <2>1, SeesFits, EndFits DEF PublishRead, Discord, Neutral, Pcs
<1>2. CASE PublishUnschedule(p)
  BY <1>2, EndFits DEF PublishUnschedule, At, Discord, Neutral
<1>3. CASE Write(p)
  <2>1. proc[p].pc = "write" /\ p \in Handlers /\ proc[p].op \in DOMAIN AfterWrite
    BY <1>3 DEF Write, WriterKnown
  <2>2. AfterWrite[proc[p].op] \in {"refresh", "retire", "rows"}
    BY <2>1 DEF AfterWrite
  <2>3. Goto(p, AfterWrite[proc[p].op]) \/ Steps(p, "refresh", proc[p].op = "click")
    BY <1>3 DEF Write
  <2> QED
    BY <1>3, <2>1, <2>2, <2>3, GotoFits, StepsFits DEF Write, Discord, Neutral, Pcs
<1>4. CASE Rows(p)
  BY <1>4, StepsFits DEF Rows, Discord, Neutral, Pcs
<1>5. CASE Retire(p)
  BY <1>5, StepsFits DEF Retire, At, Discord, Neutral, Pcs
<1>6. CASE p = Scheduler /\ CloseLoad
  <2>1. \/ End(p)
        \/ Sees(p, "refresh")
        \/ Sees(p, "write")
    BY <1>6 DEF CloseLoad
  <2> QED
    BY <1>6, <2>1, SeesFits, EndFits, HandlersAssumption DEF CloseLoad, At, Discord, Neutral, Pcs
<1>7. CASE p = Scheduler /\ CloseWrite
  BY <1>7, StepsFits, EndFits DEF CloseWrite, At, Discord, Neutral, Pcs
<1>8. CASE p = Scheduler /\ CompleteLoad
  <2>1. \/ End(p)
        \/ Sees(p, "retire")
        \/ Sees(p, "write")
    BY <1>8 DEF CompleteLoad
  <2> QED
    BY <1>8, <2>1, SeesFits, EndFits, HandlersAssumption DEF CompleteLoad, At, Discord, Neutral, Pcs
<1>9. CASE p = Scheduler /\ CompleteWrite
  BY <1>9, GotoFits, EndFits DEF CompleteWrite, At, Discord, Neutral, Pcs
<1>10. CASE p = Scheduler /\ CompleteRetire
  BY <1>10, StepsFits DEF CompleteRetire, At, Discord, Neutral, Pcs
<1>11. CASE p = Scheduler /\ MarkActionCompleted
  BY <1>11, IdleFits, MoveFits DEF MarkActionCompleted, Discord, Neutral
<1> QED
  BY <1>1, <1>2, <1>3, <1>4, <1>5, <1>6, <1>7, <1>8, <1>9, <1>10, <1>11 DEF Plain

\* Steps of a publication or refresh that has, or is about to have, a message
\* or a link; and the coming and going of processes.
LEMMA SendFits ==
  ASSUME TypeOK, NEW p \in Procs, PublishSend(p)
  PROVE  ProcsOK' /\ Others(p) /\ proc[p].pc = "send" /\ proc'[p].pc = "link"
BY GotoFits DEF PublishSend, At, Pcs

LEMMA LinkFits ==
  ASSUME TypeOK, NEW p \in Procs, PublishLink(p)
  PROVE  ProcsOK' /\ Others(p) /\ proc[p].pc = "link" /\ proc'[p].pc \in Neutral \ {"write"}
<1>1. proc[p].pc = "link" /\ (Steps(p, "unschedule", p # Scheduler) \/ End(p))
  BY DEF PublishLink, At
<1> QED
  BY <1>1, StepsFits, EndFits DEF Pcs, Neutral

LEMMA ReadFits ==
  ASSUME TypeOK, NEW p \in Procs, RefreshRead(p)
  PROVE  /\ ProcsOK' /\ Others(p) /\ proc[p].pc = "refresh"
         /\ \/ proc'[p].pc \in {"idle", "done"}
            \/ proc'[p].pc = "edit" /\ proc'[p].msg = link /\ link # 0
<1>1. CASE link = 0
  BY <1>1, EndFits DEF RefreshRead
<1>2. CASE link # 0
  <2> DEFINE r == [proc[p] EXCEPT !.pc = "edit", !.seen = event, !.msg = link]
  <2>1. r \in Process /\ (r.pc = "idle" <=> r.op = "none") /\ r.pc = "edit" /\ r.msg = link
    BY <1>2 DEF RefreshRead, TypeOK, Process
  <2>2. proc' = [proc EXCEPT ![p] = r]
    BY <1>2 DEF RefreshRead, TypeOK
  <2> HIDE DEF r
  <2> QED
    BY <1>2, <2>1, <2>2, MoveFits DEF RefreshRead
<1> QED
  BY <1>1, <1>2

LEMMA EditFits ==
  ASSUME TypeOK, NEW p \in Procs, RefreshEdit(p)
  PROVE  /\ ProcsOK' /\ Others(p) /\ proc[p].pc = "edit"
         /\ \/ UNCHANGED messages /\ proc'[p].pc \in Neutral \ {"write"}
            \/ /\ ~(proc[p].msg = link /\ ~gone) /\ messages' = messages + 1
               /\ proc'[p].pc = "swap" /\ proc'[p].msg = proc[p].msg
<1>1. CASE proc[p].msg = link /\ ~gone
  BY <1>1, StepsFits DEF RefreshEdit, AfterRefresh, Pcs, Neutral
<1>2. CASE ~(proc[p].msg = link /\ ~gone)
  BY <1>2, GotoFits DEF RefreshEdit, Pcs
<1> QED
  BY <1>1, <1>2

LEMMA SwapFits ==
  ASSUME TypeOK, NEW p \in Procs, RefreshSwap(p)
  PROVE  ProcsOK' /\ Others(p) /\ proc[p].pc = "swap" /\ proc'[p].pc \in Neutral \ {"write"}
BY StepsFits DEF RefreshSwap, AfterRefresh, Pcs, Neutral

LEMMA LostFits ==
  ASSUME TypeOK, NEW p \in Procs, Lost(p)
  PROVE  ProcsOK' /\ Others(p) /\ proc[p].pc # "idle" /\ proc'[p].pc = "idle"
BY IdleFits, MoveFits DEF Lost

LEMMA ClaimFits ==
  ASSUME TypeOK, NEW k \in Kinds, Claim(k)
  PROVE  ProcsOK' /\ Others(Scheduler) /\ proc[Scheduler].pc = "idle" /\ proc'[Scheduler].pc = "start"
<1> DEFINE r == [proc[Scheduler] EXCEPT !.op = k, !.pc = "start"]
<1>1. r \in Process /\ (r.pc = "idle" <=> r.op = "none") /\ r.pc = "start"
  BY SchedulerIsProc DEF TypeOK, Process, Kinds
<1>2. proc' = [proc EXCEPT ![Scheduler] = r] /\ proc[Scheduler].pc = "idle"
  BY SchedulerIsProc DEF Claim, TypeOK
<1> HIDE DEF r
<1> QED
  BY <1>1, <1>2, SchedulerIsProc, MoveFits

LEMMA CommandFits ==
  ASSUME TypeOK, NEW h \in Handlers, NEW op \in Ops, Command(h, op)
  PROVE  /\ ProcsOK' /\ Others(h) /\ proc[h].pc = "idle"
         /\ proc'[h].pc \in {"start", "write", "refresh"} /\ proc'[h].op = op
         /\ proc'[h].pc = "write" => op \in DOMAIN AfterWrite /\ proc'[h].seen.status \notin Final
<1>1. PICK to \in Times :
        /\ Accepts(op, to)
        /\ proc' = [proc EXCEPT ![h] = [op |-> op, pc |-> FirstStep(op), to |-> to, msg |-> 0,
                                        next |-> NextStatus(op, to), seen |-> event]]
  <2>1. 0 \in Times
    BY BoundsAssumption DEF Times
  <2> QED
    BY <2>1 DEF Command
<1>2. op \in AllOps
  BY OpsAssumption
<1>3. FirstStep(op) \in {"start", "write", "refresh"}
  BY DEF FirstStep
<1>4. NextStatus(op, to) \in Status
  BY <1>2 DEF NextStatus, EditedStatus, AllOps, Status, TypeOK, Event
<1> DEFINE r == [op |-> op, pc |-> FirstStep(op), to |-> to, msg |-> 0,
                 next |-> NextStatus(op, to), seen |-> event]
<1>5. r \in Process /\ (r.pc = "idle" <=> r.op = "none") /\ r.op = op /\ r.pc = FirstStep(op)
      /\ r.seen = event
  BY <1>2, <1>3, <1>4 DEF Process, TypeOK, AllOps
<1>6. FirstStep(op) = "write" => op \in DOMAIN AfterWrite /\ event.status \notin Final
  BY <1>1, <1>2 DEF FirstStep, Accepts, AllOps, AfterWrite, Overdue, Final
<1>7. proc' = [proc EXCEPT ![h] = r] /\ proc[h].pc = "idle"
  BY <1>1 DEF Command
<1> HIDE DEF r
<1> QED
  BY <1>3, <1>5, <1>6, <1>7, SchedulerIsProc, MoveFits

-----------------------------------------------------------------------------
(* Counting the unlinked messages.                                         *)

InFlight(r) == r.pc \in {"link", "swap"}

LEMMA UnlinkedFinite == IsFiniteSet(Unlinked) /\ Cardinality(Unlinked) \in Nat
<1>1. IsFiniteSet(Procs)
  BY HandlersAssumption, FS_AddElement DEF Procs
<1> QED
  BY <1>1, FS_Subset, FS_CardinalityType DEF Unlinked

LEMMA Counting ==
  ASSUME NEW p \in Procs, Others(p)
  PROVE  /\ (InFlight(proc[p]) <=> InFlight(proc'[p]))
              => Cardinality(Unlinked') = Cardinality(Unlinked)
         /\ ~InFlight(proc[p]) /\ InFlight(proc'[p])
              => Cardinality(Unlinked') = Cardinality(Unlinked) + 1
         /\ InFlight(proc[p]) /\ ~InFlight(proc'[p])
              => Cardinality(Unlinked') = Cardinality(Unlinked) - 1
<1>1. CASE InFlight(proc[p]) <=> InFlight(proc'[p])
  <2>1. Unlinked' = Unlinked
    BY <1>1 DEF Unlinked, Others, InFlight
  <2> QED
    BY <1>1, <2>1
<1>2. CASE ~InFlight(proc[p]) /\ InFlight(proc'[p])
  <2>1. Unlinked' = Unlinked \cup {p} /\ p \notin Unlinked
    BY <1>2 DEF Unlinked, Others, InFlight
  <2> QED
    BY <1>2, <2>1, UnlinkedFinite, FS_AddElement
<1>3. CASE InFlight(proc[p]) /\ ~InFlight(proc'[p])
  <2>1. Unlinked' = Unlinked \ {p} /\ p \in Unlinked
    BY <1>3 DEF Unlinked, Others, InFlight
  <2> QED
    BY <1>3, <2>1, UnlinkedFinite, FS_RemoveElement
<1> QED
  BY <1>1, <1>2, <1>3

-----------------------------------------------------------------------------
(* What the plain steps write.                                             *)

LEMMA MoveIsEvent ==
  ASSUME NEW e \in Event, NEW s \in Times
  PROVE  Move(e, s) \in Event /\ Move(e, s).starts = s /\ Move(e, s).closes \in Int
         /\ EndsAt(Move(e, s)) \in Int /\ PublishesAt(Move(e, s)) \in Int
<1>1. s \in Int /\ e.starts \in Int /\ e.closes \in Int
  BY BoundsAssumption DEF Times, Event
<1>2. s - (e.starts - e.closes) \in Int
  BY <1>1
<1> DEFINE c == s - (e.starts - e.closes)
<1>3. Move(e, s) = [e EXCEPT !.starts = s, !.closes = c]
  BY DEF Move
<1> HIDE DEF c
<1>4. Move(e, s) \in Event /\ Move(e, s).starts = s /\ Move(e, s).closes \in Int
  BY <1>2, <1>3 DEF Event, c
<1> QED
  BY <1>1, <1>4 DEF EndsAt, PublishesAt, Lead

LEMMA WrittenFits ==
  ASSUME TypeOK, NEW h \in Handlers
  PROVE  Written(h) \in Event /\ Written(h).published = event.published
         /\ Written(h).status = proc[h].next
<1>1. proc[h] \in Process /\ event \in Event /\ now \in Int
  BY SchedulerIsProc, BoundsAssumption DEF TypeOK, Times
<1>2. proc[h].seen \in Event /\ proc[h].to \in Times /\ proc[h].next \in Status
  BY <1>1 DEF Process
<1>3. proc[h].to \in Int
  BY <1>2, BoundsAssumption DEF Times
<1> DEFINE new == IF proc[h].op = "move" THEN Move(proc[h].seen, proc[h].to) ELSE proc[h].seen
           e == [event EXCEPT !.status = proc[h].next]
<1>4. new \in Event
  BY <1>2, MoveIsEvent
<1>5. e \in Event /\ e.published = event.published /\ e.status = proc[h].next
  BY <1>1, <1>2 DEF Event
<1>6. \/ Written(h) = [e EXCEPT !.closes = now]
      \/ Written(h) = [e EXCEPT !.closes = proc[h].to]
      \/ Written(h) = [e EXCEPT !.starts = new.starts, !.closes = new.closes,
                                !.held = proc[h].seen.held \/ proc[h].op = "hold"]
      \/ Written(h) = e
  BY DEF Written
<1>7. new.starts \in Times /\ new.closes \in Int
      /\ (proc[h].seen.held \/ proc[h].op = "hold") \in BOOLEAN
  BY <1>2, <1>4 DEF Event
<1> HIDE DEF new, e
<1> QED
  BY <1>1, <1>3, <1>5, <1>6, <1>7 DEF Event

LEMMA RetiredFits ==
  ASSUME TypeOK, NEW k \in Kinds, NEW s \in {"completed", "cancelled"}
  PROVE  Retired(k, s) \in Row
BY DEF TypeOK, Retired, Row

LEMMA ArmedFits == \A d \in Int : Armed(d) \in Row
BY DEF Armed, Row, Live

LEMMA MovedFits ==
  ASSUME TypeOK, NEW h \in Handlers
  PROVE  Moved(h) \in [Kinds -> Row]
<1>1. proc[h].seen \in Event /\ proc[h].to \in Times
  BY SchedulerIsProc DEF TypeOK, Process
<1> DEFINE new == Move(proc[h].seen, proc[h].to)
<1>2. Armed(new.closes) \in Row /\ Armed(EndsAt(new)) \in Row /\ Armed(PublishesAt(new)) \in Row
  BY <1>1, MoveIsEvent, ArmedFits
<1>3. row \in [Kinds -> Row]
  BY DEF TypeOK
<1> HIDE DEF new
<1>4. Moved(h) = [k \in Kinds |->
        CASE k = "close_attendance" ->
               IF proc[h].seen.signups /\ proc[h].next \in {"open", "scheduled"}
               THEN Armed(new.closes) ELSE row[k]
          [] k = "complete_event" -> Armed(EndsAt(new))
          [] OTHER -> IF ~proc[h].seen.published /\ ~proc[h].seen.held
                      THEN Armed(PublishesAt(new)) ELSE row[k]]
  BY DEF Moved, MovedRows, new
<1> QED
  BY <1>2, <1>3, <1>4

LEMMA RepairedFits ==
  ASSUME TypeOK, NEW h \in Handlers
  PROVE  Repaired(h) \in [Kinds -> Row]
<1>1. row \in [Kinds -> Row] /\ proc[h].to \in Int
  BY SchedulerIsProc, BoundsAssumption DEF TypeOK, Process, Times
<1>2. \/ Repaired(h) = [row EXCEPT !["close_attendance"] = Armed(proc[h].to)]
      \/ Repaired(h) = [k \in Kinds |-> Retired(k, "cancelled")]
      \/ Repaired(h) = Moved(h)
      \/ Repaired(h) = [row EXCEPT !["publish_event"] = Retired("publish_event", "cancelled")]
  BY DEF Repaired
<1>3. Retired("publish_event", "cancelled") \in Row /\ Armed(proc[h].to) \in Row
      /\ \A k \in Kinds : Retired(k, "cancelled") \in Row
  BY <1>1, RetiredFits, ArmedFits DEF Kinds
<1> QED
  BY <1>1, <1>2, <1>3, MovedFits

\* A plain step keeps the types of the event and of its rows, and whether the
\* event is published.
LEMMA PlainWrites ==
  ASSUME TypeOK, NEW p \in Procs, Plain(p)
  PROVE  /\ event' \in Event /\ event'.published = event.published
         /\ row' \in [Kinds -> Row]
         /\ UNCHANGED <<now, issued, faults>>
<1>1. event \in Event /\ row \in [Kinds -> Row]
  BY DEF TypeOK
<1>2. \A s \in Status : /\ [event EXCEPT !.status = s] \in Event
                        /\ [event EXCEPT !.status = s].published = event.published
  BY <1>1 DEF Event
<1>3. \A k \in Kinds : [row EXCEPT ![k] = Retired(k, "completed")] \in [Kinds -> Row]
  BY <1>1, RetiredFits
<1>4. CASE PublishRead(p)
  BY <1>1, <1>4 DEF PublishRead, Clock
<1>5. CASE PublishUnschedule(p)
  BY <1>1, <1>3, <1>5 DEF PublishUnschedule, Clock, Kinds
<1>6. CASE Write(p)
  <2>1. event' \in {event, Written(p)} /\ UNCHANGED <<row, now, issued, faults>> /\ p \in Handlers
    BY <1>6 DEF Write, Clock
  <2> QED
    BY <1>1, <2>1, WrittenFits
<1>7. CASE Rows(p)
  <2>1. row' = Repaired(p) /\ UNCHANGED <<event, now, issued, faults>> /\ p \in Handlers
    BY <1>7 DEF Rows, Clock
  <2> QED
    BY <1>1, <2>1, RepairedFits
<1>8. CASE Retire(p)
  BY <1>1, <1>3, <1>8 DEF Retire, Clock, Kinds
<1>9. CASE CloseLoad \/ CompleteLoad
  BY <1>1, <1>9 DEF CloseLoad, CompleteLoad, Clock
<1>10. CASE CloseWrite \/ CompleteWrite
  <2>1. /\ event' \in {event, [event EXCEPT !.status = "closed"], [event EXCEPT !.status = "completed"]}
        /\ UNCHANGED <<row, now, issued, faults>>
    BY <1>10 DEF CloseWrite, CompleteWrite, Clock
  <2> QED
    BY <1>1, <1>2, <2>1 DEF Status
<1>11. CASE CompleteRetire
  <2>1. \A k \in Kinds : Retired(k, "completed") \in Row
    BY RetiredFits
  <2> QED
    BY <1>1, <1>11, <2>1 DEF CompleteRetire, Clock
<1>12. CASE MarkActionCompleted
  <2>1. row' \in {row} \cup {[row EXCEPT ![k].status = "completed"] : k \in Kinds}
    <3>1. CASE proc[Scheduler].op \in Kinds
      BY <1>12, <3>1 DEF MarkActionCompleted
    <3>2. CASE proc[Scheduler].op \notin Kinds
      <4>1. \A k : k \notin Kinds => [row EXCEPT ![k].status = "completed"] = row
        BY <1>1
      <4> QED
        BY <1>12, <4>1, <3>2 DEF MarkActionCompleted
    <3> QED
      BY <3>1, <3>2
  <2>2. \A k \in Kinds : [row EXCEPT ![k].status = "completed"] \in [Kinds -> Row]
    BY <1>1 DEF Row
  <2> QED
    BY <1>1, <1>12, <2>1, <2>2 DEF MarkActionCompleted, Clock
<1> QED
  BY <1>4, <1>5, <1>6, <1>7, <1>8, <1>9, <1>10, <1>11, <1>12 DEF Plain

-----------------------------------------------------------------------------
(* The inductive invariant.                                                *)

\* What a step of p leaves of the knowledge about links and writers, when p
\* itself neither works on a message afterwards nor is about to write.
LEMMA WritersStay ==
  ASSUME WriterKnown, NEW p \in Procs, Others(p), p \in Handlers => proc'[p].pc # "write"
  PROVE  WriterKnown'
<1> SUFFICES ASSUME NEW h \in Handlers, proc'[h].pc = "write"
             PROVE  /\ proc'[h].op \in DOMAIN AfterWrite \cap Ops
                    /\ proc'[h].seen.status \notin Final
  BY DEF WriterKnown, AfterWrite
<1>1. h # p /\ proc'[h] = proc[h]
  BY SchedulerIsProc DEF Others
<1> QED
  BY <1>1 DEF WriterKnown

LEMMA LinksStay ==
  ASSUME LinkKnown, NEW p \in Procs, Others(p), UNCHANGED <<link, gone>>,
         \/ proc'[p].pc \notin {"edit", "swap"}
         \/ proc'[p].pc = "edit" /\ proc'[p].msg = link /\ link # 0 /\ link \in Nat
         \/ /\ proc[p].pc = "edit" /\ ~(proc[p].msg = link /\ ~gone)
            /\ proc'[p].pc = "swap" /\ proc'[p].msg = proc[p].msg
  PROVE  LinkKnown'
<1> SUFFICES ASSUME NEW q \in Procs
             PROVE  /\ proc'[q].pc \in {"edit", "swap"} => proc'[q].msg # 0 /\ proc'[q].msg <= link
                    /\ proc'[q].pc = "swap" /\ proc'[q].msg = link => gone
  BY DEF LinkKnown
<1>1. CASE q # p
  BY <1>1 DEF LinkKnown, Others
<1>2. CASE q = p
  BY <1>2 DEF LinkKnown
<1> QED
  BY <1>1, <1>2

LEMMA NextCases ==
  ASSUME Next
  PROVE  \/ Tick \/ DeleteMessage
         \/ \E k \in Kinds : Claim(k)
         \/ \E h \in Handlers, op \in Ops : Command(h, op)
         \/ \E p \in Procs : \/ Plain(p) \/ PublishSend(p) \/ PublishLink(p)
                             \/ RefreshRead(p) \/ RefreshEdit(p) \/ RefreshSwap(p)
                             \/ Lost(p)
BY SchedulerIsProc DEF Next, Schedules, Works, Plain

LEMMA InitOK == Init => IInv
<1> SUFFICES ASSUME Init PROVE IInv
  OBVIOUS
<1>1. 0 \in Times /\ FirstStart \in Times
  BY BoundsAssumption DEF Times, FirstStart
<1>2. event \in Event /\ ~event.published
  <2>1. FirstStart - 1 \in Int
    BY DEF FirstStart
  <2>2. PICK su \in BOOLEAN, he \in BOOLEAN :
          event = [status |-> "scheduled", published |-> FALSE, signups |-> su,
                   held |-> he, starts |-> FirstStart, closes |-> FirstStart - 1]
    BY DEF Init
  <2> QED
    BY <1>1, <2>1, <2>2 DEF Event, Status
<1>3. row \in [Kinds -> Row]
  <2>1. EndsAt(event) \in Int /\ PublishesAt(event) \in Int /\ event.closes \in Int
    BY <1>2, BoundsAssumption DEF Event, EndsAt, PublishesAt, Lead, Times
  <2>2. /\ Armed(EndsAt(event)) \in Row /\ Armed(PublishesAt(event)) \in Row
        /\ Armed(event.closes) \in Row /\ NoRow \in Row
    BY <2>1, ArmedFits DEF NoRow, Row
  <2> QED
    BY <2>2 DEF Init
<1>4. proc \in [Procs -> Process] /\ \A p \in Procs : proc[p].pc = "idle" /\ proc[p].op = "none"
  BY IdleFits DEF Init
<1>5. TypeOK
  <2>1. now = 0 /\ link = 0 /\ gone = FALSE /\ messages = 0 /\ strays = 0
        /\ issued = 0 /\ faults = 0 /\ shown = NoMessage
    BY DEF Init
  <2>2. NoMessage \in [status : Status \cup {"none"}, starts : Times]
    BY <1>1 DEF NoMessage
  <2>3. now \in Times /\ link \in Nat /\ messages \in Int /\ strays \in Nat
        /\ issued \in Nat /\ faults \in Nat
    <3>1. now = 0 /\ link = 0 /\ messages = 0 /\ strays = 0 /\ issued = 0 /\ faults = 0
      BY DEF Init
    <3> QED
      BY <1>1, <3>1
  <2>5. gone \in BOOLEAN
    BY <2>1
  <2>4. \A p \in Procs : proc[p].pc = "idle" <=> proc[p].op = "none"
    BY <1>4
  <2> QED
    BY <1>2, <1>3, <1>4, <2>1, <2>2, <2>3, <2>4, <2>5 DEF TypeOK
<1>6. Cardinality(Unlinked) = 0
  <2>1. Unlinked = {}
    BY <1>4 DEF Unlinked
  <2> QED
    BY <2>1, FS_EmptySet
<1>7. OnePublicMessage
  BY <1>2, <1>6 DEF OnePublicMessage, Init
<1> QED
  BY <1>4, <1>5, <1>7, SchedulerIsProc DEF IInv, LinkKnown, WriterKnown, Init

\* The scheduler's and the handlers' plain steps.
LEMMA PlainKeeps ==
  ASSUME IInv, NEW p \in Procs, Plain(p)
  PROVE  IInv'
<1> USE DEF IInv
<1>1. /\ ProcsOK' /\ Others(p) /\ UNCHANGED discord
      /\ proc[p].pc \in Neutral /\ proc'[p].pc \in Neutral
      /\ p \in Handlers => proc'[p].pc # "write"
  BY PlainFits
<1>2. /\ event' \in Event /\ event'.published = event.published
      /\ row' \in [Kinds -> Row] /\ UNCHANGED <<now, issued, faults>>
  BY PlainWrites
<1>3. UNCHANGED <<link, gone, shown, messages, strays>>
  BY <1>1 DEF discord
<1>4. TypeOK'
  BY <1>1, <1>2, <1>3 DEF TypeOK, ProcsOK
<1>5. LinkKnown'
  BY <1>1, <1>3, LinksStay DEF Neutral
<1>6. WriterKnown'
  BY <1>1, WritersStay
<1>7. OnePublicMessage'
  <2>1. Cardinality(Unlinked') = Cardinality(Unlinked)
    BY <1>1, Counting DEF InFlight, Neutral
  <2> QED
    BY <1>2, <1>3, <2>1 DEF OnePublicMessage
<1> QED
  BY <1>4, <1>5, <1>6, <1>7

\* Steps that bring a process to life.
LEMMA StartKeeps ==
  ASSUME IInv, \/ \E k \in Kinds : Claim(k)
               \/ \E h \in Handlers, op \in Ops : Command(h, op)
  PROVE  IInv'
<1> USE DEF IInv
<1>1. ASSUME NEW p \in Procs, ProcsOK', Others(p), proc[p].pc = "idle",
             proc'[p].pc \in Neutral, row' \in [Kinds -> Row], issued' \in Nat,
             UNCHANGED <<now, event, link, gone, shown, messages, strays, faults>>
      PROVE  TypeOK' /\ LinkKnown' /\ OnePublicMessage'
  <2>1. TypeOK'
    BY <1>1 DEF TypeOK, ProcsOK
  <2>2. LinkKnown'
    BY <1>1, LinksStay DEF Neutral
  <2>3. Cardinality(Unlinked') = Cardinality(Unlinked)
    BY <1>1, Counting DEF InFlight, Neutral
  <2>4. OnePublicMessage'
    BY <1>1, <2>3 DEF OnePublicMessage
  <2> QED
    BY <2>1, <2>2, <2>4
<1>2. ASSUME NEW k \in Kinds, Claim(k) PROVE IInv'
  <2>1. /\ ProcsOK' /\ Others(Scheduler) /\ proc[Scheduler].pc = "idle"
        /\ proc'[Scheduler].pc = "start"
    BY <1>2, ClaimFits
  <2>2. row' \in [Kinds -> Row]
    BY <1>2 DEF Claim, TypeOK, Row, Live
  <2>3. UNCHANGED <<now, event, link, gone, shown, messages, strays, faults, issued>>
    BY <1>2 DEF Claim, Clock, Discord, discord
  <2>4. TypeOK' /\ LinkKnown' /\ OnePublicMessage'
    BY <1>1, <2>1, <2>2, <2>3, SchedulerIsProc DEF Neutral, TypeOK
  <2>5. WriterKnown'
    BY <2>1, WritersStay, SchedulerIsProc
  <2> QED
    BY <2>4, <2>5
<1>3. ASSUME NEW h \in Handlers, NEW op \in Ops, Command(h, op) PROVE IInv'
  <2>1. /\ ProcsOK' /\ Others(h) /\ proc[h].pc = "idle"
        /\ proc'[h].pc \in {"start", "write", "refresh"} /\ proc'[h].op = op
        /\ proc'[h].pc = "write" => op \in DOMAIN AfterWrite /\ proc'[h].seen.status \notin Final
    BY <1>3, CommandFits
  <2>2. /\ UNCHANGED <<now, event, row, link, gone, shown, messages, strays, faults>>
        /\ issued' = issued + 1
    BY <1>3 DEF Command, discord
  <2>3. TypeOK' /\ LinkKnown' /\ OnePublicMessage'
    BY <1>1, <2>1, <2>2, SchedulerIsProc DEF Neutral, TypeOK
  <2>4. WriterKnown'
    BY <2>1, SchedulerIsProc DEF WriterKnown, Others
  <2> QED
    BY <2>3, <2>4
<1> QED
  BY <1>2, <1>3

\* The steps of publication and refresh that touch messages.
Linked == IF link # 0 /\ ~gone THEN 1 ELSE 0

\* As long as the link stays, a message is there for every process in flight.
LEMMA Counted ==
  ASSUME OnePublicMessage, UNCHANGED <<event, link, gone>>,
         Cardinality(Unlinked) \in Nat, Cardinality(Unlinked') \in Int,
         messages \in Int, strays \in Nat, messages' \in Int, strays' \in Nat,
         messages' - strays' - Cardinality(Unlinked') = messages - strays - Cardinality(Unlinked)
  PROVE  OnePublicMessage'
<1>1. messages = Cardinality(Unlinked) + Linked + strays /\ Linked \in Nat
  BY DEF OnePublicMessage, Linked
<1>2. Linked' = Linked
  BY DEF Linked
<1>3. messages' = Cardinality(Unlinked') + Linked' + strays'
  BY <1>1, <1>2
<1> QED
  BY <1>3 DEF OnePublicMessage, Linked

LEMMA ViewFits ==
  ASSUME NEW e \in Event
  PROVE  View(e) \in [status : Status \cup {"none"}, starts : Times]
BY DEF View, Event

LEMMA PublishLinkKeeps ==
  ASSUME IInv, NEW p \in Procs, PublishLink(p)
  PROVE  IInv'
<1> USE DEF IInv
<1>1. ProcsOK' /\ Others(p) /\ proc[p].pc = "link" /\ proc'[p].pc \in Neutral \ {"write"}
  BY LinkFits
<1>2. Cardinality(Unlinked') = Cardinality(Unlinked) - 1 /\ Cardinality(Unlinked) \in Nat
  BY <1>1, Counting, UnlinkedFinite DEF InFlight, Neutral
<1>3. UNCHANGED <<now, row, gone, strays, issued, faults>>
  BY DEF PublishLink, Clock
<1>4. proc[p].seen \in Event /\ PublishedStatus(p) \in {"open", "scheduled"}
  BY DEF TypeOK, Process, PublishedStatus
<1>5. WriterKnown'
  BY <1>1, WritersStay
<1>6. CASE CanPublish
  <2>1. /\ event' = [event EXCEPT !.published = TRUE, !.status = PublishedStatus(p)]
        /\ shown' = [status |-> PublishedStatus(p), starts |-> proc[p].seen.starts]
        /\ link' = 1 /\ UNCHANGED messages
    BY <1>6 DEF PublishLink
  <2>2. link = 0 /\ ~gone
    BY <1>6 DEF CanPublish, OnePublicMessage, LinkKnown
  <2>3. event' \in Event /\ event'.published
    BY <1>4, <2>1 DEF TypeOK, Event, Status
  <2>4. shown' \in [status : Status \cup {"none"}, starts : Times]
    BY <1>4, <2>1 DEF Event, Status
  <2>5. TypeOK'
    BY <1>1, <1>3, <2>1, <2>3, <2>4 DEF TypeOK, ProcsOK
  <2>6. \A q \in Procs : proc'[q].pc \notin {"edit", "swap"}
    BY <1>1, <2>2 DEF LinkKnown, Others, TypeOK, Process, Neutral
  <2>7. LinkKnown'
    BY <1>3, <2>1, <2>2, <2>6 DEF LinkKnown
  <2>8. messages' = messages /\ messages = Cardinality(Unlinked) + 0 + strays
    BY <2>1, <2>2 DEF OnePublicMessage
  <2>9. OnePublicMessage'
    BY <1>2, <1>3, <2>1, <2>2, <2>3, <2>8 DEF OnePublicMessage, TypeOK
  <2> QED
    BY <1>5, <2>5, <2>7, <2>9
<1>7. CASE ~CanPublish
  <2>1. messages' = messages - 1 /\ UNCHANGED <<event, shown, link>>
    BY <1>7 DEF PublishLink
  <2>2. TypeOK'
    BY <1>1, <1>3, <2>1 DEF TypeOK, ProcsOK
  <2>3. LinkKnown'
    BY <1>1, <1>3, <2>1, LinksStay DEF Neutral
  <2>4. OnePublicMessage'
    BY <1>2, <1>3, <2>1, Counted DEF TypeOK
  <2> QED
    BY <1>5, <2>2, <2>3, <2>4
<1> QED
  BY <1>6, <1>7

LEMMA RefreshSwapKeeps ==
  ASSUME IInv, NEW p \in Procs, RefreshSwap(p)
  PROVE  IInv'
<1> USE DEF IInv
<1>1. ProcsOK' /\ Others(p) /\ proc[p].pc = "swap" /\ proc'[p].pc \in Neutral \ {"write"}
  BY SwapFits
<1>2. Cardinality(Unlinked') = Cardinality(Unlinked) - 1 /\ Cardinality(Unlinked) \in Nat
  BY <1>1, Counting, UnlinkedFinite DEF InFlight, Neutral
<1>3. UNCHANGED <<now, event, row, strays, issued, faults>>
  BY DEF RefreshSwap, Clock
<1>4. WriterKnown'
  BY <1>1, WritersStay
<1>5. CASE SwapApplies(p)
  <2>1. link' = link + 1 /\ gone' = FALSE /\ shown' = View(proc[p].seen) /\ UNCHANGED messages
    BY <1>5 DEF RefreshSwap
  <2>2. gone /\ link # 0 /\ link \in Nat
    BY <1>1, <1>5 DEF SwapApplies, LinkKnown, TypeOK
  <2>3. shown' \in [status : Status \cup {"none"}, starts : Times]
    BY <2>1, ViewFits DEF TypeOK, Process
  <2>4. TypeOK'
    <3>1. link' \in Nat
      BY <2>1, <2>2
    <3>2. gone' \in BOOLEAN
      BY <2>1
    <3> QED
      BY <1>1, <1>3, <2>1, <2>3, <3>1, <3>2 DEF TypeOK, ProcsOK
  <2>5. LinkKnown'
    <3> SUFFICES ASSUME NEW q \in Procs, proc'[q].pc \in {"edit", "swap"}
                 PROVE  proc'[q].msg # 0 /\ proc'[q].msg <= link' /\ proc'[q].msg # link'
      BY <2>1 DEF LinkKnown
    <3>1. q # p /\ proc'[q] = proc[q]
      BY <1>1 DEF Others, Neutral
    <3>2. proc[q].msg \in Nat /\ proc[q].msg # 0 /\ proc[q].msg <= link
      BY <3>1 DEF LinkKnown, TypeOK, Process
    <3> QED
      BY <2>1, <2>2, <3>1, <3>2
  <2>6. OnePublicMessage'
    <3>1. messages = Cardinality(Unlinked) + 0 + strays /\ event.published
      BY <2>2 DEF OnePublicMessage
    <3>2. link' # 0 /\ ~gone'
      BY <2>1, <2>2
    <3> QED
      BY <1>2, <1>3, <2>1, <3>1, <3>2 DEF OnePublicMessage, TypeOK
  <2> QED
    BY <1>4, <2>4, <2>5, <2>6
<1>6. CASE ~SwapApplies(p)
  <2>1. messages' = messages - 1 /\ UNCHANGED <<link, gone, shown>>
    BY <1>6 DEF RefreshSwap
  <2>2. TypeOK'
    BY <1>1, <1>3, <2>1 DEF TypeOK, ProcsOK
  <2>3. LinkKnown'
    BY <1>1, <2>1, LinksStay DEF Neutral
  <2>4. OnePublicMessage'
    BY <1>2, <1>3, <2>1, Counted DEF TypeOK
  <2> QED
    BY <1>4, <2>2, <2>3, <2>4
<1> QED
  BY <1>5, <1>6

\* A message is sent: by a publisher, or by a refresh that found none.
LEMMA SendKeeps ==
  ASSUME IInv, NEW p \in Procs, PublishSend(p) \/ RefreshRead(p) \/ RefreshEdit(p)
  PROVE  IInv'
<1> USE DEF IInv
<1>1. UNCHANGED <<now, event, row, link, gone, strays, issued, faults>>
  BY DEF PublishSend, RefreshRead, RefreshEdit, Clock, Discord, discord
<1>2. link \in Nat /\ messages \in Int /\ strays \in Nat /\ Cardinality(Unlinked) \in Nat
  BY UnlinkedFinite DEF TypeOK
<1>3. CASE PublishSend(p)
  <2>1. ProcsOK' /\ Others(p) /\ proc[p].pc = "send" /\ proc'[p].pc = "link"
    BY <1>3, SendFits
  <2>2. messages' = messages + 1 /\ shown' = shown
    BY <1>3 DEF PublishSend
  <2>3. TypeOK' /\ WriterKnown' /\ LinkKnown'
    BY <1>1, <2>1, <2>2, WritersStay, LinksStay DEF TypeOK, ProcsOK
  <2>4. Cardinality(Unlinked') = Cardinality(Unlinked) + 1
    BY <2>1, Counting DEF InFlight
  <2> QED
    BY <1>1, <1>2, <2>2, <2>3, <2>4, Counted
<1>4. CASE RefreshRead(p)
  <2>1. /\ ProcsOK' /\ Others(p) /\ proc[p].pc = "refresh"
        /\ \/ proc'[p].pc \in {"idle", "done"}
           \/ proc'[p].pc = "edit" /\ proc'[p].msg = link /\ link # 0
    BY <1>4, ReadFits
  <2>2. messages' = messages /\ shown' = shown
    BY <1>4 DEF RefreshRead, Discord, discord
  <2>3. TypeOK' /\ WriterKnown' /\ LinkKnown'
    BY <1>1, <1>2, <2>1, <2>2, WritersStay, LinksStay DEF TypeOK, ProcsOK
  <2>4. Cardinality(Unlinked') = Cardinality(Unlinked)
    BY <2>1, Counting DEF InFlight
  <2> QED
    BY <1>1, <1>2, <2>2, <2>3, <2>4, Counted
<1>5. CASE RefreshEdit(p)
  <2>1. /\ ProcsOK' /\ Others(p) /\ proc[p].pc = "edit"
        /\ \/ UNCHANGED messages /\ proc'[p].pc \in Neutral \ {"write"}
           \/ /\ ~(proc[p].msg = link /\ ~gone) /\ messages' = messages + 1
              /\ proc'[p].pc = "swap" /\ proc'[p].msg = proc[p].msg
    BY <1>5, EditFits
  <2>2. shown' \in {shown, View(proc[p].seen)}
    BY <1>5 DEF RefreshEdit
  <2>3. shown' \in [status : Status \cup {"none"}, starts : Times]
    BY <2>2, ViewFits DEF TypeOK, Process
  <2>4. messages' \in Int
    BY <1>2, <2>1
  <2>5. TypeOK'
    BY <1>1, <2>1, <2>3, <2>4 DEF TypeOK, ProcsOK
  <2>6. WriterKnown' /\ LinkKnown'
    BY <1>1, <2>1, WritersStay, LinksStay DEF Neutral
  <2>7. \/ messages' = messages /\ Cardinality(Unlinked') = Cardinality(Unlinked)
        \/ messages' = messages + 1 /\ Cardinality(Unlinked') = Cardinality(Unlinked) + 1
    BY <2>1, Counting DEF InFlight, Neutral
  <2> QED
    BY <1>1, <1>2, <2>4, <2>5, <2>6, <2>7, Counted
<1> QED
  BY <1>3, <1>4, <1>5

LEMMA LostKeeps ==
  ASSUME IInv, NEW p \in Procs, Lost(p)
  PROVE  IInv'
<1> USE DEF IInv
<1>1. ProcsOK' /\ Others(p) /\ proc[p].pc # "idle" /\ proc'[p].pc = "idle"
  BY LostFits
<1>2. UNCHANGED <<now, event, link, gone, shown, issued>> /\ faults' = faults + 1
  BY DEF Lost
<1>3. messages \in Int /\ strays \in Nat /\ Cardinality(Unlinked) \in Nat
  BY UnlinkedFinite DEF TypeOK
<1>4. row' \in [Kinds -> Row]
  BY DEF Lost, TypeOK, Row, Live
<1>5. \/ /\ InFlight(proc[p])
         /\ \/ strays' = strays + 1 /\ messages' = messages
            \/ messages' = messages - 1 /\ strays' = strays
      \/ ~InFlight(proc[p]) /\ messages' = messages /\ strays' = strays
  BY DEF Lost, InFlight
<1>6. messages' \in Int /\ strays' \in Nat
  BY <1>3, <1>5
<1>7. TypeOK'
  BY <1>1, <1>2, <1>4, <1>6 DEF TypeOK, ProcsOK
<1>8. WriterKnown' /\ LinkKnown'
  BY <1>1, <1>2, WritersStay, LinksStay
<1>9. /\ InFlight(proc[p]) => Cardinality(Unlinked') = Cardinality(Unlinked) - 1
      /\ ~InFlight(proc[p]) => Cardinality(Unlinked') = Cardinality(Unlinked)
  BY <1>1, Counting DEF InFlight
<1>10. OnePublicMessage'
  BY <1>2, <1>3, <1>5, <1>6, <1>9, Counted
<1> QED
  BY <1>7, <1>8, <1>10

LEMMA WorldKeeps ==
  ASSUME IInv, Tick \/ DeleteMessage \/ UNCHANGED vars
  PROVE  IInv'
<1> USE DEF IInv
<1>1. UNCHANGED <<event, row, link, shown, strays, proc, issued>>
  BY DEF Tick, DeleteMessage, vars, discord
<1>2. Unlinked' = Unlinked /\ Cardinality(Unlinked) \in Nat
  BY <1>1, UnlinkedFinite DEF Unlinked
<1>3. \/ UNCHANGED <<gone, messages>>
      \/ link # 0 /\ ~gone /\ gone' = TRUE /\ messages' = messages - 1
  BY DEF Tick, DeleteMessage, vars, discord
<1>4. WriterKnown' /\ LinkKnown'
  BY <1>1, <1>3 DEF WriterKnown, LinkKnown
<1>5. now' \in Times /\ faults' \in Nat /\ messages' \in Int /\ gone' \in BOOLEAN
  <2>1. now' \in Times /\ faults' \in Nat
    BY BoundsAssumption DEF TypeOK, Times, Tick, DeleteMessage, vars
  <2>2. messages' \in Int
    BY <1>3 DEF TypeOK
  <2>3. gone' \in BOOLEAN
    BY <1>3 DEF TypeOK
  <2> QED
    BY <2>1, <2>2, <2>3
<1>6. TypeOK'
  BY <1>1, <1>5 DEF TypeOK
<1>7. OnePublicMessage'
  BY <1>1, <1>2, <1>3 DEF OnePublicMessage, TypeOK
<1> QED
  BY <1>4, <1>6, <1>7

LEMMA Inductive == IInv /\ [Next]_vars => IInv'
<1> SUFFICES ASSUME IInv, [Next]_vars PROVE IInv'
  OBVIOUS
<1>1. CASE UNCHANGED vars
  BY <1>1, WorldKeeps
<1>2. CASE Next
  BY <1>2, NextCases, WorldKeeps, StartKeeps, PlainKeeps, SendKeeps, PublishLinkKeeps,
     RefreshSwapKeeps, LostKeeps
<1> QED
  BY <1>1, <1>2

-----------------------------------------------------------------------------

\* Every reachable state is well formed, whatever the number of handlers,
\* commands and faults.
THEOREM TypeCorrect == Spec => []TypeOK
<1>1. IInv => TypeOK
  BY DEF IInv
<1> QED
  BY InitOK, Inductive, <1>1, PTL DEF Spec

\* Publishers and refreshers that race each other, die in between or find the
\* message deleted leave one public message (publishStoredEvent's conditional
\* claim, refreshAttendanceMessage's conditional swap and their clean-up).
THEOREM OneMessage == Spec => []OnePublicMessage
<1>1. IInv => OnePublicMessage
  BY DEF IInv
<1> QED
  BY InitOK, Inductive, <1>1, PTL DEF Spec

\* Who writes the event, and who counts faults.
LEMMA EventWriters ==
  ASSUME Next
  PROVE  \/ \E p \in Procs : PublishLink(p) \/ Write(p)
         \/ CloseWrite \/ CompleteWrite
         \/ UNCHANGED event
<1>1. CASE Tick \/ DeleteMessage \/ (\E p \in Procs : Lost(p))
           \/ \E h \in Handlers, op \in Ops : Command(h, op)
  BY <1>1 DEF Tick, DeleteMessage, Lost, Command
<1>2. CASE Schedules
  BY <1>2 DEF Schedules, Claim, CloseLoad, CompleteLoad, CompleteRetire, MarkActionCompleted
<1>3. ASSUME NEW p \in Procs, Works(p)
      PROVE  PublishLink(p) \/ Write(p) \/ UNCHANGED event
  BY <1>3 DEF Works, PublishRead, PublishSend, PublishUnschedule, RefreshRead, RefreshEdit,
     RefreshSwap, Rows, Retire
<1> QED
  BY <1>1, <1>2, <1>3 DEF Next

LEMMA FaultsCount == Next => faults' = faults \/ faults' = faults + 1
<1>1. Tick \/ DeleteMessage \/ (\E p \in Procs : Lost(p))
      \/ (\E h \in Handlers, op \in Ops : Command(h, op))
      => faults' = faults \/ faults' = faults + 1
  BY DEF Tick, DeleteMessage, Lost, Command
<1>2. Schedules => faults' = faults
  BY DEF Schedules, Claim, CloseLoad, CloseWrite, CompleteLoad, CompleteWrite, CompleteRetire,
     MarkActionCompleted, Clock
<1>3. ASSUME NEW p \in Procs, Works(p) PROVE faults' = faults
  BY <1>3 DEF Works, PublishRead, PublishSend, PublishLink, PublishUnschedule, RefreshRead,
     RefreshEdit, RefreshSwap, Write, Rows, Retire, Clock
<1> QED
  BY <1>1, <1>2, <1>3 DEF Next

\* Nobody writes over a final status.
LEMMA FinalStays ==
  ASSUME "refresh" \notin Ops, IInv, Next, event.status \in Final
  PROVE  event'.status = event.status
<1> USE DEF IInv
<1>1. CASE \E p \in Procs : PublishLink(p)
  <2>1. ~CanPublish
    BY DEF CanPublish, Final
  <2> QED
    BY <1>1, <2>1 DEF PublishLink
<1>2. CASE CloseWrite \/ CompleteWrite
  BY <1>2 DEF CloseWrite, CompleteWrite, CanComplete, Final
<1>3. CASE \E h \in Procs : Write(h)
  <2>1. PICK h \in Handlers : Write(h)
    BY <1>3 DEF Write
  <2>2. proc[h].op # "refresh" /\ proc[h].seen.status \notin Final
    BY <2>1 DEF WriterKnown, Write
  <2>3. ~WriteApplies(h)
    BY <2>2 DEF WriteApplies
  <2> QED
    BY <2>1, <2>3 DEF Write
<1>4. CASE UNCHANGED event
  BY <1>4
<1> QED
  BY <1>1, <1>2, <1>3, <1>4, EventWriters

\* Cancellation and completion are final: an updater whose UPDATE repeats the
\* status it validated cannot write over them.  /event refresh, whose overdue
\* close repeats nothing, is the one exception and is left out.
THEOREM Finality ==
  ASSUME "refresh" \notin Ops
  PROVE  Spec => FinalStatusIsFinal
<1>1. IInv /\ [Next]_vars => [event.status \in Final => event'.status = event.status]_vars
  BY FinalStays
<1> QED
  BY InitOK, Inductive, <1>1, PTL DEF Spec, FinalStatusIsFinal

-----------------------------------------------------------------------------
(* An open event is going to close, as long as one command at a time is    *)
(* under way and nothing is lost: who still needs the close action, and    *)
(* who is going to see to it.                                              *)

Closer == row["close_attendance"]
CloserIsDue == Closer.status \in Live /\ Closer.due = event.closes

\* The executor has made its decision and is going to complete the row.
Settling ==
  /\ Closer.status = "processing" /\ proc[Scheduler].op = "close_attendance"
  /\ proc[Scheduler].pc \in {"refresh", "edit", "swap", "done"}

\* A command is going to set the row.
Arming(h) ==
  /\ proc[h].pc = "rows"
  /\ \/ proc[h].op = "reopen"
     \/ proc[h].op = "move" /\ proc[h].next \in {"open", "scheduled"}

\* A publication has read an event with sign-ups and may open it.
Publishing(p) == proc[p].pc \in {"send", "link"} /\ proc[p].seen.signups

\* A command is going to schedule a closed event again, without touching the row.
Unlocking(h) == proc[h].pc = "write" /\ proc[h].op = "hold" /\ proc[h].next = "scheduled"

\* The event is open, or a publication may still open it.
NeedsCloser ==
  /\ event.signups
  /\ \/ event.status = "open"
     \/ /\ ~event.published
        /\ \/ event.status \notin Final /\ event.closes > now
           \/ event.status = "scheduled" /\ \E p \in Procs : Publishing(p)
           \/ /\ event.status = "closed" /\ Publishing(Scheduler)
              /\ \E h \in Handlers : Unlocking(h)

CloserWatched ==
  NeedsCloser => (\E h \in Handlers : Arming(h)) \/ (CloserIsDue /\ ~Settling)

\* Only a published event with sign-ups is open, a claimed row has fallen due,
\* and a completion retires the rows of an event that has ended.
RowsSound ==
  /\ event.status = "open" => event.published /\ event.signups
  /\ Closer.status = "processing" => Closer.due <= now
  /\ proc[Scheduler].op \in Kinds \cup {"none"}
  /\ proc[Scheduler].op = "complete_event" /\ proc[Scheduler].pc = "retire"
       => event.status \in Final
  /\ \A p \in Procs : proc[p].pc \in {"send", "link"} => proc[p].seen.signups = event.signups

\* What a command about to write has read and decided.
WriteSound(h) ==
  LET r == proc[h] IN
  r.pc = "write" =>
    /\ r.seen.closes = event.closes /\ r.seen.signups = event.signups
    /\ r.seen.published => event.published
    /\ CASE r.op \in {"close", "click"} -> r.next = "closed"
         [] r.op = "reopen" -> r.next = "open"
         [] r.op = "cancel" -> r.next = "cancelled"
         [] r.op = "hold" ->
              r.next = r.seen.status \/ (r.seen.status = "closed" /\ r.next = "scheduled")
         [] r.op = "move" ->
              /\ r.next \in {r.seen.status, "scheduled"}
              /\ r.next = "closed" /\ r.seen.signups /\ ~r.seen.published
                   => Move(r.seen, r.to).closes <= now
         [] OTHER -> FALSE

\* What a command has done, and what it is going to do to the rows.
CommandSound(h) ==
  LET r == proc[h] IN
  /\ WriteSound(h)
  /\ r.op \in {"close", "click", "reopen"} => event.published /\ event.signups
  /\ r.pc = "retire" \/ (r.op = "close" /\ r.pc \in {"refresh", "edit", "swap"})
       => event.published /\ event.status # "open"
  /\ r.pc = "rows" =>
       CASE r.op = "reopen" -> event.closes = r.to
         [] r.op = "cancel" -> event.status \in Final
         [] r.op = "move" -> /\ event.closes = Move(r.seen, r.to).closes
                             /\ r.seen.signups = event.signups
         [] OTHER -> r.op = "hold"

Closers ==
  faults = 0 => /\ RowsSound /\ CloserWatched
                /\ \A h \in Handlers : CommandSound(h)

Alone == \A h, i \in Handlers : h = i

LEMMA CloserIsRow == ASSUME TypeOK PROVE Closer \in Row /\ "close_attendance" \in Kinds
BY DEF TypeOK, Closer, Kinds

\* A process goes on with what it has in mind.
Continues(p, pc) ==
  /\ proc'[p].pc = pc /\ proc'[p].op = proc[p].op /\ proc'[p].to = proc[p].to
  /\ proc'[p].next = proc[p].next /\ proc'[p].seen = proc[p].seen

\* A handler is through; the scheduler has its row to settle.
Returns(p) ==
  \/ p \in Handlers /\ p # Scheduler /\ proc'[p].pc = "idle" /\ proc'[p].op = "none"
  \/ p = Scheduler /\ Continues(p, "done")

LEMMA GotoGoes ==
  ASSUME TypeOK, NEW p \in Procs, NEW pc, Goto(p, pc)
  PROVE  Others(p) /\ Continues(p, pc)
BY DEF TypeOK, Goto, Others, Continues, Process

LEMMA EndGoes ==
  ASSUME TypeOK, NEW p \in Procs, End(p)
  PROVE  Others(p) /\ Returns(p)
<1>1. CASE p = Scheduler
  BY <1>1 DEF TypeOK, End, Ended, Others, Returns, Continues, Process
<1>2. CASE p # Scheduler
  BY <1>2 DEF TypeOK, End, Ended, Others, Returns, Procs, IdleProcess
<1> QED
  BY <1>1, <1>2

LEMMA StepsGoes ==
  ASSUME TypeOK, NEW p \in Procs, NEW pc, NEW more, Steps(p, pc, more)
  PROVE  Others(p) /\ ((more /\ Continues(p, pc)) \/ (~more /\ Returns(p)))
<1>1. (more /\ Goto(p, pc)) \/ (~more /\ End(p))
  BY DEF Steps
<1> QED
  BY <1>1, GotoGoes, EndGoes

\* What others than the command under way do to the event.
EventAges ==
  /\ event'.closes = event.closes /\ event'.signups = event.signups
  /\ event.published => event'.published
  /\ event.status \in Final => event'.status \in Final
  /\ event.published /\ event.status # "open" => event'.status # "open"

\* What a command knows may wait for time to pass and for the scheduler.
LEMMA CommandsStay ==
  ASSUME TypeOK, NEW h \in Handlers, CommandSound(h), proc'[h] = proc[h], EventAges,
         now' \in Int, now' >= now
  PROVE  CommandSound(h)'
<1>1. now \in Int /\ proc[h].seen \in Event /\ proc[h].to \in Times
  BY SchedulerIsProc, BoundsAssumption DEF TypeOK, Process, Times
<1>2. Move(proc[h].seen, proc[h].to).closes \in Int
  BY <1>1, MoveIsEvent
<1>3. WriteSound(h)'
  <2>1. WriteSound(h)
    BY DEF CommandSound
  <2>2. Move(proc[h].seen, proc[h].to).closes <= now
          => Move(proc[h].seen, proc[h].to).closes <= now'
    BY <1>1, <1>2
  <2> QED
    BY <2>1, <2>2 DEF WriteSound, EventAges
<1> QED
  BY <1>3 DEF CommandSound, EventAges

\* Steps on the way of a publication, a refresh or the scheduler that leave the
\* event and its close row alone.
Passing(p) ==
  /\ Others(p) /\ UNCHANGED <<now, event, faults>> /\ Closer' = Closer
  /\ proc[p].pc # "rows"
  /\ \/ proc'[p].pc \in {"idle", "done", "start", "unschedule", "refresh", "edit", "swap"}
     \/ proc[p].pc = "send" /\ Continues(p, "link")
     \/ p = Scheduler /\ proc'[p].pc = "write"
     \/ p = Scheduler /\ proc'[p].pc = "retire" /\ event.status \in Final
     \/ p \in Handlers /\ proc'[p].pc = "retire" /\ proc[p].pc \in {"edit", "swap"}
        /\ proc[p].op = "close"
  /\ p \in Handlers =>
       /\ p # Scheduler /\ proc'[p].op \in {proc[p].op, "none"}
       /\ proc[p].op = "close" /\ proc'[p].pc \in {"refresh", "edit", "swap"}
            => proc[p].pc \in {"refresh", "edit", "swap"}
  /\ p = Scheduler =>
       /\ proc'[p].op \in Kinds \cup {"none"}
       /\ Settling' /\ NeedsCloser /\ CloserIsDue => Settling

LEMMA PassingKeeps ==
  ASSUME TypeOK, Closers, faults = 0, NEW p \in Procs, Passing(p)
  PROVE  Closers'
<1>1. RowsSound /\ CloserWatched /\ \A h \in Handlers : CommandSound(h)
  BY DEF Closers
<1>2. now \in Int /\ now' = now
  BY BoundsAssumption DEF TypeOK, Times, Passing
<1>3. ASSUME NEW h \in Handlers PROVE CommandSound(h)'
  <2>1. CASE h # p
    BY <1>1, <1>2, <2>1, SchedulerIsProc, CommandsStay DEF Passing, Others, EventAges
  <2>2. CASE h = p
    <3>1. WriteSound(h)'
      BY <2>2 DEF Passing, Continues, WriteSound
    <3> QED
      BY <1>1, <2>2, <3>1 DEF Passing, Continues, CommandSound
  <2> QED
    BY <2>1, <2>2
<1>4. \A q \in Procs : Publishing(q)' => Publishing(q)
  BY DEF Passing, Publishing, Others, Continues
<1>5. \A h \in Handlers : Unlocking(h)' => Unlocking(h)
  BY SchedulerIsProc DEF Passing, Unlocking, Others, Continues
<1>6. NeedsCloser' => NeedsCloser
  BY <1>4, <1>5, SchedulerIsProc DEF NeedsCloser, Passing
<1>7. \A h \in Handlers : Arming(h) => Arming(h)'
  BY SchedulerIsProc DEF Passing, Arming, Others
<1>8. Settling' /\ NeedsCloser /\ CloserIsDue => Settling
  BY SchedulerIsProc DEF Passing, Settling, Others
<1>9. CloserIsDue => CloserIsDue'
  BY DEF Passing, CloserIsDue
<1>10. CloserWatched'
  BY <1>1, <1>6, <1>7, <1>8, <1>9 DEF CloserWatched
<1>11. RowsSound'
  <2>1. \A q \in Procs : proc'[q].pc \in {"send", "link"} => proc'[q].seen.signups = event'.signups
    BY <1>1 DEF Passing, RowsSound, Others, Continues
  <2>2. proc'[Scheduler].op = "complete_event" /\ proc'[Scheduler].pc = "retire"
          => event'.status \in Final
    BY <1>1, SchedulerIsProc DEF Passing, RowsSound, Others, Continues
  <2>3. proc'[Scheduler].op \in Kinds \cup {"none"}
    BY <1>1, SchedulerIsProc DEF Passing, RowsSound, Others
  <2> QED
    BY <1>1, <1>2, <2>1, <2>2, <2>3 DEF RowsSound, Passing
<1> QED
  BY <1>3, <1>10, <1>11 DEF Closers

LEMMA PublishingPasses ==
  ASSUME TypeOK, Closers, faults = 0, NEW p \in Procs,
         \/ PublishSend(p) \/ PublishUnschedule(p)
         \/ PublishRead(p) /\ ~Publishable(event)
         \/ PublishLink(p) /\ ~CanPublish
  PROVE  Closers'
<1>1. UNCHANGED <<now, event, faults>> /\ Closer' = Closer
  BY DEF PublishSend, PublishUnschedule, PublishRead, PublishLink, Clock, Discord, discord,
         Closer, TypeOK, Kinds
<1>2. proc[p].pc \in {"start", "send", "link", "unschedule"}
      /\ proc[p].op \in {"publish", "publish_event"}
  BY DEF PublishSend, PublishUnschedule, PublishRead, PublishLink, At
<1>3. Others(p) /\ (Returns(p) \/ (proc[p].pc = "send" /\ Continues(p, "link")))
  BY GotoGoes, EndGoes DEF PublishSend, PublishUnschedule, PublishRead, PublishLink, At
<1>4. proc[Scheduler].op \in Kinds \cup {"none"}
  BY DEF Closers, RowsSound
<1>5. p = Scheduler => ~Settling'
  BY <1>2, <1>3 DEF Settling, Returns, Continues
<1>6. Passing(p)
  BY <1>1, <1>2, <1>3, <1>4, <1>5, HandlersAssumption DEF Passing, Returns, Continues
<1> QED
  BY <1>6, PassingKeeps

LEMMA RefreshPasses ==
  ASSUME TypeOK, Closers, faults = 0, NEW p \in Procs,
         RefreshRead(p) \/ RefreshEdit(p) \/ RefreshSwap(p)
  PROVE  Closers'
<1>1. UNCHANGED <<now, event, faults>> /\ Closer' = Closer
  BY DEF RefreshRead, RefreshEdit, RefreshSwap, Clock, Discord, discord, Closer
<1>2. proc[p].pc \in {"refresh", "edit", "swap"}
  BY DEF RefreshRead, RefreshEdit, RefreshSwap
<1>3. /\ Others(p)
      /\ \/ Returns(p)
         \/ proc[p].pc = "refresh" /\ proc'[p].pc = "edit" /\ proc'[p].op = proc[p].op
         \/ proc[p].pc = "edit" /\ Continues(p, "swap")
         \/ proc[p].pc \in {"edit", "swap"} /\ proc[p].op = "close" /\ Continues(p, "retire")
  <2>1. CASE RefreshRead(p)
    <3>1. CASE link = 0
      BY <2>1, <3>1, EndGoes DEF RefreshRead
    <3>2. CASE link # 0
      BY <2>1, <3>2 DEF RefreshRead, TypeOK, Process, Others
    <3> QED
      BY <3>1, <3>2
  <2>2. CASE RefreshEdit(p)
    BY <2>2, GotoGoes, StepsGoes DEF RefreshEdit, AfterRefresh
  <2>3. CASE RefreshSwap(p)
    BY <2>3, StepsGoes DEF RefreshSwap, AfterRefresh
  <2> QED
    BY <2>1, <2>2, <2>3
<1>4. proc[Scheduler].op \in Kinds \cup {"none"}
  BY DEF Closers, RowsSound
<1>5. p = Scheduler /\ Settling' => Settling
  BY <1>1, <1>2, <1>3, HandlersAssumption DEF Settling, Returns, Continues
<1>6. p = Scheduler => proc[p].op # "close"
  BY <1>4 DEF Kinds
<1>7. Passing(p)
  BY <1>1, <1>2, <1>3, <1>4, <1>5, <1>6, HandlersAssumption, SchedulerIsProc
     DEF Passing, Returns, Continues, Procs
<1> QED
  BY <1>7, PassingKeeps

LEMMA TickCloses ==
  ASSUME TypeOK, Closers, faults = 0, Tick PROVE Closers'
<1>1. RowsSound /\ CloserWatched /\ \A h \in Handlers : CommandSound(h)
  BY DEF Closers
<1>2. now \in Int /\ now' = now + 1 /\ UNCHANGED <<event, row, proc, faults>>
  BY BoundsAssumption DEF TypeOK, Times, Tick
<1>3. \A h \in Handlers : CommandSound(h)'
  BY <1>1, <1>2, CommandsStay DEF EventAges
<1>4. Closer' = Closer /\ Closer.due \in Int /\ event.closes \in Int
  BY <1>2, CloserIsRow DEF Closer, Row, TypeOK, Event
<1>5. RowsSound'
  BY <1>1, <1>2, <1>4 DEF RowsSound
<1>6. NeedsCloser' => NeedsCloser
  BY <1>2, <1>4 DEF NeedsCloser, Publishing, Unlocking
<1>7. CloserWatched'
  BY <1>1, <1>2, <1>4, <1>6 DEF CloserWatched, Arming, Settling, CloserIsDue
<1> QED
  BY <1>3, <1>5, <1>7 DEF Closers

\* A publication reads the event: whatever may come of it, the row is there.
LEMMA PublishReadCloses ==
  ASSUME TypeOK, Closers, faults = 0, Alone, NEW p \in Procs, PublishRead(p), Publishable(event)
  PROVE  Closers'
<1>1. RowsSound /\ CloserWatched /\ \A h \in Handlers : CommandSound(h)
  BY DEF Closers
<1>2. UNCHANGED <<now, event, row, faults>> /\ proc[p].pc = "start"
      /\ proc[p].op \in {"publish", "publish_event"}
  BY DEF PublishRead, Clock, At
<1>3. /\ Others(p) /\ proc'[p].pc = "send" /\ proc'[p].op = proc[p].op
      /\ proc'[p].seen = event
  BY DEF PublishRead, Sees, Others, TypeOK, Process
<1>4. now \in Int /\ Closer' = Closer
  BY <1>2, BoundsAssumption DEF TypeOK, Times, Closer
<1>5. \A h \in Handlers : CommandSound(h)'
  <2>1. ASSUME NEW h \in Handlers, h # p PROVE CommandSound(h)'
    BY <1>1, <1>2, <1>3, <1>4, <2>1, SchedulerIsProc, CommandsStay DEF Others, EventAges
  <2>2. ASSUME NEW h \in Handlers, h = p PROVE CommandSound(h)'
    BY <1>2, <1>3, <2>2 DEF CommandSound, WriteSound
  <2> QED
    BY <2>1, <2>2
<1>6. RowsSound'
  BY <1>1, <1>2, <1>3, <1>4, SchedulerIsProc DEF RowsSound, Others
<1>7. NeedsCloser' => NeedsCloser
  BY <1>2 DEF NeedsCloser, Publishable
<1>8. \A h \in Handlers : Arming(h) => Arming(h)'
  BY <1>2, <1>3, SchedulerIsProc DEF Arming, Others
<1>9. Settling' => Settling
  BY <1>2, <1>3, <1>4, SchedulerIsProc DEF Settling, Others
<1>10. CloserIsDue => CloserIsDue'
  BY <1>2, <1>4 DEF CloserIsDue
<1>11. CloserWatched'
  BY <1>1, <1>7, <1>8, <1>9, <1>10 DEF CloserWatched
<1> QED
  BY <1>5, <1>6, <1>11 DEF Closers

\* The publication opens the event.
LEMMA PublishLinkCloses ==
  ASSUME TypeOK, Closers, faults = 0, NEW p \in Procs, PublishLink(p), CanPublish
  PROVE  Closers'
<1>1. RowsSound /\ CloserWatched /\ \A h \in Handlers : CommandSound(h)
  BY DEF Closers
<1>2. UNCHANGED <<now, row, faults>> /\ proc[p].pc = "link"
      /\ proc[p].op \in {"publish", "publish_event"}
  BY DEF PublishLink, Clock, At
<1>3. event' = [event EXCEPT !.published = TRUE, !.status = PublishedStatus(p)]
      /\ Others(p) /\ (Continues(p, "unschedule") \/ Returns(p))
  BY StepsGoes DEF PublishLink
<1>4. now \in Int /\ Closer' = Closer
  BY <1>2, BoundsAssumption DEF TypeOK, Times, Closer
<1>5. proc[p].seen.signups = event.signups /\ event.status = "scheduled" /\ ~event.published
  BY <1>1, <1>2 DEF CanPublish, RowsSound
<1>6. /\ event'.published /\ event'.signups = event.signups /\ event'.closes = event.closes
      /\ event'.status = IF event.signups THEN "open" ELSE "scheduled"
  BY <1>3, <1>5 DEF TypeOK, Event, PublishedStatus
<1>7. \A h \in Handlers : CommandSound(h)'
  <2>1. ASSUME NEW h \in Handlers, h # p PROVE CommandSound(h)'
    <3>1. EventAges
      BY <1>5, <1>6 DEF EventAges, Final
    <3> QED
      BY <1>1, <1>2, <1>3, <1>4, <2>1, <3>1, SchedulerIsProc, CommandsStay DEF Others
  <2>2. ASSUME NEW h \in Handlers, h = p PROVE CommandSound(h)'
    BY <1>2, <1>3, <2>2, HandlersAssumption DEF CommandSound, WriteSound, Returns, Continues
  <2> QED
    BY <2>1, <2>2
<1>8. RowsSound'
  <2>1. \A q \in Procs : proc'[q].pc \in {"send", "link"} => proc'[q].seen.signups = event'.signups
    BY <1>1, <1>3, <1>6 DEF RowsSound, Others, Returns, Continues
  <2>2. ~(proc'[Scheduler].op = "complete_event" /\ proc'[Scheduler].pc = "retire")
    BY <1>1, <1>2, <1>3, <1>5, SchedulerIsProc, HandlersAssumption
       DEF RowsSound, Others, Returns, Continues, Final
  <2>3. proc'[Scheduler].op \in Kinds \cup {"none"}
    BY <1>1, <1>3, SchedulerIsProc DEF RowsSound, Others, Returns, Continues
  <2> QED
    BY <1>1, <1>2, <1>4, <1>6, <2>1, <2>2, <2>3 DEF RowsSound
<1>9. NeedsCloser' => NeedsCloser
  BY <1>2, <1>5, <1>6 DEF NeedsCloser, Publishing
<1>10. \A h \in Handlers : Arming(h) => Arming(h)'
  BY <1>2, <1>3, SchedulerIsProc DEF Arming, Others
<1>11. Settling' => Settling
  BY <1>2, <1>3, <1>4, SchedulerIsProc DEF Settling, Others, Returns, Continues
<1>12. CloserIsDue => CloserIsDue'
  BY <1>4, <1>6 DEF CloserIsDue
<1>13. CloserWatched'
  BY <1>1, <1>9, <1>10, <1>11, <1>12 DEF CloserWatched
<1> QED
  BY <1>7, <1>8, <1>13 DEF Closers

-----------------------------------------------------------------------------
(* The steps of the scheduler.                                             *)

\* A row that is claimed does not belong to a deadline that is to come.
LEMMA ClaimedIsPast ==
  ASSUME TypeOK, RowsSound, CloserIsDue, Closer.status = "processing"
  PROVE  ~(event.closes > now)
<1>1. Closer.due <= now /\ Closer.due = event.closes /\ now \in Int /\ event.closes \in Int
  BY BoundsAssumption DEF RowsSound, CloserIsDue, TypeOK, Times, Event
<1> QED
  BY <1>1

LEMMA LoadCloses ==
  ASSUME TypeOK, Closers, faults = 0, CloseLoad \/ CompleteLoad
  PROVE  Closers'
<1> DEFINE r == proc[Scheduler]
<1>1. RowsSound
  BY DEF Closers
<1>2. UNCHANGED <<now, event, faults>> /\ Closer' = Closer /\ r.pc = "start"
      /\ r.op \in {"close_attendance", "complete_event"}
  BY DEF CloseLoad, CompleteLoad, Clock, Closer, At
<1>3. Others(Scheduler) /\ proc'[Scheduler].op = r.op
      /\ \/ proc'[Scheduler].pc = "done"
            /\ (r.op = "close_attendance" =>
                  event.status \in Final \/ (event.status = "closed" /\ ~event.published))
         \/ proc'[Scheduler].pc = "refresh" /\ event.status = "closed" /\ event.published
         \/ proc'[Scheduler].pc = "write"
         \/ proc'[Scheduler].pc = "retire" /\ event.status \in Final
  <2>1. ASSUME End(Scheduler)
        PROVE  /\ Others(Scheduler) /\ proc'[Scheduler].op = r.op
               /\ proc'[Scheduler].pc = "done"
    BY <2>1, SchedulerIsProc, EndGoes DEF Returns, Continues
  <2>2. ASSUME NEW pc, Sees(Scheduler, pc)
        PROVE  /\ Others(Scheduler) /\ proc'[Scheduler].op = r.op
               /\ proc'[Scheduler].pc = pc
    BY <2>2, SchedulerIsProc DEF Sees, Others, TypeOK, Process
  <2>3. CASE CloseLoad
    <3>1. \/ End(Scheduler)
             /\ (event.status \in Final \/ (event.status = "closed" /\ ~event.published))
          \/ Sees(Scheduler, "refresh") /\ event.status = "closed" /\ event.published
          \/ Sees(Scheduler, "write")
      BY <2>3 DEF CloseLoad, TypeOK, Event
    <3> QED
      BY <2>1, <2>2, <3>1
  <2>4. CASE CompleteLoad
    <3>1. /\ r.op = "complete_event"
          /\ \/ End(Scheduler)
             \/ Sees(Scheduler, "retire") /\ event.status \in Final
             \/ Sees(Scheduler, "write")
      BY <2>4 DEF CompleteLoad, At, Final
    <3> QED
      BY <2>1, <2>2, <3>1
  <2> QED
    BY <2>3, <2>4
<1>4. ~(Settling' /\ NeedsCloser /\ CloserIsDue)
  <2> SUFFICES ASSUME Settling', NeedsCloser, CloserIsDue PROVE FALSE
    OBVIOUS
  <2>1. Closer.status = "processing" /\ r.op = "close_attendance"
        /\ \/ event.status \in Final \/ (event.status = "closed" /\ ~event.published)
           \/ event.status = "closed" /\ event.published
    BY <1>2, <1>3 DEF Settling
  <2>2. event.closes > now
    BY <1>2, <2>1 DEF NeedsCloser, Publishing, Final
  <2> QED
    BY <1>1, <2>1, <2>2, ClaimedIsPast
<1>5. Passing(Scheduler)
  BY <1>2, <1>3, <1>4, SchedulerIsProc, HandlersAssumption DEF Passing, Kinds
<1> QED
  BY <1>5, SchedulerIsProc, PassingKeeps

LEMMA FinalCloses ==
  ASSUME TypeOK, Closers, faults = 0, Others(Scheduler), UNCHANGED <<now, faults>>,
         EventAges, event'.status \in Final, RowsSound'
  PROVE  Closers'
<1>1. \A h \in Handlers : CommandSound(h)'
  <2>1. now \in Int
    BY BoundsAssumption DEF TypeOK, Times
  <2> QED
    BY <2>1, SchedulerIsProc, HandlersAssumption, CommandsStay DEF Closers, Others
<1>2. ~NeedsCloser'
  BY DEF NeedsCloser, Final
<1> QED
  BY <1>1, <1>2 DEF Closers, CloserWatched

LEMMA CompleteCloses ==
  ASSUME TypeOK, Closers, faults = 0, CompleteWrite \/ CompleteRetire
  PROVE  Closers'
<1>1. RowsSound /\ UNCHANGED <<now, faults>> /\ proc[Scheduler].op = "complete_event"
  BY DEF Closers, CompleteWrite, CompleteRetire, Clock, At
<1>2. CASE CompleteWrite /\ ~CanComplete
  <2>1. UNCHANGED event /\ Closer' = Closer /\ proc[Scheduler].pc = "write"
        /\ Others(Scheduler) /\ Continues(Scheduler, "done")
    BY <1>2, SchedulerIsProc, HandlersAssumption, EndGoes DEF CompleteWrite, Closer, At, Returns
  <2>2. Passing(Scheduler)
    BY <1>1, <2>1, SchedulerIsProc, HandlersAssumption
       DEF Passing, Continues, Kinds, Settling
  <2> QED
    BY <2>2, SchedulerIsProc, PassingKeeps
<1>3. CASE CompleteWrite /\ CanComplete
  <2>1. /\ event' = [event EXCEPT !.status = "completed"] /\ UNCHANGED row
        /\ Others(Scheduler) /\ Continues(Scheduler, "retire")
    BY <1>3, SchedulerIsProc, GotoGoes DEF CompleteWrite
  <2>2. /\ event'.status = "completed" /\ event'.closes = event.closes
        /\ event'.signups = event.signups /\ event'.published = event.published
    BY <2>1 DEF TypeOK, Event
  <2>3. EventAges
    BY <2>2 DEF EventAges, Final
  <2>4. RowsSound'
    BY <1>1, <2>1, <2>2, HandlersAssumption DEF RowsSound, Others, Continues, Closer, Final, Kinds
  <2> QED
    BY <1>1, <2>1, <2>2, <2>3, <2>4, FinalCloses DEF Final
<1>4. CASE CompleteRetire
  <2>1. /\ UNCHANGED event /\ event.status \in Final /\ Others(Scheduler)
        /\ Continues(Scheduler, "refresh") \/ Continues(Scheduler, "done")
    BY <1>1, <1>4, SchedulerIsProc, HandlersAssumption, StepsGoes
       DEF CompleteRetire, At, RowsSound, Returns
  <2>2. Closer' = Retired("close_attendance", "completed")
    BY <1>4 DEF CompleteRetire, Closer, Kinds
  <2>3. Closer'.status # "processing"
    BY <2>2, CloserIsRow DEF Retired, Closer, Row, Live
  <2>4. RowsSound'
    BY <1>1, <2>1, <2>3 DEF RowsSound, Others, Continues
  <2> QED
    BY <1>1, <2>1, <2>4, FinalCloses DEF EventAges
<1> QED
  BY <1>2, <1>3, <1>4 DEF CompleteWrite

\* The executor closes the event, and only a deadline that it did not see is
\* still to come: then the row has been set again.
LEMMA CloseWriteCloses ==
  ASSUME TypeOK, Closers, faults = 0, CloseWrite
  PROVE  Closers'
<1>1. RowsSound /\ CloserWatched /\ \A h \in Handlers : CommandSound(h)
  BY DEF Closers
<1>2. UNCHANGED <<now, faults, row>> /\ Closer' = Closer
      /\ proc[Scheduler].op = "close_attendance" /\ proc[Scheduler].pc = "write"
  BY DEF CloseWrite, Clock, At, Closer
<1>3. CASE event.status \notin {"scheduled", "open"}
  <2>1. UNCHANGED event /\ Others(Scheduler) /\ Continues(Scheduler, "done")
    BY <1>3, SchedulerIsProc, HandlersAssumption, EndGoes DEF CloseWrite, Returns
  <2>2. ~(Settling' /\ NeedsCloser /\ CloserIsDue)
    <3> SUFFICES ASSUME Settling', NeedsCloser, CloserIsDue PROVE FALSE
      OBVIOUS
    <3>1. Closer.status = "processing"
      BY <1>2 DEF Settling
    <3>2. event.closes > now
      BY <1>2, <1>3 DEF NeedsCloser, Publishing, Final
    <3> QED
      BY <1>1, <3>1, <3>2, ClaimedIsPast
  <2>3. Passing(Scheduler)
    BY <1>2, <2>1, <2>2, SchedulerIsProc, HandlersAssumption DEF Passing, Continues, Kinds
  <2> QED
    BY <2>3, SchedulerIsProc, PassingKeeps
<1>4. CASE event.status \in {"scheduled", "open"}
  <2>1. /\ event' = [event EXCEPT !.status = "closed"] /\ Others(Scheduler)
        /\ Continues(Scheduler, "refresh") \/ Continues(Scheduler, "done")
    BY <1>4, SchedulerIsProc, HandlersAssumption, StepsGoes DEF CloseWrite, Returns
  <2>2. /\ event'.status = "closed" /\ event'.closes = event.closes
        /\ event'.signups = event.signups /\ event'.published = event.published
    BY <2>1 DEF TypeOK, Event
  <2>3. \A h \in Handlers : CommandSound(h)'
    <3>1. EventAges /\ now \in Int
      BY <1>4, <2>2, BoundsAssumption DEF EventAges, Final, TypeOK, Times
    <3> QED
      BY <1>1, <1>2, <2>1, <3>1, SchedulerIsProc, HandlersAssumption, CommandsStay DEF Others
  <2>4. RowsSound'
    BY <1>1, <1>2, <2>1, <2>2 DEF RowsSound, Others, Continues
  <2>5. CloserWatched'
    <3> SUFFICES ASSUME NeedsCloser'
                 PROVE  (\E h \in Handlers : Arming(h)') \/ (CloserIsDue' /\ ~Settling')
      BY DEF CloserWatched
    <3>1. event.signups /\ ~event.published /\ event.closes > now
      BY <1>2, <2>1, <2>2 DEF NeedsCloser, Publishing, Continues
    <3>2. NeedsCloser
      BY <1>4, <3>1 DEF NeedsCloser, Final
    <3>3. CASE \E h \in Handlers : Arming(h)
      BY <2>1, <3>3, SchedulerIsProc, HandlersAssumption DEF Arming, Others
    <3>4. CASE CloserIsDue
      <4>1. Closer.status # "processing"
        BY <1>1, <3>1, <3>4, ClaimedIsPast
      <4> QED
        BY <1>2, <2>2, <3>4, <4>1 DEF CloserIsDue, Settling
    <3> QED
      BY <1>1, <3>2, <3>3, <3>4 DEF CloserWatched
  <2> QED
    BY <2>3, <2>4, <2>5 DEF Closers
<1> QED
  BY <1>3, <1>4

\* A row is claimed, or settled: the close action only when it is no longer
\* needed, or set again.
LEMMA RowCloses ==
  ASSUME TypeOK, Closers, faults = 0, MarkActionCompleted \/ \E k \in Kinds : Claim(k)
  PROVE  Closers'
<1>1. RowsSound /\ CloserWatched /\ \A h \in Handlers : CommandSound(h)
  BY DEF Closers
<1>2. UNCHANGED <<now, event, faults>> /\ now \in Int
  <2>1. UNCHANGED <<now, event, faults>>
    BY DEF MarkActionCompleted, Claim, Clock
  <2> QED
    BY <2>1, BoundsAssumption DEF TypeOK, Times
<1>3. /\ Others(Scheduler) /\ proc'[Scheduler].pc \in {"start", "idle"}
      /\ proc'[Scheduler].op \in Kinds \cup {"none"}
  <2>1. CASE MarkActionCompleted
    BY <2>1, SchedulerIsProc DEF MarkActionCompleted, Others, TypeOK, IdleProcess
  <2>2. CASE \E k \in Kinds : Claim(k)
    <3>1. PICK k \in Kinds : Claim(k)
      BY <2>2
    <3>2. Others(Scheduler) /\ proc'[Scheduler].op = k /\ proc'[Scheduler].pc = "start"
      BY <3>1, SchedulerIsProc DEF Claim, Others, TypeOK, Process
    <3> QED
      BY <3>2
  <2> QED
    BY <2>1, <2>2
<1>4. /\ Closer'.due = Closer.due
      /\ \/ Closer' = Closer
         \/ Closer.status = "pending" /\ Closer'.status = "processing" /\ Closer.due <= now
         \/ Settling
  <2>1. CASE MarkActionCompleted
    <3> DEFINE k == proc[Scheduler].op
    <3>1. k \in Kinds
      BY <1>1, <2>1, SchedulerIsProc DEF MarkActionCompleted, RowsSound, TypeOK
    <3>2. row' = IF row[k].status = "processing" THEN [row EXCEPT ![k].status = "completed"]
                 ELSE row
      BY <2>1 DEF MarkActionCompleted
    <3>3. row \in [Kinds -> Row] /\ proc[Scheduler].pc = "done"
      BY <2>1 DEF TypeOK, MarkActionCompleted
    <3>4. CASE k = "close_attendance"
      BY <3>2, <3>3, <3>4, CloserIsRow DEF Closer, Row, Settling
    <3>5. CASE k # "close_attendance"
      BY <3>1, <3>2, <3>3, <3>5, CloserIsRow DEF Closer
    <3> QED
      BY <3>4, <3>5
  <2>2. CASE \E k \in Kinds : Claim(k)
    <3>1. PICK k \in Kinds :
            /\ row' = [row EXCEPT ![k].status = "processing"] /\ row[k].status = "pending"
            /\ row[k].due <= now /\ row \in [Kinds -> Row]
      BY <2>2 DEF Claim, TypeOK
    <3> QED
      BY <3>1, CloserIsRow DEF Closer, Row
  <2> QED
    BY <2>1, <2>2
<1>5. \A h \in Handlers : CommandSound(h)'
  BY <1>1, <1>2, <1>3, SchedulerIsProc, HandlersAssumption, CommandsStay DEF Others, EventAges
<1>6. RowsSound'
  <2>1. Closer'.status = "processing" => Closer'.due <= now'
    BY <1>1, <1>2, <1>4 DEF RowsSound, Settling
  <2> QED
    BY <1>1, <1>2, <1>3, <2>1 DEF RowsSound, Others
<1>7. NeedsCloser' => NeedsCloser
  BY <1>2, <1>3, SchedulerIsProc, HandlersAssumption DEF NeedsCloser, Publishing, Unlocking, Others
<1>8. \A h \in Handlers : Arming(h) => Arming(h)'
  BY <1>3, SchedulerIsProc, HandlersAssumption DEF Arming, Others
<1>9. CloserIsDue /\ ~Settling => CloserIsDue' /\ ~Settling'
  BY <1>2, <1>3, <1>4 DEF CloserIsDue, Settling, Live
<1>10. CloserWatched'
  BY <1>1, <1>7, <1>8, <1>9 DEF CloserWatched
<1> QED
  BY <1>5, <1>6, <1>10 DEF Closers

-----------------------------------------------------------------------------
(* The steps of the command.                                               *)

LEMMA CommandAlone ==
  ASSUME Alone, NEW h \in Handlers, RowsSound', CloserWatched', CommandSound(h)'
  PROVE  Closers'
BY DEF Closers, Alone

\* An edit of a closed event either leaves it closed, or its deadline is to come.
LEMMA EditedIs ==
  ASSUME TypeOK, NEW c \in Int
  PROVE  /\ EditedStatus(event, c) \in {event.status, "scheduled"}
         /\ event.status # "closed" => EditedStatus(event, c) = event.status
         /\ EditedStatus(event, c) = "closed" /\ event.signups /\ ~event.published => c <= now
         /\ event.status = "closed" /\ EditedStatus(event, c) = "scheduled"
              => event.signups /\ ~event.published /\ c > now
<1>1. now \in Int
  BY BoundsAssumption DEF TypeOK, Times
<1> QED
  BY <1>1 DEF EditedStatus, TypeOK, Event

LEMMA CommandCloses ==
  ASSUME TypeOK, Closers, faults = 0, Alone, "refresh" \notin Ops,
         NEW h \in Handlers, NEW op \in Ops, Command(h, op)
  PROVE  Closers'
<1>1. RowsSound /\ CloserWatched /\ proc[h].pc = "idle" /\ op \in AllOps /\ op # "refresh"
  BY OpsAssumption DEF Closers, Command
<1>2. UNCHANGED <<now, event, row, faults>> /\ Closer' = Closer
  BY DEF Command, Closer
<1>3. PICK to \in Times :
        /\ Accepts(op, to)
        /\ proc' = [proc EXCEPT ![h] = [op |-> op, pc |-> FirstStep(op), to |-> to, msg |-> 0,
                                        next |-> NextStatus(op, to), seen |-> event]]
  <2>1. 0 \in Times
    BY BoundsAssumption DEF Times
  <2> QED
    BY <2>1 DEF Command
<1>4. /\ Others(h) /\ proc'[h].op = op /\ proc'[h].pc = FirstStep(op) /\ proc'[h].to = to
      /\ proc'[h].next = NextStatus(op, to) /\ proc'[h].seen = event
  BY <1>3, SchedulerIsProc DEF Others, TypeOK
<1>5. FirstStep(op) \in {"start", "write", "refresh"}
      /\ (FirstStep(op) = "write" => op # "publish")
      /\ (op = "close" => FirstStep(op) = "write")
  BY DEF FirstStep
<1>6. event \in Event /\ event.closes \in Int /\ Move(event, to).closes \in Int
  BY MoveIsEvent DEF TypeOK, Event
<1>7. WriteSound(h)'
  <2> SUFFICES ASSUME FirstStep(op) = "write" PROVE WriteSound(h)'
    BY <1>4 DEF WriteSound
  <2>1. CASE op \in {"close", "click", "reopen", "cancel"}
    BY <1>2, <1>4, <2>1 DEF WriteSound, NextStatus
  <2>2. CASE op = "hold"
    <3>1. NextStatus(op, to) = EditedStatus(event, event.closes)
      BY <2>2 DEF NextStatus
    <3>2. NextStatus(op, to) = event.status
            \/ (event.status = "closed" /\ NextStatus(op, to) = "scheduled")
      BY <1>6, <3>1, EditedIs
    <3> QED
      BY <1>2, <1>4, <2>2, <3>2 DEF WriteSound
  <2>3. CASE op = "move"
    <3>1. NextStatus(op, to) = EditedStatus(event, Move(event, to).closes)
      BY <2>3 DEF NextStatus
    <3>2. /\ NextStatus(op, to) \in {event.status, "scheduled"}
          /\ NextStatus(op, to) = "closed" /\ event.signups /\ ~event.published
               => Move(event, to).closes <= now
      BY <1>6, <3>1, EditedIs
    <3> QED
      BY <1>2, <1>4, <2>3, <3>2 DEF WriteSound
  <2> QED
    BY <1>1, <1>5, <2>1, <2>2, <2>3 DEF AllOps
<1>8. CommandSound(h)'
  <2>1. op \in {"close", "click", "reopen"} => event.published /\ event.signups
    BY <1>3 DEF Accepts
  <2> QED
    BY <1>2, <1>4, <1>5, <1>7, <2>1 DEF CommandSound
<1>9. RowsSound'
  BY <1>1, <1>2, <1>4, <1>5, SchedulerIsProc, HandlersAssumption DEF RowsSound, Others
<1>10. NeedsCloser' => NeedsCloser
  <2>1. \A q \in Procs : Publishing(q)' => Publishing(q)
    BY <1>4, <1>5 DEF Publishing, Others
  <2>2. ASSUME event.status = "closed", \E i \in Handlers : Unlocking(i)'
        PROVE  event.signups /\ event.closes > now
    <3>1. Unlocking(h)'
      BY <2>2 DEF Alone
    <3>2. op = "hold" /\ NextStatus(op, to) = EditedStatus(event, event.closes)
          /\ NextStatus(op, to) = "scheduled"
      BY <1>4, <3>1 DEF Unlocking, NextStatus
    <3> QED
      BY <1>6, <2>2, <3>2, EditedIs
  <2> QED
    BY <1>2, <2>1, <2>2, SchedulerIsProc DEF NeedsCloser, Final
<1>11. \A i \in Handlers : ~Arming(i)
  BY <1>1 DEF Arming, Alone
<1>12. Settling' => Settling
  BY <1>2, <1>4, SchedulerIsProc, HandlersAssumption DEF Settling, Others
<1>13. CloserWatched'
  BY <1>1, <1>2, <1>10, <1>11, <1>12 DEF CloserWatched, CloserIsDue
<1> QED
  BY <1>8, <1>9, <1>13, CommandAlone

LEMMA WrittenIs ==
  ASSUME TypeOK, NEW h \in Handlers
  PROVE  /\ Written(h).status = proc[h].next /\ Written(h).published = event.published
         /\ Written(h).signups = event.signups
         /\ proc[h].op = "reopen" => Written(h).closes = proc[h].to
         /\ proc[h].op = "move" => Written(h).closes = Move(proc[h].seen, proc[h].to).closes
         /\ proc[h].op = "hold" => Written(h).closes = proc[h].seen.closes
         /\ proc[h].op = "cancel" => Written(h).closes = event.closes
<1> DEFINE new == IF proc[h].op = "move" THEN Move(proc[h].seen, proc[h].to) ELSE proc[h].seen
           e == [event EXCEPT !.status = proc[h].next]
<1>1. e \in [status : Status, published : BOOLEAN, signups : BOOLEAN, held : BOOLEAN,
             starts : Times, closes : Int]
      /\ e.published = event.published /\ e.status = proc[h].next /\ e.signups = event.signups
      /\ e.closes = event.closes
  BY SchedulerIsProc DEF TypeOK, Event, Process
<1>2. /\ proc[h].op = "close" => Written(h) = [e EXCEPT !.closes = now]
      /\ proc[h].op = "reopen" => Written(h) = [e EXCEPT !.closes = proc[h].to]
      /\ proc[h].op \in {"move", "hold"} =>
           Written(h) = [e EXCEPT !.starts = new.starts, !.closes = new.closes,
                                  !.held = proc[h].seen.held \/ proc[h].op = "hold"]
      /\ proc[h].op \notin {"close", "reopen", "move", "hold"} => Written(h) = e
  BY DEF Written
<1> HIDE DEF e
<1>3. CASE proc[h].op = "move"
  BY <1>1, <1>2, <1>3
<1>4. CASE proc[h].op = "hold"
  BY <1>1, <1>2, <1>4
<1>5. CASE proc[h].op \notin {"move", "hold"}
  BY <1>1, <1>2, <1>5
<1> QED
  BY <1>3, <1>4, <1>5

\* The row is set after the event, or the event is no longer open.
LEMMA WriteCloses ==
  ASSUME TypeOK, WriterKnown, Closers, faults = 0, Alone, NEW h \in Handlers, Write(h),
         WriteApplies(h)
  PROVE  Closers'
<1> DEFINE r == proc[h]
           o == r.op
<1>1. RowsSound /\ CloserWatched /\ CommandSound(h) /\ WriteSound(h) /\ h \in Procs
      /\ h # Scheduler
  BY SchedulerIsProc, HandlersAssumption DEF Closers, CommandSound
<1>2. r.pc = "write" /\ UNCHANGED <<now, row, faults>> /\ Closer' = Closer
      /\ event' = Written(h) /\ Goto(h, AfterWrite[o])
  BY DEF Write, Clock, Closer
<1>3. o \in {"close", "click", "reopen", "cancel", "hold", "move"}
  BY <1>1, <1>2 DEF WriteSound
<1>4. Others(h) /\ Continues(h, AfterWrite[o])
  BY <1>1, <1>2, GotoGoes
<1>5. /\ AfterWrite[o] = CASE o = "close" -> "refresh" [] o = "click" -> "retire" [] OTHER -> "rows"
  BY <1>3 DEF AfterWrite
<1>6. /\ event.status = r.seen.status
      /\ r.seen.closes = event.closes /\ r.seen.signups = event.signups
      /\ r.seen.published => event.published
  BY <1>1, <1>2, <1>3 DEF WriteApplies, WriteSound
<1>7. /\ event'.status = r.next /\ event'.published = event.published
      /\ event'.signups = event.signups
      /\ o = "reopen" => event'.closes = r.to
      /\ o = "move" => event'.closes = Move(r.seen, r.to).closes
      /\ o \in {"hold", "cancel"} => event'.closes = event.closes
  BY <1>2, <1>6, WrittenIs
<1>8. o \in {"close", "click", "reopen"} => event.published /\ event.signups
  BY <1>1 DEF CommandSound
<1>9. /\ o \in {"close", "click"} => r.next = "closed"
      /\ o = "reopen" => r.next = "open"
      /\ o = "cancel" => r.next = "cancelled"
      /\ o = "hold" => r.next = event.status \/ (event.status = "closed" /\ r.next = "scheduled")
      /\ o = "move" => /\ r.next \in {event.status, "scheduled"}
                       /\ r.next = "closed" /\ r.seen.signups /\ ~r.seen.published
                            => Move(r.seen, r.to).closes <= now
  BY <1>1, <1>2, <1>3, <1>6 DEF WriteSound
<1>10. CommandSound(h)'
  <2>1. WriteSound(h)'
    BY <1>3, <1>4, <1>5 DEF WriteSound, Continues
  <2> QED
    BY <1>3, <1>4, <1>5, <1>6, <1>7, <1>8, <1>9, <2>1 DEF CommandSound, Continues, Final
<1>11. \A q \in Procs \ {h} : proc'[q] = proc[q]
  BY <1>4 DEF Others
<1>12. RowsSound'
  <2>1. event'.status = "open" => event'.published /\ event'.signups
    <3>1. event.status = "open" => event.published /\ event.signups
      BY <1>1 DEF RowsSound
    <3> QED
      BY <1>3, <1>7, <1>8, <1>9, <3>1
  <2>2. proc[Scheduler].op = "complete_event" /\ proc[Scheduler].pc = "retire"
          => event'.status \in Final
    <3> SUFFICES ASSUME event.status \in Final PROVE event'.status \in Final
      BY <1>1 DEF RowsSound
    <3>1. r.seen.status \notin Final
      BY <1>2, <1>6 DEF WriterKnown
    <3> QED
      BY <1>6, <3>1
  <2>3. \A q \in Procs : proc'[q].pc \in {"send", "link"} => proc'[q].seen.signups = event'.signups
    BY <1>1, <1>4, <1>5, <1>7, <1>11 DEF RowsSound, Continues
  <2> QED
    BY <1>1, <1>2, <1>11, <2>1, <2>2, <2>3, SchedulerIsProc DEF RowsSound
<1>13. CloserWatched'
  <2> SUFFICES ASSUME NeedsCloser', ~Arming(h)'
               PROVE  CloserIsDue' /\ ~Settling'
    BY DEF CloserWatched
  <2>1. o \notin {"close", "click", "cancel", "reopen"}
    BY <1>3, <1>4, <1>5, <1>7, <1>8, <1>9 DEF NeedsCloser, Arming, Continues, Final
  <2>2. ~Publishing(h)' /\ ~Unlocking(h)' /\ \A q \in Procs : Publishing(q)' => Publishing(q)
    BY <1>4, <1>5, <1>11, <2>1 DEF Publishing, Unlocking, Continues
  <2>3. ~(\E i \in Handlers : Unlocking(i)')
    BY <2>2 DEF Alone
  <2>4. CASE o = "hold"
    <3>1. NeedsCloser
      <4>1. CASE r.next = event.status
        BY <1>2, <1>7, <2>2, <2>3, <2>4, <4>1 DEF NeedsCloser
      <4>2. CASE event.status = "closed" /\ r.next = "scheduled"
        <5>1. Unlocking(h)
          BY <1>2, <2>4, <4>2 DEF Unlocking
        <5>2. \A q \in Procs : Publishing(q)' => q = Scheduler /\ Publishing(Scheduler)
          BY <2>2, SchedulerIsProc DEF Alone, Procs
        <5> QED
          BY <1>2, <1>7, <2>2, <2>3, <2>4, <4>2, <5>1, <5>2 DEF NeedsCloser, Final
      <4> QED
        BY <1>9, <2>4, <4>1, <4>2
    <3>2. \A i \in Handlers : ~Arming(i)
      BY <1>2 DEF Arming, Alone
    <3> QED
      BY <1>1, <1>2, <1>7, <1>11, <2>4, <3>1, <3>2, SchedulerIsProc
         DEF CloserWatched, CloserIsDue, Settling
  <2>5. CASE o = "move"
    <3>1. r.next \notin {"open", "scheduled"}
      BY <1>4, <1>5, <2>5 DEF Arming, Continues
    <3>2. event'.signups /\ ~event'.published /\ event'.status \notin Final /\ event'.closes > now
      BY <1>2, <1>7, <2>3, <3>1 DEF NeedsCloser
    <3>3. event'.status = "closed"
      BY <1>7, <3>1, <3>2, WrittenFits, <1>2 DEF Event, Status, Final
    <3>4. Move(r.seen, r.to).closes <= now
      BY <1>6, <1>7, <1>9, <2>5, <3>2, <3>3
    <3>5. now \in Int /\ event'.closes \in Int
      BY <1>2, WrittenFits, BoundsAssumption DEF TypeOK, Times, Event
    <3> QED
      BY <1>7, <2>5, <3>2, <3>4, <3>5
  <2> QED
    BY <1>3, <2>1, <2>4, <2>5
<1> QED
  BY <1>10, <1>12, <1>13, CommandAlone

\* An UPDATE that finds another status leaves everything as it is.
LEMMA WriteRefusedPasses ==
  ASSUME TypeOK, Closers, faults = 0, NEW h \in Handlers, Write(h), ~WriteApplies(h)
  PROVE  Closers'
<1>1. h \in Procs /\ h # Scheduler
  BY SchedulerIsProc, HandlersAssumption
<1>2. proc[h].pc = "write" /\ UNCHANGED <<now, event, faults>> /\ Closer' = Closer
      /\ Steps(h, "refresh", proc[h].op = "click")
  BY DEF Write, Clock, Closer
<1>3. /\ Others(h)
      /\ \/ proc[h].op = "click" /\ Continues(h, "refresh")
         \/ proc'[h].pc = "idle" /\ proc'[h].op = "none"
  BY <1>1, <1>2, StepsGoes DEF Returns
<1>4. Passing(h)
  BY <1>1, <1>2, <1>3 DEF Passing, Continues
<1> QED
  BY <1>1, <1>4, PassingKeeps

\* The command sets the row, or retires it once the event is closed.
LEMMA RowsCloses ==
  ASSUME TypeOK, Closers, faults = 0, Alone, NEW h \in Handlers, Rows(h) \/ Retire(h)
  PROVE  Closers'
<1> DEFINE r == proc[h]
<1>1. RowsSound /\ CloserWatched /\ CommandSound(h) /\ h \in Procs /\ h # Scheduler
  BY SchedulerIsProc, HandlersAssumption DEF Closers
<1>2. r.pc \in {"rows", "retire"} /\ UNCHANGED <<now, event, faults>>
  BY DEF Rows, Retire, Clock, At
<1>3. /\ Others(h)
      /\ \/ proc'[h].pc = "idle" /\ proc'[h].op = "none"
         \/ Continues(h, "refresh") /\ (r.pc = "retire" => r.op # "close")
  <2>1. PICK more \in BOOLEAN :
          Steps(h, "refresh", more) /\ (more /\ r.pc = "retire" => r.op # "close")
    <3>1. CASE Rows(h)
      BY <1>1, <3>1 DEF Rows, TypeOK, Process, Event
    <3>2. CASE Retire(h)
      BY <3>2 DEF Retire, At
    <3> QED
      BY <3>1, <3>2
  <2> QED
    BY <1>1, <2>1, StepsGoes DEF Returns
<1>4. CommandSound(h)'
  BY <1>1, <1>2, <1>3 DEF CommandSound, WriteSound, Continues
<1>5. \A q \in Procs \ {h} : proc'[q] = proc[q]
  BY <1>3 DEF Others
<1>6. ~Arming(h)' /\ ~Unlocking(h)' /\ ~Publishing(h)'
  BY <1>3 DEF Arming, Unlocking, Publishing, Continues
<1>7. NeedsCloser' => NeedsCloser
  BY <1>2, <1>5, <1>6 DEF NeedsCloser, Publishing, Alone
<1>8. Closer'.status = "processing" => Closer' = Closer
  <2>1. /\ Armed(r.to).status # "processing" /\ Armed(Move(r.seen, r.to).closes).status # "processing"
        /\ Retired("close_attendance", "cancelled").status # "processing"
        /\ Retired("close_attendance", "completed").status # "processing"
    BY CloserIsRow DEF Armed, Retired, Closer, Row, Live
  <2>2. \/ Closer' = Closer
        \/ Closer' = Armed(r.to) \/ Closer' = Armed(Move(r.seen, r.to).closes)
        \/ Closer' = Retired("close_attendance", "cancelled")
        \/ Closer' = Retired("close_attendance", "completed")
    BY CloserIsRow DEF Rows, Retire, Repaired, Moved, MovedRows, Closer, Kinds, TypeOK
  <2> QED
    BY <2>1, <2>2
<1>9. RowsSound'
  BY <1>1, <1>2, <1>5, <1>6, <1>8, <1>3, SchedulerIsProc DEF RowsSound, Continues
<1>10. CloserWatched'
  <2> SUFFICES ASSUME NeedsCloser, event.signups PROVE CloserIsDue' /\ ~Settling'
    BY <1>7 DEF CloserWatched, NeedsCloser
  <2>1. CASE Closer' = Closer /\ ~Arming(h)
    <3>1. CloserIsDue /\ ~Settling
      BY <1>1, <2>1 DEF CloserWatched, Alone
    <3> QED
      BY <1>1, <1>2, <1>5, <2>1, <3>1, SchedulerIsProc DEF CloserIsDue, Settling
  <2>2. CASE Closer' = Armed(event.closes)
    BY <1>2, <2>2 DEF CloserIsDue, Settling, Armed, Live
  <2>3. CASE Rows(h)
    <3>1. r.pc = "rows" /\ row' = Repaired(h)
      BY <2>3 DEF Rows
    <3>2. r.op \in {"reopen", "cancel", "move", "hold"}
          /\ (r.op = "reopen" => event.closes = r.to)
          /\ (r.op = "cancel" => event.status \in Final)
          /\ (r.op = "move" => event.closes = Move(r.seen, r.to).closes
                                 /\ r.seen.signups = event.signups)
      BY <1>1, <3>1 DEF CommandSound
    <3>3. r.op # "cancel"
      BY <3>2 DEF NeedsCloser, Final
    <3>4. CASE r.op = "reopen"
      <4>1. Closer' = Armed(r.to)
        BY <3>1, <3>4, CloserIsRow DEF Repaired, Closer, TypeOK
      <4> QED
        BY <2>2, <3>2, <3>4, <4>1
    <3>5. CASE r.op = "hold"
      <4>1. Closer' = Closer
        BY <3>1, <3>5, CloserIsRow DEF Repaired, Closer, TypeOK
      <4> QED
        BY <2>1, <3>5, <4>1 DEF Arming
    <3>6. CASE r.op = "move"
      <4>1. Closer' = IF r.seen.signups /\ r.next \in {"open", "scheduled"}
                      THEN Armed(Move(r.seen, r.to).closes) ELSE Closer
        BY <3>1, <3>6, CloserIsRow DEF Repaired, Moved, MovedRows, Closer
      <4> QED
        BY <2>1, <2>2, <3>2, <3>6, <4>1 DEF Arming
    <3> QED
      BY <3>2, <3>3, <3>4, <3>5, <3>6
  <2>4. CASE Retire(h)
    <3>1. event.published /\ event.status # "open"
      BY <1>1, <2>4 DEF Retire, At, CommandSound
    <3> QED
      BY <3>1 DEF NeedsCloser
  <2> QED
    BY <2>3, <2>4
<1> QED
  BY <1>4, <1>9, <1>10, CommandAlone

-----------------------------------------------------------------------------

LEMMA InitClosers == Init => Closers
<1> SUFFICES ASSUME Init PROVE Closers
  OBVIOUS
<1>1. \A p \in Procs : proc[p] = IdleProcess
  BY DEF Init
<1>2. Closer = IF event.signups THEN Armed(event.closes) ELSE NoRow
  BY DEF Init, Closer, Kinds
<1>3. \A p \in Procs : proc[p].pc = "idle" /\ proc[p].op = "none"
  BY <1>1 DEF IdleProcess
<1>4. event.status = "scheduled"
  BY DEF Init
<1>5. RowsSound
  BY <1>2, <1>3, <1>4, SchedulerIsProc DEF RowsSound, Armed, NoRow
<1>6. \A h \in Handlers : CommandSound(h)
  BY <1>3, SchedulerIsProc DEF CommandSound, WriteSound
<1>7. CloserWatched
  BY <1>2, <1>3, SchedulerIsProc
     DEF CloserWatched, NeedsCloser, CloserIsDue, Settling, Armed, Live
<1> QED
  BY <1>5, <1>6, <1>7 DEF Closers

LEMMA NextClosers ==
  ASSUME Alone, "refresh" \notin Ops, IInv, Closers, [Next]_vars
  PROVE  Closers'
<1>1. TypeOK /\ WriterKnown /\ faults \in Nat
  BY DEF IInv, TypeOK
<1>2. CASE faults # 0
  <2>1. faults' # 0
    <3>1. faults' = faults \/ faults' = faults + 1
      BY FaultsCount DEF vars
    <3> QED
      BY <1>1, <1>2, <3>1
  <2> QED
    BY <2>1 DEF Closers
<1>3. CASE faults' # 0
  BY <1>3 DEF Closers
<1>4. CASE UNCHANGED vars
  BY <1>4 DEF vars, Closers, RowsSound, CloserWatched, CommandSound, WriteSound, NeedsCloser,
       CloserIsDue, Settling, Arming, Publishing, Unlocking, Closer, Final
<1>5. CASE Next /\ faults = 0 /\ faults' = 0
  <2>1. CASE Tick
    BY <1>1, <1>5, <2>1, TickCloses
  <2>2. CASE DeleteMessage \/ \E p \in Procs : Lost(p)
    BY <1>5, <2>2 DEF DeleteMessage, Lost
  <2>3. CASE Schedules
    BY <1>1, <1>5, <2>3, LoadCloses, CloseWriteCloses, CompleteCloses, RowCloses DEF Schedules
  <2>4. ASSUME NEW p \in Procs, Works(p) PROVE Closers'
    <3>1. CASE PublishRead(p) \/ PublishSend(p) \/ PublishLink(p) \/ PublishUnschedule(p)
      BY <1>1, <1>5, <3>1, PublishingPasses, PublishReadCloses, PublishLinkCloses
    <3>2. CASE RefreshRead(p) \/ RefreshEdit(p) \/ RefreshSwap(p)
      BY <1>1, <1>5, <3>2, RefreshPasses
    <3>3. CASE Write(p)
      <4>1. p \in Handlers
        BY <3>3 DEF Write
      <4> QED
        BY <1>1, <1>5, <3>3, <4>1, WriteCloses, WriteRefusedPasses
    <3>4. CASE Rows(p) \/ Retire(p)
      <4>1. p \in Handlers
        <5>1. p = Scheduler => ~Retire(p)
          BY <1>5 DEF Closers, RowsSound, Retire, At, Kinds
        <5> QED
          BY <3>4, <5>1 DEF Rows, Procs
      <4> QED
        BY <1>1, <1>5, <3>4, <4>1, RowsCloses
    <3> QED
      BY <2>4, <3>1, <3>2, <3>3, <3>4 DEF Works
  <2>5. ASSUME NEW h \in Handlers, NEW op \in Ops, Command(h, op) PROVE Closers'
    BY <1>1, <1>5, <2>5, CommandCloses
  <2> QED
    BY <1>5, <2>1, <2>2, <2>3, <2>4, <2>5 DEF Next
<1> QED
  BY <1>1, <1>2, <1>3, <1>4, <1>5

\* An event open for attendance is going to close: with one command at a time,
\* whatever it is but /event refresh, the close action is live and due at the
\* stored deadline when the command is done.  Every writer of the deadline arms
\* the row afterwards, and an executor that completes it has closed the event.
THEOREM OpenCloses ==
  ASSUME "refresh" \notin Ops
  PROVE  Spec => []OpenHasCloser
<1>1. CASE Cardinality(Handlers) = 1
  <2>1. Alone
    <3>1. IsFiniteSet(Handlers)
      BY HandlersAssumption
    <3>2. PICK h : Handlers = {h}
      BY <1>1, <3>1, FS_Singleton
    <3> QED
      BY <3>2 DEF Alone
  <2>2. Closers => OpenHasCloser
    <3> SUFFICES ASSUME Closers, faults = 0, event.status = "open",
                        \A h \in Handlers : proc[h].pc = "idle"
                 PROVE  CloserIsDue
      BY DEF OpenHasCloser, CloserIsDue, Closer
    <3>1. NeedsCloser /\ \A h \in Handlers : ~Arming(h)
      BY DEF Closers, RowsSound, NeedsCloser, Arming
    <3> QED
      BY <3>1 DEF Closers, CloserWatched
  <2>3. IInv /\ Closers /\ [Next]_vars => Closers'
    BY <2>1, NextClosers
  <2> QED
    BY InitOK, InitClosers, Inductive, <2>2, <2>3, PTL DEF Spec
<1>2. CASE Cardinality(Handlers) # 1
  <2>1. OpenHasCloser
    BY <1>2 DEF OpenHasCloser
  <2> QED
    BY <2>1, PTL
<1> QED
  BY <1>1, <1>2

-----------------------------------------------------------------------------
(* An event that has not ended is going to: every process that is about to *)
(* give up the completion action has ended the event.                      *)

Completer == row["complete_event"]

\* What a process with this local state has decided about the end of the event.
Decided(r) ==
  /\ r.op = "complete_event" /\ r.pc \notin {"start", "write"} => event.status \in Final
  /\ r.op = "cancel" /\ r.pc = "write" => r.next \in Final
  /\ r.op = "cancel" /\ r.pc = "rows" => event.status \in Final

EndsSound ==
  /\ event.status \notin Final => Completer.status \in Live
  /\ \A p \in Procs : Decided(proc[p])

\* A process goes on, and if it runs the completion the event has ended.
Proceeds(p) ==
  /\ proc'[p].op = proc[p].op /\ proc'[p].pc \notin {"write", "rows"}
  /\ proc[p].op = "complete_event" /\ proc[p].pc \in {"start", "write"}
       => event'.status \in Final
Leaves(p) == proc'[p] = IdleProcess
FinalKept == event.status \in Final => event'.status \in Final

LEMMA CompleterIsRow ==
  ASSUME TypeOK PROVE Completer \in Row /\ "complete_event" \in Kinds
BY DEF TypeOK, Completer, Kinds

LEMMA ProceedsDecides ==
  ASSUME NEW p \in Procs, Decided(proc[p]), FinalKept, Proceeds(p) \/ Leaves(p)
  PROVE  Decided(proc[p])'
BY DEF Decided, FinalKept, Proceeds, Leaves, IdleProcess

\* A step of p keeps what the others have decided.
LEMMA StepDecides ==
  ASSUME EndsSound, FinalKept, NEW p \in Procs, Others(p), Decided(proc[p])',
         event'.status \notin Final => Completer'.status \in Live
  PROVE  EndsSound'
<1>1. \A q \in Procs \ {p} : Decided(proc[q])'
  BY DEF EndsSound, Decided, FinalKept, Others
<1> QED
  BY <1>1 DEF EndsSound

LEMMA QuietDecides ==
  ASSUME EndsSound, FinalKept, NEW p \in Procs, Others(p), Proceeds(p) \/ Leaves(p),
         Completer'.status = Completer.status \/ Completer'.status \in Live
  PROVE  EndsSound'
<1>1. Decided(proc[p])'
  BY ProceedsDecides DEF EndsSound
<1>2. event'.status \notin Final => Completer'.status \in Live
  BY DEF EndsSound, FinalKept
<1> QED
  BY <1>1, <1>2, StepDecides

LEMMA SeesGoes ==
  ASSUME TypeOK, NEW p \in Procs, NEW pc, Sees(p, pc)
  PROVE  Others(p) /\ proc'[p].pc = pc /\ proc'[p].op = proc[p].op
BY DEF TypeOK, Sees, Others, Process

LEMMA StepsSplit ==
  ASSUME NEW p, NEW pc, NEW more, Steps(p, pc, more)
  PROVE  Goto(p, pc) \/ End(p)
BY DEF Steps

LEMMA GotoProceeds ==
  ASSUME TypeOK, NEW p \in Procs, NEW pc, pc \notin {"write", "rows"},
         proc[p].op = "complete_event" /\ proc[p].pc \in {"start", "write"}
           => event'.status \in Final,
         Goto(p, pc) \/ Sees(p, pc) \/ End(p)
  PROVE  Others(p) /\ (Proceeds(p) \/ Leaves(p))
<1>1. CASE Goto(p, pc)
  BY <1>1, GotoGoes DEF Proceeds, Continues
<1>2. CASE Sees(p, pc)
  BY <1>2, SeesGoes DEF Proceeds
<1>3. CASE End(p)
  <2>1. CASE p = Scheduler
    BY <1>3, <2>1, EndGoes DEF Proceeds, Returns, Continues, IdleProcess
  <2>2. CASE p # Scheduler
    BY <1>3, <2>2, EndGoes DEF Leaves, End, Ended, TypeOK
  <2> QED
    BY <2>1, <2>2
<1> QED
  BY <1>1, <1>2, <1>3

LEMMA PublishingEnds ==
  ASSUME TypeOK, EndsSound, FinalKept, NEW p \in Procs,
         PublishRead(p) \/ PublishSend(p) \/ PublishLink(p) \/ PublishUnschedule(p)
  PROVE  EndsSound'
<1>1. proc[p].op \in {"publish", "publish_event"}
  BY DEF PublishRead, PublishSend, PublishLink, PublishUnschedule, At
<1>2. \/ End(p) \/ Sees(p, "send") \/ Goto(p, "link")
      \/ Goto(p, "unschedule")
  BY StepsSplit DEF PublishRead, PublishSend, PublishLink, PublishUnschedule
<1>3. Others(p) /\ (Proceeds(p) \/ Leaves(p))
  BY <1>1, <1>2, GotoProceeds
<1>4. Completer' = Completer
  BY DEF PublishRead, PublishSend, PublishLink, PublishUnschedule, Completer, TypeOK, Kinds
<1> QED
  BY <1>3, <1>4, QuietDecides

LEMMA RefreshEnds ==
  ASSUME TypeOK, EndsSound, FinalKept, NEW p \in Procs,
         RefreshRead(p) \/ RefreshEdit(p) \/ RefreshSwap(p)
  PROVE  EndsSound'
<1>1. proc[p].pc \in {"refresh", "edit", "swap"} /\ UNCHANGED <<event, row>>
  BY DEF RefreshRead, RefreshEdit, RefreshSwap
<1>2. Others(p) /\ (Proceeds(p) \/ Leaves(p))
  <2>1. CASE RefreshRead(p) /\ link # 0
    BY <2>1 DEF RefreshRead, TypeOK, Process, Others, Proceeds
  <2>2. CASE RefreshRead(p) /\ link = 0
    BY <1>1, <2>2, GotoProceeds DEF RefreshRead
  <2>3. CASE RefreshEdit(p) \/ RefreshSwap(p)
    <3>1. End(p) \/ Goto(p, "swap") \/ Goto(p, "retire")
      BY <2>3, StepsSplit DEF RefreshEdit, RefreshSwap, AfterRefresh
    <3> QED
      BY <1>1, <3>1, GotoProceeds
  <2> QED
    BY <2>1, <2>2, <2>3
<1>3. Completer' = Completer
  BY <1>1 DEF Completer
<1> QED
  BY <1>2, <1>3, QuietDecides

LEMMA ScheduleEnds ==
  ASSUME TypeOK, EndsSound, FinalKept, Schedules
  PROVE  EndsSound'
<1> USE SchedulerIsProc
<1>1. CASE \E k \in Kinds : Claim(k)
  <2>1. PICK k \in Kinds : Claim(k)
    BY <1>1
  <2>2. Others(Scheduler) /\ proc'[Scheduler].op = k /\ proc'[Scheduler].pc = "start"
    BY <2>1 DEF Claim, TypeOK, Process, Others
  <2>3. Decided(proc[Scheduler])'
    BY <2>2 DEF Decided, Kinds
  <2>4. event' = event /\ (Completer.status \in Live => Completer'.status \in Live)
    BY <2>1, CompleterIsRow DEF Claim, TypeOK, Row, Completer, Live
  <2> QED
    BY <2>2, <2>3, <2>4, StepDecides DEF EndsSound
<1>2. CASE CloseLoad \/ CloseWrite
  <2>1. proc[Scheduler].op = "close_attendance" /\ Completer' = Completer
    BY <1>2 DEF CloseLoad, CloseWrite, At, Completer
  <2>2. CASE Sees(Scheduler, "write")
    <3>1. Others(Scheduler) /\ proc'[Scheduler].op = "close_attendance"
      BY <2>1, <2>2, SeesGoes
    <3>2. Decided(proc[Scheduler])'
      BY <3>1 DEF Decided
    <3> QED
      BY <2>1, <3>1, <3>2, StepDecides DEF EndsSound, FinalKept
  <2>3. \/ End(Scheduler) \/ Sees(Scheduler, "refresh") \/ Sees(Scheduler, "write")
        \/ Goto(Scheduler, "refresh")
    BY <1>2, StepsSplit DEF CloseLoad, CloseWrite
  <2>4. ~Sees(Scheduler, "write") => Others(Scheduler) /\ (Proceeds(Scheduler) \/ Leaves(Scheduler))
    BY <2>1, <2>3, GotoProceeds
  <2> QED
    BY <2>1, <2>2, <2>4, QuietDecides
<1>3. CASE CompleteLoad
  <2>1. proc[Scheduler].op = "complete_event" /\ UNCHANGED <<event, row>> /\ Completer' = Completer
    BY <1>3 DEF CompleteLoad, At, Completer
  <2>2. CASE Sees(Scheduler, "write")
    <3>1. Others(Scheduler) /\ proc'[Scheduler].op = "complete_event" /\ proc'[Scheduler].pc = "write"
      BY <2>1, <2>2, SeesGoes
    <3>2. Decided(proc[Scheduler])'
      BY <3>1 DEF Decided
    <3> QED
      BY <2>1, <3>1, <3>2, StepDecides DEF EndsSound
  <2>3. CASE event.status \in Final
    <3>1. End(Scheduler) \/ Sees(Scheduler, "retire")
      BY <1>3, <2>3 DEF CompleteLoad, Final
    <3>2. Others(Scheduler) /\ (Proceeds(Scheduler) \/ Leaves(Scheduler))
      BY <2>1, <2>3, <3>1, GotoProceeds
    <3> QED
      BY <2>1, <3>2, QuietDecides
  <2> QED
    BY <1>3, <2>2, <2>3 DEF CompleteLoad, Final
<1>4. CASE CompleteWrite
  <2>1. event'.status \in Final
    <3>1. CASE CanComplete
      BY <1>4, <3>1 DEF CompleteWrite, TypeOK, Event, Final
    <3>2. CASE ~CanComplete
      BY <1>4, <3>2 DEF CompleteWrite, CanComplete, TypeOK, Event, Status, Final
    <3> QED
      BY <3>1, <3>2
  <2>2. Goto(Scheduler, "retire") \/ End(Scheduler)
    BY <1>4 DEF CompleteWrite
  <2>3. Others(Scheduler) /\ (Proceeds(Scheduler) \/ Leaves(Scheduler))
    BY <2>1, <2>2, GotoProceeds
  <2>4. Completer' = Completer
    BY <1>4 DEF CompleteWrite, Completer
  <2> QED
    BY <2>3, <2>4, QuietDecides
<1>5. CASE CompleteRetire
  <2>1. proc[Scheduler].pc = "retire" /\ Completer' = Completer
    BY <1>5, CompleterIsRow DEF CompleteRetire, At, Completer
  <2>2. Goto(Scheduler, "refresh") \/ End(Scheduler)
    BY <1>5, StepsSplit DEF CompleteRetire
  <2>3. Others(Scheduler) /\ (Proceeds(Scheduler) \/ Leaves(Scheduler))
    BY <2>1, <2>2, GotoProceeds
  <2> QED
    BY <2>1, <2>3, QuietDecides
<1>6. CASE MarkActionCompleted
  <2>1. Others(Scheduler) /\ Leaves(Scheduler) /\ proc[Scheduler].pc = "done" /\ event' = event
    BY <1>6 DEF MarkActionCompleted, TypeOK, Others, Leaves
  <2>2. Decided(proc[Scheduler])'
    BY <2>1, ProceedsDecides DEF EndsSound
  <2>3. CASE proc[Scheduler].op = "complete_event"
    <3>1. event.status \in Final
      BY <2>1, <2>3 DEF EndsSound, Decided
    <3> QED
      BY <2>1, <2>2, <3>1, StepDecides
  <2>4. CASE proc[Scheduler].op # "complete_event"
    <3>1. Completer' = Completer
      BY <1>6, <2>4, CompleterIsRow DEF MarkActionCompleted, Completer, TypeOK
    <3> QED
      BY <2>1, <3>1, QuietDecides
  <2> QED
    BY <2>3, <2>4
<1> QED
  BY <1>1, <1>2, <1>3, <1>4, <1>5, <1>6 DEF Schedules

LEMMA CommandEnds ==
  ASSUME TypeOK, EndsSound, NEW h \in Handlers, NEW op \in Ops, Command(h, op)
  PROVE  EndsSound'
<1>1. UNCHANGED <<event, row>>
  BY DEF Command
<1>2. PICK to : proc' = [proc EXCEPT ![h] =
                     [op |-> op, pc |-> FirstStep(op), to |-> to, msg |-> 0,
                      next |-> NextStatus(op, to), seen |-> event]]
  BY DEF Command
<1>3. /\ Others(h) /\ proc'[h].op = op /\ proc'[h].pc = FirstStep(op)
      /\ proc'[h].next = NextStatus(op, to)
  BY <1>2, SchedulerIsProc DEF TypeOK, Others
<1>4. op # "complete_event" /\ FirstStep(op) # "rows"
  BY OpsAssumption DEF AllOps, FirstStep
<1>5. op = "cancel" => NextStatus(op, to) \in Final
  BY DEF NextStatus, Final
<1>6. Decided(proc[h])'
  BY <1>3, <1>4, <1>5 DEF Decided
<1> QED
  BY <1>1, <1>3, <1>6, SchedulerIsProc, StepDecides DEF EndsSound, FinalKept, Completer

LEMMA HandlerEnds ==
  ASSUME TypeOK, WriterKnown, EndsSound, FinalKept, NEW h \in Handlers,
         Write(h) \/ Rows(h) \/ Retire(h)
  PROVE  EndsSound'
<1> USE SchedulerIsProc
<1>1. CASE Write(h) /\ WriteApplies(h)
  <2>1. /\ proc[h].pc = "write" /\ event' = Written(h) /\ Completer' = Completer
        /\ Goto(h, AfterWrite[proc[h].op]) /\ proc[h].op \in DOMAIN AfterWrite
    BY <1>1 DEF Write, WriterKnown, Completer
  <2>2. /\ Others(h) /\ proc'[h].op = proc[h].op /\ proc'[h].next = proc[h].next
        /\ proc'[h].pc = AfterWrite[proc[h].op]
    BY <2>1, GotoGoes DEF Continues
  <2>3. proc'[h].op # "complete_event" /\ proc'[h].pc # "write"
    BY <2>1, <2>2 DEF AfterWrite
  <2>4. proc[h].op = "cancel" => event'.status \in Final
    <3>1. proc[h].op = "cancel" => event' = [event EXCEPT !.status = proc[h].next]
      BY <2>1 DEF Written
    <3> QED
      BY <2>1, <3>1 DEF EndsSound, Decided, TypeOK, Event
  <2>5. Decided(proc[h])'
    BY <2>2, <2>3, <2>4 DEF Decided
  <2> QED
    BY <2>1, <2>2, <2>5, StepDecides DEF EndsSound, FinalKept
<1>2. CASE Write(h) /\ ~WriteApplies(h)
  <2>1. /\ proc[h].op \in DOMAIN AfterWrite
        /\ Goto(h, "refresh") \/ End(h)
        /\ Completer' = Completer
    BY <1>2, StepsSplit DEF Write, WriterKnown, Completer
  <2>2. proc[h].op # "complete_event"
    BY <2>1 DEF AfterWrite
  <2>3. Others(h) /\ (Proceeds(h) \/ Leaves(h))
    BY <2>1, <2>2, GotoProceeds
  <2> QED
    BY <2>1, <2>3, QuietDecides
<1>3. CASE Retire(h)
  <2>1. proc[h].op # "complete_event" /\ (Goto(h, "refresh") \/ End(h))
    BY <1>3, StepsSplit DEF Retire, At
  <2>2. Others(h) /\ (Proceeds(h) \/ Leaves(h))
    BY <2>1, GotoProceeds
  <2>3. Completer' = Completer
    BY <1>3 DEF Retire, Completer, TypeOK, Kinds
  <2> QED
    BY <2>2, <2>3, QuietDecides
<1>4. CASE Rows(h)
  <2>1. /\ proc[h].pc = "rows" /\ event' = event /\ row' = Repaired(h)
        /\ Goto(h, "refresh") \/ End(h)
    BY <1>4, StepsSplit DEF Rows
  <2>2. Others(h) /\ (Proceeds(h) \/ Leaves(h))
    BY <2>1, GotoProceeds
  <2>3. CASE proc[h].op = "cancel"
    <3>1. event.status \in Final
      BY <2>1, <2>3 DEF EndsSound, Decided
    <3>2. Decided(proc[h])'
      BY <2>2, ProceedsDecides DEF EndsSound
    <3> QED
      BY <2>1, <2>2, <3>1, <3>2, StepDecides
  <2>4. CASE proc[h].op # "cancel"
    <3>1. Completer' = Completer \/ Completer'.status = "pending"
      BY <2>1, <2>4, CompleterIsRow DEF Repaired, Moved, MovedRows, Armed, Completer, TypeOK, Kinds
    <3> QED
      BY <2>2, <3>1, QuietDecides DEF Live
  <2> QED
    BY <2>3, <2>4
<1> QED
  BY <1>1, <1>2, <1>3, <1>4 DEF Write

LEMMA LostEnds ==
  ASSUME TypeOK, EndsSound, NEW p \in Procs, Lost(p)
  PROVE  EndsSound'
<1>1. event' = event /\ Others(p) /\ Leaves(p)
  BY DEF Lost, TypeOK, Others, Leaves
<1>2. Completer' = Completer \/ Completer'.status = "pending"
  BY CompleterIsRow DEF Lost, TypeOK, Row, Completer
<1> QED
  BY <1>1, <1>2, QuietDecides DEF FinalKept, Live

LEMMA NextEnds ==
  ASSUME "refresh" \notin Ops, IInv, EndsSound, [Next]_vars
  PROVE  EndsSound'
<1>1. TypeOK /\ WriterKnown
  BY DEF IInv
<1>2. CASE UNCHANGED <<event, row, proc>>
  BY <1>2 DEF EndsSound, Decided, Completer
<1>3. CASE Next
  <2>1. FinalKept
    BY <1>3, FinalStays DEF FinalKept
  <2>2. CASE Tick \/ DeleteMessage
    BY <1>2, <2>2 DEF Tick, DeleteMessage
  <2>3. ASSUME NEW p \in Procs, Works(p) PROVE EndsSound'
    <3>1. CASE Retire(p) /\ p = Scheduler
      <4>1. proc[p].op # "complete_event" /\ (Goto(p, "refresh") \/ End(p))
        BY <3>1, StepsSplit DEF Retire, At
      <4>2. Others(p) /\ (Proceeds(p) \/ Leaves(p))
        BY <1>1, <4>1, GotoProceeds
      <4>3. Completer' = Completer
        BY <1>1, <3>1 DEF Retire, Completer, TypeOK, Kinds
      <4> QED
        BY <1>1, <2>1, <4>2, <4>3, QuietDecides
    <3>2. CASE Write(p) \/ Rows(p) \/ Retire(p)
      BY <1>1, <2>1, <3>1, <3>2, HandlerEnds DEF Write, Rows, Procs
    <3> QED
      BY <1>1, <2>1, <2>3, <3>2, PublishingEnds, RefreshEnds DEF Works
  <2> QED
    BY <1>1, <1>3, <2>1, <2>2, <2>3, ScheduleEnds, CommandEnds, LostEnds DEF Next
<1> QED
  BY <1>2, <1>3 DEF vars

-----------------------------------------------------------------------------
(* The completion action follows the start of the event, as long as one    *)
(* command at a time is under way and nothing is lost.                     *)

EndsOnTime ==
  faults = 0 =>
    /\ \/ Completer.due = EndsAt(event)
       \/ \E h \in Handlers : proc[h].pc = "rows" /\ proc[h].op = "move"
    /\ \A h \in Handlers :
         /\ proc[h].pc = "write" => proc[h].seen.starts = event.starts
         /\ proc[h].pc = "rows" /\ proc[h].op = "move" => event.starts = proc[h].to

\* A step of p that neither begins a command, nor writes one, nor sets its rows.
Bystands(p) ==
  /\ event'.starts = event.starts /\ Completer'.due = Completer.due /\ faults' = faults
  /\ Others(p)
  /\ p \in Handlers => proc[p].pc # "rows" /\ proc'[p].pc \notin {"write", "rows"}

LEMMA BystandsOnTime ==
  ASSUME EndsOnTime, NEW p \in Procs, Bystands(p)
  PROVE  EndsOnTime'
<1> SUFFICES ASSUME faults = 0 PROVE EndsOnTime'
  BY DEF EndsOnTime, Bystands
<1>1. \A h \in Handlers :
        proc'[h].pc \in {"write", "rows"} => proc'[h] = proc[h] /\ h # p
  BY SchedulerIsProc DEF Bystands, Others
<1>2. \A h \in Handlers : proc[h].pc = "rows" => proc'[h] = proc[h]
  BY SchedulerIsProc DEF Bystands, Others
<1>3. Completer'.due = EndsAt(event')
      \/ \E h \in Handlers : proc'[h].pc = "rows" /\ proc'[h].op = "move"
  BY <1>2 DEF EndsOnTime, Bystands, EndsAt
<1>4. \A h \in Handlers :
        /\ proc'[h].pc = "write" => proc'[h].seen.starts = event'.starts
        /\ proc'[h].pc = "rows" /\ proc'[h].op = "move" => event'.starts = proc'[h].to
  BY <1>1 DEF EndsOnTime, Bystands
<1> QED
  BY <1>3, <1>4 DEF EndsOnTime

LEMMA StepsLeave ==
  ASSUME TypeOK, NEW p \in Procs, NEW pc, pc \notin {"write", "rows"},
         Goto(p, pc) \/ Sees(p, pc) \/ End(p)
  PROVE  Others(p) /\ proc'[p].pc \notin {"write", "rows"}
<1>1. CASE End(p)
  BY <1>1, EndGoes DEF Returns, Continues
<1> QED
  BY <1>1, GotoGoes, SeesGoes DEF Continues

LEMMA WorldBystands ==
  ASSUME TypeOK, NEW p \in Procs,
         \/ PublishRead(p) \/ PublishSend(p) \/ PublishLink(p) \/ PublishUnschedule(p)
         \/ RefreshRead(p) \/ RefreshEdit(p) \/ RefreshSwap(p) \/ Retire(p)
         \/ Write(p) /\ ~WriteApplies(p)
         \/ p = Scheduler /\ Schedules
  PROVE  Bystands(p)
<1>1. event'.starts = event.starts /\ faults' = faults
  BY DEF PublishRead, PublishSend, PublishLink, PublishUnschedule, RefreshRead, RefreshEdit,
     RefreshSwap, Retire, Write, Schedules, Claim, CloseLoad, CloseWrite, CompleteLoad,
     CompleteWrite, CompleteRetire, MarkActionCompleted, Clock, TypeOK, Event
<1>2. Completer'.due = Completer.due
  <2>1. CASE Claim("complete_event") \/ MarkActionCompleted
    BY <2>1, CompleterIsRow DEF Claim, MarkActionCompleted, Completer, TypeOK, Row
  <2>2. CASE CompleteRetire \/ Retire(p) \/ PublishUnschedule(p)
    BY <2>2, CompleterIsRow DEF CompleteRetire, Retire, PublishUnschedule, Completer, TypeOK, Kinds
  <2>3. ASSUME NEW k \in Kinds, Claim(k), k # "complete_event" PROVE Completer' = Completer
    BY <2>3, CompleterIsRow DEF Claim, Completer, TypeOK
  <2>4. row' = row => Completer' = Completer
    BY DEF Completer
  <2> QED
    BY <2>1, <2>2, <2>3, <2>4
       DEF PublishRead, PublishSend, PublishLink, RefreshRead, RefreshEdit,
           RefreshSwap, Write, Schedules, CloseLoad, CloseWrite, CompleteLoad, CompleteWrite
<1>3. CASE p = Scheduler /\ Schedules
  <2>1. Others(Scheduler)
    <3>1. CASE \E k \in Kinds : Claim(k)
      BY <3>1, SchedulerIsProc DEF Claim, TypeOK, Others
    <3>2. CASE MarkActionCompleted
      BY <3>2, SchedulerIsProc DEF MarkActionCompleted, TypeOK, Others
    <3>3. CASE CloseLoad \/ CompleteLoad
      BY <3>3, SchedulerIsProc, SeesGoes, EndGoes DEF CloseLoad, CompleteLoad
    <3>4. CASE CloseWrite \/ CompleteWrite \/ CompleteRetire
      BY <3>4, SchedulerIsProc, GotoGoes, StepsGoes, EndGoes
         DEF CloseWrite, CompleteWrite, CompleteRetire
    <3> QED
      BY <1>3, <3>1, <3>2, <3>3, <3>4 DEF Schedules
  <2> QED
    BY <1>1, <1>2, <1>3, <2>1, HandlersAssumption DEF Bystands
<1>4. CASE PublishRead(p) \/ PublishSend(p) \/ PublishLink(p) \/ PublishUnschedule(p)
  <2>1. \/ End(p) \/ Sees(p, "send") \/ Goto(p, "link")
        \/ Goto(p, "unschedule")
    BY <1>4, StepsSplit DEF PublishRead, PublishSend, PublishLink, PublishUnschedule
  <2>2. Others(p) /\ proc'[p].pc \notin {"write", "rows"}
    BY <2>1, StepsLeave
  <2>3. proc[p].pc # "rows"
    BY <1>4 DEF PublishRead, PublishSend, PublishLink, PublishUnschedule, At
  <2> QED
    BY <1>1, <1>2, <2>2, <2>3 DEF Bystands
<1>5. CASE RefreshRead(p) /\ link # 0
  <2>1. Others(p) /\ proc'[p].pc = "edit" /\ proc[p].pc # "rows"
    BY <1>5 DEF RefreshRead, TypeOK, Process, Others
  <2> QED
    BY <1>1, <1>2, <2>1 DEF Bystands
<1>6. CASE \/ RefreshRead(p) /\ link = 0
           \/ RefreshEdit(p) \/ RefreshSwap(p) \/ Retire(p)
           \/ Write(p) /\ ~WriteApplies(p)
  <2>1. End(p) \/ Goto(p, "swap") \/ Goto(p, "retire") \/ Goto(p, "refresh")
    BY <1>6, StepsSplit DEF RefreshRead, RefreshEdit, RefreshSwap, AfterRefresh, Retire, Write
  <2>2. Others(p) /\ proc'[p].pc \notin {"write", "rows"}
    BY <2>1, StepsLeave
  <2>3. proc[p].pc # "rows"
    BY <1>6 DEF RefreshRead, RefreshEdit, RefreshSwap, Retire, Write, At
  <2> QED
    BY <1>1, <1>2, <2>2, <2>3 DEF Bystands
<1> QED
  BY <1>3, <1>4, <1>5, <1>6

LEMMA HandlerOnTime ==
  ASSUME TypeOK, WriterKnown, EndsOnTime, Alone, faults = 0, NEW h \in Handlers,
         \/ Write(h) /\ WriteApplies(h)
         \/ Rows(h)
         \/ \E op \in Ops : Command(h, op)
  PROVE  EndsOnTime'
<1> DEFINE r == proc[h]
<1> USE SchedulerIsProc
<1>1. \A i \in Handlers : i = h
  BY DEF Alone
<1>2. /\ r \in Process /\ r.seen \in Event /\ event \in Event
      /\ r.to \in Times
  BY DEF TypeOK, Process
<1>3. CASE Write(h) /\ WriteApplies(h)
  <2>1. /\ r.pc = "write" /\ event' = Written(h) /\ Completer' = Completer
        /\ Goto(h, AfterWrite[r.op]) /\ r.op \in DOMAIN AfterWrite
    BY <1>3 DEF Write, WriterKnown, Completer
  <2>2. Completer.due = EndsAt(event) /\ r.seen.starts = event.starts
    BY <1>1, <2>1 DEF EndsOnTime
  <2>3. /\ proc'[h].op = r.op /\ proc'[h].to = r.to /\ proc'[h].pc = AfterWrite[r.op]
    BY <2>1, GotoGoes DEF Continues
  <2>4. CASE r.op = "move"
    <3>1. event'.starts = r.to
      BY <1>2, <2>1, <2>4 DEF Written, Move, Event
    <3>2. proc'[h].pc = "rows"
      BY <2>3, <2>4 DEF AfterWrite
    <3> QED
      BY <1>1, <2>3, <2>4, <3>1, <3>2 DEF EndsOnTime
  <2>5. CASE r.op # "move"
    <3>1. event'.starts = event.starts
      BY <1>2, <2>1, <2>2, <2>5 DEF Written, Event
    <3>2. proc'[h].pc # "write" /\ proc'[h].op # "move"
      BY <2>1, <2>3, <2>5 DEF AfterWrite
    <3> QED
      BY <1>1, <2>1, <2>2, <3>1, <3>2 DEF EndsOnTime, EndsAt
  <2> QED
    BY <2>4, <2>5
<1>4. CASE Rows(h)
  <2>1. /\ r.pc = "rows" /\ event' = event /\ row' = Repaired(h)
        /\ Goto(h, "refresh") \/ End(h)
    BY <1>4, StepsSplit DEF Rows
  <2>2. proc'[h].pc \notin {"write", "rows"}
    BY <2>1, StepsLeave
  <2>3. CASE r.op = "move"
    <3>1. event.starts = r.to
      BY <2>1, <2>3 DEF EndsOnTime
    <3>2. Completer' = Armed(EndsAt(Move(r.seen, r.to)))
      BY <2>1, <2>3, CompleterIsRow DEF Repaired, Moved, MovedRows, Completer
    <3>3. Move(r.seen, r.to).starts = r.to
      BY <1>2 DEF Move, Event
    <3>4. Completer'.due = EndsAt(event')
      BY <2>1, <3>1, <3>2, <3>3 DEF Armed, EndsAt
    <3> QED
      BY <1>1, <2>2, <3>4 DEF EndsOnTime
  <2>4. CASE r.op # "move"
    <3>1. Completer.due = EndsAt(event)
      BY <1>1, <2>4 DEF EndsOnTime
    <3>2. Completer'.due = Completer.due
      BY <2>1, <2>4, CompleterIsRow DEF Repaired, Retired, Completer, TypeOK, Kinds, Row
    <3> QED
      BY <1>1, <2>1, <2>2, <3>1, <3>2 DEF EndsOnTime
  <2> QED
    BY <2>3, <2>4
<1>5. CASE \E op \in Ops : Command(h, op)
  <2>1. PICK op \in Ops : Command(h, op)
    BY <1>5
  <2>2. PICK to : proc' = [proc EXCEPT ![h] =
                     [op |-> op, pc |-> FirstStep(op), to |-> to, msg |-> 0,
                      next |-> NextStatus(op, to), seen |-> event]]
    BY <2>1 DEF Command
  <2>3. proc'[h].seen = event /\ proc'[h].pc = FirstStep(op)
    BY <2>2 DEF TypeOK
  <2>4. FirstStep(op) # "rows"
    BY OpsAssumption DEF AllOps, FirstStep
  <2>5. r.pc = "idle" /\ event' = event /\ Completer' = Completer
    BY <2>1 DEF Command, Completer
  <2>6. Completer.due = EndsAt(event)
    BY <1>1, <2>5 DEF EndsOnTime
  <2> QED
    BY <1>1, <2>3, <2>4, <2>5, <2>6 DEF EndsOnTime
<1> QED
  BY <1>3, <1>4, <1>5

LEMMA NextOnTime ==
  ASSUME Alone, IInv, EndsOnTime, [Next]_vars
  PROVE  EndsOnTime'
<1>1. TypeOK /\ WriterKnown /\ faults \in Nat
  BY DEF IInv, TypeOK
<1>2. CASE UNCHANGED <<event, row, proc, faults>>
  BY <1>2 DEF EndsOnTime, Completer
<1>3. CASE faults' # 0
  BY <1>3 DEF EndsOnTime
<1>4. CASE Next /\ faults = 0 /\ faults' = 0
  <2>1. CASE Tick
    BY <1>2, <2>1 DEF Tick
  <2>2. CASE DeleteMessage \/ \E p \in Procs : Lost(p)
    BY <1>4, <2>2 DEF DeleteMessage, Lost
  <2>3. CASE Schedules
    BY <1>1, <2>3, SchedulerIsProc, WorldBystands, BystandsOnTime
  <2>4. ASSUME NEW p \in Procs, Works(p) PROVE EndsOnTime'
    <3>1. CASE (Write(p) /\ WriteApplies(p)) \/ Rows(p)
      BY <1>1, <1>4, <3>1, HandlerOnTime DEF Write, Rows
    <3> QED
      BY <1>1, <2>4, <3>1, WorldBystands, BystandsOnTime DEF Works
  <2>5. CASE \E h \in Handlers, op \in Ops : Command(h, op)
    BY <1>1, <1>4, <2>5, HandlerOnTime
  <2> QED
    BY <1>4, <2>1, <2>2, <2>3, <2>4, <2>5 DEF Next
<1>5. CASE Next /\ faults # 0 /\ faults' = 0
  <2>1. faults' = faults \/ faults' = faults + 1
    BY <1>5, FaultsCount
  <2> QED
    BY <1>1, <1>5, <2>1
<1> QED
  BY <1>2, <1>3, <1>4, <1>5 DEF vars

LEMMA InitEnds == Init => EndsSound /\ EndsOnTime
<1> SUFFICES ASSUME Init PROVE EndsSound /\ EndsOnTime
  OBVIOUS
<1>1. \A p \in Procs : proc[p].pc = "idle" /\ proc[p].op = "none"
  BY DEF Init, IdleProcess
<1>2. Completer = Armed(EndsAt(event))
  BY DEF Init, Completer, Kinds
<1> QED
  BY <1>1, <1>2, SchedulerIsProc DEF EndsSound, EndsOnTime, Decided, Armed, Live

\* An event that has not ended is going to: its completion action is live, for
\* any number of commands in flight, faults and moves, and with one command at
\* a time it is due at the end of the event.  Whoever gives the action up, a
\* cancellation or the executor, has ended the event, and no status is written
\* over that; only a move changes the start, and it sets the action again.
THEOREM EndWatched ==
  ASSUME "refresh" \notin Ops
  PROVE  Spec => []EndIsWatched
<1>1. IInv /\ EndsSound /\ [Next]_vars => EndsSound'
  BY NextEnds
<1>2. Spec => [](IInv /\ EndsSound)
  BY InitOK, InitEnds, Inductive, <1>1, PTL DEF Spec
<1>3. CASE Cardinality(Handlers) = 1
  <2>1. Alone
    <3>1. IsFiniteSet(Handlers)
      BY HandlersAssumption
    <3>2. PICK h : Handlers = {h}
      BY <1>3, <3>1, FS_Singleton
    <3> QED
      BY <3>2 DEF Alone
  <2>2. IInv /\ EndsOnTime /\ [Next]_vars => EndsOnTime'
    BY <2>1, NextOnTime
  <2>3. EndsSound /\ EndsOnTime => EndIsWatched
    BY DEF EndsSound, EndsOnTime, EndIsWatched, Completer
  <2> QED
    BY InitOK, InitEnds, Inductive, <1>2, <2>2, <2>3, PTL DEF Spec
<1>4. CASE Cardinality(Handlers) # 1
  <2>1. EndsSound => EndIsWatched
    BY <1>4 DEF EndsSound, EndIsWatched, Completer
  <2> QED
    BY <1>2, <2>1, PTL
<1> QED
  BY <1>3, <1>4

=============================================================================
