----------------------------- MODULE Organisers -----------------------------
(***************************************************************************)
(* Organiser ownership of one published event: the services of             *)
(* src/organisers, the organiser executors of the scheduler, the organiser *)
(* and cover buttons, and the administrator commands that race with them.  *)
(*                                                                         *)
(* A PostgreSQL transaction whose reads and writes are ordered by row      *)
(* locks is one action.  The exception is assignEventOrganiser, which      *)
(* takes no lock on the event: it is a read outside the transaction, its   *)
(* UPDATEs (invisible to others, the rows locked) and its INSERT + COMMIT. *)
(* Each Discord call separates two actions.                                *)
(***************************************************************************)
EXTENDS Naturals, FiniteSets

CONSTANTS
  MaxAsg,     \* bound: assignment rows ever created
  MaxFaults,  \* bound: process losses and transient Discord failures
  AdminOps,   \* which administrator commands are issued
  MaxAdmin    \* bound: administrator commands

AllAdminOps == {"primary", "backup", "remove", "cancel", "disable", "enable"}

ASSUME BoundsAssumption == MaxAsg \in Nat \ {0} /\ MaxFaults \in Nat /\ MaxAdmin \in Nat
ASSUME AdminOpsAssumption == AdminOps \subseteq AllAdminOps

VARIABLES
  event,    \* events.status (scheduled, open and closed are "active")
  phase,    \* the clock, against cover deadline, startsAt and endsAt
  enabled,  \* guild_settings.organisers_enabled
  asg,      \* asg[i]: event_organiser_assignments
  timeout,  \* timeout[i]: the action row organiser_timeout:<i>
  cover,    \* cover[i]: the action row organiser_cover_request:<i>
  safety,   \* the event-level action rows
  msgs,     \* claimable Discord messages
  sched,    \* the scheduler worker and the row it executes
  button,   \* the handler of a confirm / decline press
  claim,    \* the handler of a Claim Event press
  assign,   \* the handler of /event-organisers assign
  admin,    \* the handler of the other administrator commands
  faults, issued

clock == <<event, phase>>
rows == <<timeout, cover, safety>>
procs == <<sched, button, claim, assign, admin>>
vars == <<event, phase, enabled, asg, timeout, cover, safety, msgs,
          sched, button, claim, assign, admin, faults, issued>>

Ids == 1 .. MaxAsg
NoId == 0
Ids0 == 0 .. MaxAsg

ActionStatus == {"none", "pending", "processing", "completed", "cancelled"}
Live == {"pending", "processing"}
Safety == {"deadline", "missing", "complete"}

Slots == {"primary", "backup", "cover"}
AsgStatus == {"none", "pending", "confirmed", "declined", "timed_out",
              "replaced", "removed"}
EndedStatus == {"declined", "timed_out", "replaced", "removed"}
Asg == [slot : Slots, status : AsgStatus, current : BOOLEAN, active : BOOLEAN]
NoAsg == [slot |-> "primary", status |-> "none", current |-> FALSE,
          active |-> FALSE]

Pending(slot, active) ==
  [slot |-> slot, status |-> "pending", current |-> TRUE, active |-> active]

Ended(a, status) == [a EXCEPT !.status = status, !.current = FALSE]

\* current, activated and not yet failed: the WHERE clause of every
\* "is there an active organiser" query.
IsActive(a) ==
  a.current /\ a.active /\ a.status \in {"pending", "confirmed"}
ActiveIds == {i \in Ids : IsActive(asg[i])}
ConfirmedIds == {i \in Ids : asg[i].current /\ asg[i].status = "confirmed"}
Dormant(i) ==
  /\ asg[i].slot = "backup" /\ asg[i].current
  /\ asg[i].status = "pending" /\ ~asg[i].active
CurrentIn(slot) == {i \in Ids : asg[i].current /\ asg[i].slot = slot}
Free == {i \in Ids : asg[i].status = "none"}
NextId == CHOOSE i \in Free : \A j \in Free : i <= j

Ongoing == event = "active" /\ phase # "ended"
PastDeadline == phase \in {"cover", "started", "ended"}
PastStart == phase \in {"started", "ended"}

CancelLive(f) == [i \in Ids |-> IF f[i] \in Live THEN "cancelled" ELSE f[i]]

\* Rows updated by an uncommitted assignEventOrganiser.
Locked(i) == assign.pc \in {"unschedule", "insert"} /\ i \in assign.replaced

IdleSched == [pc |-> "idle", kind |-> "none", id |-> NoId, esc |-> NoId]
IdleButton == [pc |-> "idle", id |-> NoId, esc |-> NoId]
IdleClaim == [pc |-> "idle", id |-> NoId]
IdleAssign == [pc |-> "idle", slot |-> "none", existing |-> NoId, replaced |-> {},
               timeouts |-> {}, covers |-> {}]
IdleAdmin == [pc |-> "idle", id |-> NoId]

\* A published event: nobody nominated, a primary, or a primary and a backup;
\* event-publication activates the primary and queues its timeout.
Init ==
  /\ event = "active" /\ phase = "early" /\ enabled = TRUE
  /\ \E n \in 0 .. (IF MaxAsg >= 2 THEN 2 ELSE 1) :
       /\ asg = [i \in Ids |-> IF i = 1 /\ n >= 1 THEN Pending("primary", TRUE)
                               ELSE IF i = 2 /\ n = 2 THEN Pending("backup", FALSE)
                               ELSE NoAsg]
       /\ timeout = [i \in Ids |-> IF i = 1 /\ n >= 1 THEN "pending" ELSE "none"]
  /\ cover = [i \in Ids |-> "none"]
  /\ safety = [k \in Safety |-> "pending"]
  /\ msgs = [cover |-> 0, alert |-> 0, sent |-> 0, undelivered |-> FALSE]
  /\ sched = IdleSched /\ button = IdleButton
  /\ claim = IdleClaim /\ assign = IdleAssign /\ admin = IdleAdmin
  /\ faults = 0 /\ issued = 0

-----------------------------------------------------------------------------
(* Time.                                                                   *)

NextPhase == [early |-> "cover", cover |-> "started", started |-> "ended"]

TimePasses ==
  /\ phase # "ended"
  /\ phase' = NextPhase[phase]
  /\ UNCHANGED <<event, enabled, asg, rows, msgs, procs, faults, issued>>

-----------------------------------------------------------------------------
(* advanceOrganiserEscalation, run by the scheduler after a timeout and by *)
(* the button handler after a decline.  EscalationRead stands for the      *)
(* queries outside the transaction; it yields the dormant backup to        *)
(* activate or NoId.                                                       *)

EscalationStops == event # "active" \/ ~enabled \/ ActiveIds # {}
DormantBackup == IF \E i \in Ids : Dormant(i)
                 THEN CHOOSE i \in Ids : Dormant(i) ELSE NoId

\* Mutants: the transaction trusts the reads made before it.
CanActivateBesideAnother(b) == enabled /\ Dormant(b) /\ event = "active"
CanActivateAfterTheEnd(b) == enabled /\ Dormant(b) /\ ActiveIds \ {b} = {}

\* The transaction that activates the backup the read saw.
CanActivate(b) ==
  /\ enabled /\ Dormant(b) /\ event = "active"
  /\ ActiveIds \ {b} = {}

\* Mutant: no timeout action is queued for the activated backup.
ActivateUnwatched(b) ==
  /\ asg' = IF CanActivate(b) THEN [asg EXCEPT ![b].active = TRUE] ELSE asg
  /\ UNCHANGED <<timeout, cover>>

ActivateBackup(b) ==
  IF CanActivate(b)
  THEN /\ asg' = [asg EXCEPT ![b].active = TRUE]
       /\ timeout' = [timeout EXCEPT ![b] = "pending"]
       /\ UNCHANGED cover
  ELSE UNCHANGED <<asg, timeout, cover>>

\* Mutants: the feature is not read again; a decline is not a failure.
CanQueueWhenDisabled(i) ==
  /\ asg[i].status \in {"declined", "timed_out"}
  /\ event = "active" /\ ActiveIds = {}
CanQueueTimeoutsOnly(i) ==
  /\ enabled /\ asg[i].status = "timed_out"
  /\ event = "active" /\ ActiveIds = {}

\* The transaction that queues a cover request for failed assignment i.
CanQueue(i) ==
  /\ enabled /\ asg[i].status \in {"declined", "timed_out"}
  /\ event = "active" /\ ActiveIds = {}

QueueCover(i) ==
  /\ cover' = IF CanQueue(i) /\ cover[i] = "none"
              THEN [cover EXCEPT ![i] = "pending"] ELSE cover
  /\ UNCHANGED <<asg, timeout>>

Escalate(i, b) == IF b = NoId THEN QueueCover(i) ELSE ActivateBackup(b)

-----------------------------------------------------------------------------
(* The scheduler worker (ScheduledActions models claims, retries and locks *)
(* in full): it claims a due row, runs its executor and settles the row if *)
(* the row is still processing.                                            *)

Goto(pc) == sched' = [sched EXCEPT !.pc = pc]
Keep == UNCHANGED <<clock, enabled, msgs, button, claim, assign, admin, faults, issued>>

ClaimTimeout(i) ==
  /\ sched.pc = "idle" /\ timeout[i] = "pending"
  /\ timeout' = [timeout EXCEPT ![i] = "processing"]
  /\ sched' = [pc |-> "run", kind |-> "timeout", id |-> i, esc |-> NoId]
  /\ UNCHANGED <<asg, cover, safety>> /\ Keep

ClaimCover(i) ==
  /\ sched.pc = "idle" /\ cover[i] = "pending"
  /\ cover' = [cover EXCEPT ![i] = "processing"]
  /\ sched' = [pc |-> "run", kind |-> "cover", id |-> i, esc |-> NoId]
  /\ UNCHANGED <<asg, timeout, safety>> /\ Keep

SafetyDue(k) ==
  \/ k = "deadline" /\ PastDeadline
  \/ k = "missing" /\ PastStart
  \/ k = "complete" /\ phase = "ended"

ClaimSafety(k) ==
  /\ sched.pc = "idle" /\ safety[k] = "pending" /\ SafetyDue(k)
  /\ safety' = [safety EXCEPT ![k] = "processing"]
  /\ sched' = [pc |-> "run", kind |-> k, id |-> NoId, esc |-> NoId]
  /\ UNCHANGED <<asg, timeout, cover>> /\ Keep

\* The row under execution takes status s if it is still processing.
SettleRow(s) ==
  LET i == sched.id IN
  /\ timeout' = IF sched.kind = "timeout" /\ timeout[i] = "processing"
                THEN [timeout EXCEPT ![i] = s] ELSE timeout
  /\ cover' = IF sched.kind = "cover" /\ cover[i] = "processing"
              THEN [cover EXCEPT ![i] = s] ELSE cover
  /\ safety' = IF sched.kind \in Safety /\ safety[sched.kind] = "processing"
               THEN [safety EXCEPT ![sched.kind] = s] ELSE safety

MarkActionCompleted ==
  /\ sched.pc = "done"
  /\ SettleRow("completed")
  /\ sched' = IdleSched
  /\ UNCHANGED asg /\ Keep

\* A failed fetch of the guild or any other throw: the row is retried later
\* with nothing but the database to go by.  Attempts are not counted here.
ExecutorInterrupted ==
  /\ sched.pc # "idle" /\ faults < MaxFaults
  /\ SettleRow("pending")
  /\ sched' = IdleSched /\ faults' = faults + 1
  /\ UNCHANGED <<clock, enabled, asg, msgs, button, claim, assign, admin, issued>>

\* executeOrganiserTimeout: the authoritative transaction.
TimesOut(i) ==
  /\ asg[i].current /\ asg[i].status = "pending" /\ asg[i].active

TimeoutTransaction ==
  LET i == sched.id IN
  /\ sched.pc = "run" /\ sched.kind = "timeout" /\ ~Locked(i)
  /\ IF Ongoing /\ enabled /\ TimesOut(i)
     THEN asg' = [asg EXCEPT ![i] = Ended(@, "timed_out")] /\ Goto("escalate")
     ELSE Goto("done") /\ UNCHANGED asg
  /\ UNCHANGED rows /\ Keep

TimeoutEscalationRead ==
  /\ sched.pc = "escalate"
  /\ sched' = IF EscalationStops THEN [sched EXCEPT !.pc = "done"]
              ELSE [sched EXCEPT !.pc = "advance", !.esc = DormantBackup]
  /\ UNCHANGED <<asg, rows>> /\ Keep

TimeoutEscalationWrite ==
  /\ sched.pc = "advance" /\ ~Locked(sched.esc)
  /\ Escalate(sched.id, sched.esc)
  /\ Goto("done")
  /\ UNCHANGED safety /\ Keep

\* openOrganiserCoverAtSafetyDeadline.
CoverExists == \E i \in Ids : cover[i] \in Live \cup {"completed"}
Nominees == {i \in Ids : asg[i].current /\ asg[i].status = "pending"
                         /\ asg[i].slot \in {"primary", "backup"}}

SafetyApplies == enabled /\ Ongoing /\ PastDeadline /\ ConfirmedIds = {}

RetireNominees ==
  /\ asg' = [i \in Ids |-> IF i \in Nominees THEN Ended(asg[i], "removed")
                           ELSE asg[i]]
  /\ timeout' = CancelLive(timeout)

\* One step of two locks: the assignments, FOR UPDATE, and then the event.
SafetyTransaction ==
  /\ sched.pc = "run" /\ sched.kind \in {"deadline", "missing"}
  /\ \A i \in Ids : asg[i].current => ~Locked(i)
  /\ IF SafetyApplies
     THEN /\ RetireNominees
          /\ Goto(IF sched.kind = "deadline" /\ CoverExists THEN "already"
                  ELSE "recheck")
     ELSE Goto("done") /\ UNCHANGED <<asg, timeout>>
  /\ UNCHANGED <<cover, safety>> /\ Keep

\* cover_already_requested: nothing is sent.
DeadlineDefersToCover ==
  /\ sched.pc = "already"
  /\ Goto("done")
  /\ UNCHANGED <<asg, rows>> /\ Keep

\* Mutants: the start alert leaves the event to an earlier request; a queued
\* request leaves the last minutes to the deadline action.
AlertUnlessRequested ==
  enabled /\ Ongoing /\ PastStart /\ ConfirmedIds = {} /\ ~CoverExists
RequestOnlyBeforeDeadline ==
  enabled /\ event = "active" /\ ~PastDeadline /\ ActiveIds = {}

AlertWanted == enabled /\ Ongoing /\ PastStart /\ ConfirmedIds = {}

RequestWanted == enabled /\ event = "active" /\ ~PastStart /\ ActiveIds = {}

\* The reads after guilds.fetch, immediately before the send.
StillWanted ==
  CASE sched.kind = "deadline" ->
         /\ enabled /\ event = "active" /\ ~PastStart
         /\ ConfirmedIds = {} /\ ~CoverExists
    [] sched.kind = "missing" -> AlertWanted
    [] OTHER -> RequestWanted /\ asg[sched.id].status \in {"declined", "timed_out"}

Recheck ==
  /\ sched.pc = "recheck"
  /\ Goto(IF StillWanted THEN "send" ELSE "done")
  /\ UNCHANGED <<asg, rows>> /\ Keep

\* executeOrganiserCoverRequest checks the same facts before guilds.fetch.
CoverRequestStart ==
  /\ sched.pc = "run" /\ sched.kind = "cover"
  /\ Goto(IF StillWanted THEN "recheck" ELSE "done")
  /\ UNCHANGED <<asg, rows>> /\ Keep

\* The message is posted, or its channel is definitively gone.
SendCoverMessage ==
  /\ sched.pc = "send"
  /\ \/ Goto("persist") /\ msgs' = [msgs EXCEPT !.sent = 1]
     \/ Goto("done") /\ msgs' = [msgs EXCEPT !.undelivered = TRUE]
  /\ UNCHANGED <<clock, enabled, asg, rows, button, claim, assign, admin, faults, issued>>

\* persistOrganiserCoverMessage; the start alert supersedes cover messages.
PersistCoverMessage ==
  /\ sched.pc = "persist"
  /\ msgs' = IF sched.kind = "missing"
             THEN [msgs EXCEPT !.alert = @ + 1, !.cover = 0]
             ELSE [msgs EXCEPT !.cover = @ + 1]
  /\ Goto("done")
  /\ UNCHANGED <<clock, enabled, asg, rows, button, claim, assign, admin, faults, issued>>

\* executeCompleteEvent: status first, then the escalation actions.
CompleteEvent ==
  /\ sched.pc = "run" /\ sched.kind = "complete"
  /\ IF event = "cancelled"
     THEN Goto("done") /\ UNCHANGED event
     ELSE event' = "completed" /\ Goto("cleanup")
  /\ UNCHANGED <<phase, enabled, asg, rows, msgs, button, claim, assign, admin, faults, issued>>

CancelEscalation ==
  /\ timeout' = CancelLive(timeout) /\ cover' = CancelLive(cover)
  /\ safety' = [k \in Safety |-> IF k # "complete" /\ safety[k] \in Live
                                 THEN "cancelled" ELSE safety[k]]

CompleteCleanup ==
  /\ sched.pc = "cleanup"
  /\ CancelEscalation
  /\ msgs' = [msgs EXCEPT !.cover = 0, !.alert = 0]
  /\ Goto("done")
  /\ UNCHANGED <<clock, enabled, asg, button, claim, assign, admin, faults, issued>>

-----------------------------------------------------------------------------
(* recordOrganiserResponse and the rest of the button handler.             *)

KeepB == UNCHANGED <<clock, enabled, safety, msgs, sched, claim, assign, admin, faults, issued>>

\* Mutant: any activated row may be answered, whatever became of it.
CanRespondLate(i) == asg[i].active

CanRespond(i) == asg[i].current /\ asg[i].status = "pending" /\ asg[i].active

Respond(i, answer) ==
  /\ button.pc = "idle" /\ ~Locked(i)
  /\ event = "active" /\ enabled /\ CanRespond(i)
  /\ asg' = IF answer = "confirm" THEN [asg EXCEPT ![i].status = "confirmed"]
            ELSE [asg EXCEPT ![i] = Ended(@, "declined")]
  /\ button' = [pc |-> answer, id |-> i, esc |-> NoId]
  /\ UNCHANGED <<timeout, cover>> /\ KeepB

CancelResponseActions(i) ==
  timeout' = [timeout EXCEPT ![i] = IF @ \in Live THEN "cancelled" ELSE @]

\* cancelOrganiserResponseActions is a statement of its own.
AfterResponse ==
  /\ button.pc \in {"confirm", "decline"}
  /\ CancelResponseActions(button.id)
  /\ button' = [button EXCEPT !.pc = IF @ = "confirm" THEN "tidy" ELSE "escalate"]
  /\ UNCHANGED <<asg, cover>> /\ KeepB

\* A confirmation resolves the tracked cover messages.
ConfirmTidies ==
  /\ button.pc = "tidy"
  /\ msgs' = [msgs EXCEPT !.cover = 0, !.alert = 0]
  /\ button' = IdleButton
  /\ UNCHANGED <<clock, enabled, asg, rows, sched, claim, assign, admin, faults, issued>>

DeclineEscalationRead ==
  /\ button.pc = "escalate"
  /\ button' = IF EscalationStops THEN IdleButton
               ELSE [button EXCEPT !.pc = "advance", !.esc = DormantBackup]
  /\ UNCHANGED <<asg, timeout, cover>> /\ KeepB

DeclineEscalationWrite ==
  /\ button.pc = "advance" /\ ~Locked(button.esc)
  /\ Escalate(button.id, button.esc)
  /\ button' = IdleButton
  /\ KeepB

\* guilds.fetch fails, or any other throw: the response is saved, the rest of
\* the handler is not run, and nothing retries it.
ButtonInterrupted ==
  /\ button.pc # "idle" /\ faults < MaxFaults
  /\ button' = IdleButton /\ faults' = faults + 1
  /\ UNCHANGED <<clock, enabled, asg, rows, msgs, sched, claim, assign, admin, issued>>

-----------------------------------------------------------------------------
(* claimEventOrganiserCover.                                               *)

KeepC == UNCHANGED <<clock, enabled, rows, sched, button, assign, admin, faults, issued>>

\* Mutant: the claim does not look at the assignments again under its lock.
CanClaimUnchecked == enabled /\ Ongoing

CanClaim == enabled /\ Ongoing /\ ActiveIds = {} /\ CurrentIn("cover") = {}

ClaimCoverEvent ==
  /\ claim.pc = "idle" /\ msgs.sent = 1 /\ Free # {}
  /\ CanClaim
  /\ asg' = [asg EXCEPT ![NextId] = [slot |-> "cover", status |-> "confirmed",
                                     current |-> TRUE, active |-> TRUE]]
  /\ claim' = [pc |-> "verify", id |-> NextId]
  /\ UNCHANGED msgs /\ KeepC

\* The second check: another active organiser makes the claim give way.  Its
\* SELECT and its UPDATE are one step.
VerifyClaim ==
  /\ claim.pc = "verify" /\ ~Locked(claim.id)
  /\ IF ActiveIds \ {claim.id} # {}
     THEN asg' = [asg EXCEPT ![claim.id] = Ended(@, "replaced")] /\ claim' = IdleClaim
     ELSE claim' = [claim EXCEPT !.pc = "tidy"] /\ UNCHANGED asg
  /\ UNCHANGED msgs /\ KeepC

ClaimTidies ==
  /\ claim.pc = "tidy"
  /\ msgs' = [msgs EXCEPT !.cover = 0, !.alert = 0]
  /\ claim' = IdleClaim
  /\ UNCHANGED asg /\ KeepC

-----------------------------------------------------------------------------
(* Administrator commands.  One assign command is in flight at a time, next *)
(* to one other command; the partial unique index on (event, slot) orders  *)
(* two assigns of a slot.                                                  *)

Issue(op) == op \in AdminOps /\ issued < MaxAdmin /\ issued' = issued + 1

\* reconcileOrganiserCoverMessages after a new primary, a cancellation or a
\* disabled feature: the tracked messages lose their buttons.
Tidied == [msgs EXCEPT !.cover = 0, !.alert = 0]

KeepN == UNCHANGED <<clock, enabled, safety, sched, button, claim, admin, faults>>

\* assignEventOrganiser before its transaction.
AssignRead(slot) ==
  /\ assign.pc = "idle" /\ Issue(slot) /\ event = "active" /\ Free # {}
  /\ slot = "backup" =>
       \E i \in CurrentIn("primary") : asg[i].status \in {"pending", "confirmed"}
  /\ assign' = [IdleAssign EXCEPT !.pc = "replace", !.slot = slot,
                  !.existing = IF CurrentIn(slot) = {} THEN NoId
                               ELSE CHOOSE i \in CurrentIn(slot) : TRUE]
  /\ UNCHANGED <<asg, timeout, cover, msgs>> /\ KeepN

\* The UPDATEs: the row read before, whatever became of it, and for a primary
\* every activated backup or cover.  They stay invisible until the commit.
Superseded ==
  {i \in Ids : assign.slot = "primary" /\ asg[i].current /\ asg[i].active
               /\ asg[i].slot \in {"backup", "cover"}}

AssignReplace ==
  /\ assign.pc = "replace"
  /\ assign' = IF enabled
               THEN [assign EXCEPT !.pc = "unschedule",
                                   !.replaced = Superseded \cup ({assign.existing} \ {NoId})]
               ELSE IdleAssign
  /\ UNCHANGED <<asg, timeout, cover, msgs, issued>> /\ KeepN

\* For a primary, the UPDATE of the live escalation actions.
LiveIn(f) == {i \in Ids : assign.slot = "primary" /\ f[i] \in Live}

AssignUnschedule ==
  /\ assign.pc = "unschedule"
  /\ assign' = [assign EXCEPT !.pc = "insert",
                  !.timeouts = LiveIn(timeout), !.covers = LiveIn(cover)]
  /\ UNCHANGED <<asg, timeout, cover, msgs, issued>> /\ KeepN

Unscheduled(f, ids) ==
  [i \in Ids |-> IF i \in ids /\ f[i] \in Live THEN "cancelled" ELSE f[i]]

Assigned ==
  [i \in Ids |->
     IF i = NextId THEN Pending(assign.slot, assign.slot = "primary")
     ELSE IF i \in assign.replaced THEN Ended(asg[i], "replaced") ELSE asg[i]]

\* The INSERT and the COMMIT, or the rollback of a violated unique index.
AssignCommit ==
  /\ assign.pc = "insert"
  /\ IF Free = {} \/ CurrentIn(assign.slot) \ assign.replaced # {}
     THEN assign' = IdleAssign /\ UNCHANGED <<asg, timeout, cover>>
     ELSE /\ asg' = Assigned
          /\ IF assign.slot = "primary"
             THEN /\ timeout' = [Unscheduled(timeout, assign.timeouts)
                                    EXCEPT ![NextId] = "pending"]
                  /\ cover' = Unscheduled(cover, assign.covers)
                  /\ assign' = [IdleAssign EXCEPT !.pc = "tidy"]
             ELSE assign' = IdleAssign /\ UNCHANGED <<timeout, cover>>
  /\ UNCHANGED <<msgs, issued>> /\ KeepN

AssignTidies ==
  /\ assign.pc = "tidy"
  /\ msgs' = Tidied /\ assign' = IdleAssign
  /\ UNCHANGED <<asg, timeout, cover, issued>> /\ KeepN

KeepA == UNCHANGED <<phase, sched, button, claim, assign, faults>>

\* removeEventOrganiserAssignment: read, transaction, then the actions.
RemoveRead ==
  /\ admin.pc = "idle" /\ Issue("remove") /\ event = "active"
  /\ \E i \in CurrentIn("primary") \cup CurrentIn("backup") :
       admin' = [pc |-> "remove", id |-> i]
  /\ UNCHANGED <<event, enabled, asg, rows, msgs>> /\ KeepA

RemoveTransaction ==
  LET i == admin.id IN
  /\ admin.pc = "remove" /\ ~Locked(i)
  /\ IF enabled /\ asg[i].current
     THEN /\ asg' = [asg EXCEPT ![i] = Ended(@, "removed")]
          /\ admin' = [admin EXCEPT !.pc = "unschedule"]
     ELSE admin' = IdleAdmin /\ UNCHANGED asg
  /\ UNCHANGED <<event, enabled, rows, msgs, issued>> /\ KeepA

RemoveActions ==
  /\ admin.pc = "unschedule"
  /\ CancelResponseActions(admin.id)
  /\ admin' = IdleAdmin
  /\ UNCHANGED <<event, enabled, asg, cover, safety, msgs, issued>> /\ KeepA

\* cancelEvent: the status, then every live action of the event.
CancelEvent ==
  /\ admin.pc = "idle" /\ Issue("cancel") /\ event = "active"
  /\ event' = "cancelled"
  /\ admin' = [IdleAdmin EXCEPT !.pc = "cancel"]
  /\ UNCHANGED <<enabled, asg, rows, msgs>> /\ KeepA

CancelActions ==
  /\ admin.pc = "cancel"
  /\ timeout' = CancelLive(timeout) /\ cover' = CancelLive(cover)
  /\ safety' = [k \in Safety |-> IF safety[k] \in Live THEN "cancelled" ELSE safety[k]]
  /\ admin' = [IdleAdmin EXCEPT !.pc = "tidy"]
  /\ UNCHANGED <<event, enabled, asg, msgs, issued>> /\ KeepA

\* Mutant: the feature row is not locked.
FeatureRowUnlocked == TRUE

\* No open assign transaction holds its shared lock on guild_settings.
FeatureRowFree == assign.pc \notin {"unschedule", "insert"}

\* setGuildOrganisersEnabled, under an exclusive lock on guild_settings.
DisableOrganisers ==
  /\ admin.pc = "idle" /\ Issue("disable") /\ FeatureRowFree
  /\ enabled' = FALSE
  /\ asg' = [i \in Ids |-> IF asg[i].current THEN Ended(asg[i], "removed") ELSE asg[i]]
  /\ timeout' = CancelLive(timeout) /\ cover' = CancelLive(cover)
  /\ admin' = [IdleAdmin EXCEPT !.pc = "tidy"]
  /\ UNCHANGED <<event, safety, msgs>> /\ KeepA

EnableOrganisers ==
  /\ admin.pc = "idle" /\ Issue("enable")
  /\ enabled' = TRUE
  /\ UNCHANGED <<event, asg, rows, msgs, admin>> /\ KeepA

AdminTidies ==
  /\ admin.pc = "tidy"
  /\ msgs' = Tidied /\ admin' = IdleAdmin
  /\ UNCHANGED <<event, enabled, asg, rows, issued>> /\ KeepA

\* The bot process dies: every handler is lost, an open transaction rolls back,
\* and only the row under execution is retried (after stale recovery).
ProcessLoss ==
  /\ faults < MaxFaults /\ faults' = faults + 1
  /\ SettleRow("pending")
  /\ sched' = IdleSched /\ button' = IdleButton
  /\ claim' = IdleClaim /\ assign' = IdleAssign /\ admin' = IdleAdmin
  /\ UNCHANGED <<clock, enabled, asg, msgs, issued>>

-----------------------------------------------------------------------------

SchedulerClaims ==
  \/ \E i \in Ids : ClaimTimeout(i) \/ ClaimCover(i)
  \/ \E k \in Safety : ClaimSafety(k)

SchedulerWorks ==
  \/ MarkActionCompleted
  \/ TimeoutTransaction \/ TimeoutEscalationRead \/ TimeoutEscalationWrite
  \/ SafetyTransaction \/ DeadlineDefersToCover
  \/ CoverRequestStart \/ Recheck \/ SendCoverMessage \/ PersistCoverMessage
  \/ CompleteEvent \/ CompleteCleanup

Buttons ==
  \/ \E i \in Ids, answer \in {"confirm", "decline"} : Respond(i, answer)
  \/ AfterResponse \/ ConfirmTidies
  \/ DeclineEscalationRead \/ DeclineEscalationWrite
  \/ ClaimCoverEvent \/ VerifyClaim \/ ClaimTidies

Administration ==
  \/ \E slot \in {"primary", "backup"} : AssignRead(slot)
  \/ AssignReplace \/ AssignUnschedule \/ AssignCommit \/ AssignTidies
  \/ RemoveRead \/ RemoveTransaction \/ RemoveActions
  \/ CancelEvent \/ CancelActions
  \/ DisableOrganisers \/ EnableOrganisers
  \/ AdminTidies

Next ==
  \/ TimePasses
  \/ SchedulerClaims \/ SchedulerWorks
  \/ Buttons \/ Administration
  \/ ExecutorInterrupted \/ ButtonInterrupted \/ ProcessLoss

Spec == Init /\ [][Next]_vars

\* Polling, statements and Discord calls make progress, and the clock reaches
\* the start of the event; nobody is obliged to press a button, issue a
\* command or let the event end.
Fairness ==
  /\ WF_vars(TimePasses /\ ~PastStart)
  /\ WF_vars(SchedulerClaims) /\ WF_vars(SchedulerWorks)
  /\ WF_vars(AssignUnschedule \/ AssignCommit)

FairSpec == Spec /\ Fairness

-----------------------------------------------------------------------------
(* Properties.                                                             *)

\* Shape of the state; a backup or cover is never active and dormant at once,
\* and an assignment is current exactly while pending or confirmed.
TypeOK ==
  /\ event \in {"active", "completed", "cancelled"}
  /\ phase \in {"early", "cover", "started", "ended"}
  /\ enabled \in BOOLEAN
  /\ asg \in [Ids -> Asg]
  /\ timeout \in [Ids -> ActionStatus] /\ cover \in [Ids -> ActionStatus]
  /\ safety \in [Safety -> ActionStatus \ {"none"}]
  /\ msgs \in [cover : Nat, alert : Nat, sent : {0, 1}, undelivered : BOOLEAN]
  /\ sched \in [pc : {"idle", "run", "escalate", "advance", "already", "recheck",
                      "send", "persist", "cleanup", "done"},
                kind : Safety \cup {"none", "timeout", "cover"},
                id : Ids0, esc : Ids0]
  /\ button \in [pc : {"idle", "confirm", "decline", "tidy", "escalate", "advance"},
                 id : Ids0, esc : Ids0]
  /\ claim \in [pc : {"idle", "verify", "tidy"}, id : Ids0]
  /\ assign \in [pc : {"idle", "replace", "unschedule", "insert", "tidy"},
                 slot : {"none", "primary", "backup"},
                 existing : Ids0, replaced : SUBSET Ids,
                 timeouts : SUBSET Ids, covers : SUBSET Ids]
  /\ admin \in [pc : {"idle", "remove", "unschedule", "cancel", "tidy"}, id : Ids0]
  /\ faults \in Nat /\ issued \in Nat
  /\ \A i \in Ids : asg[i].current <=> asg[i].status \in {"pending", "confirmed"}

\* "The event has one active organiser": timeouts, declines, backup activation,
\* cover claims and the safety deadline, in any order, never leave two members
\* responsible for one event at once.
OneActiveOrganiser == Cardinality(ActiveIds) <= 1

\* Who owned the event and does no longer: a backup who was never activated did not.
FormerIds == {i \in Ids : asg[i].status \in EndedStatus /\ asg[i].active}

Own == INSTANCE Ownership WITH
  Candidates <- Ids,
  owners <- ActiveIds,
  confirmed <- {i \in ActiveIds : asg[i].status = "confirmed"},
  past <- FormerIds,
  over <- event # "active"

\* The services, with all their reads before transactions, retries and losses,
\* implement the ownership of one event by one member at a time: no step passes
\* it from one member to another, gives it back, or gives it away after the end.
ImplementsOwnership == Own!Spec

\* "Assignment history is preserved instead of overwriting rows": an assignment
\* that has ended (declined, timed out, replaced, removed) never changes again.
HistoryIsFinal ==
  [][\A i \in Ids :
       asg[i].status \in EndedStatus => asg'[i] = asg[i]]_vars

\* Once the event is completed or cancelled nobody can come to own it: no
\* confirmation, decline, timeout, backup activation or cover claim commits,
\* although their handlers may be anywhere between their reads and writes.
TerminalEventFrozen ==
  [][event # "active" =>
       \A i \in Ids :
         /\ asg'[i].status \in {"confirmed", "declined", "timed_out"}
              => asg'[i].status = asg[i].status
         /\ asg[i].status = "pending" /\ asg'[i].active => asg[i].active]_vars

\* Disabling the feature retires every owner and every escalation row, and
\* nothing that was in flight when it was disabled brings one back.
DisabledMeansNoOwnership ==
  ~enabled =>
    \A i \in Ids : /\ ~asg[i].current
                   /\ timeout[i] \notin Live /\ cover[i] \notin Live

\* A nominee who is being waited for is being watched: while the event is on,
\* every active unanswered assignment has a timeout action that is still going
\* to run, so a silent organiser cannot block escalation for ever.
AwaitingIsWatched ==
  Ongoing /\ enabled =>
    \A i \in Ids : CanRespond(i) => timeout[i] \in Live

\* "cover_already_requested": when the T-15 transaction decides that general
\* cover is already open, a volunteer really has a request to answer: a
\* claimable message is up, or a queued request is still going to be sent.
AlreadyRequestedMeansOpen ==
  [][sched.pc = "run" /\ sched'.pc = "already" /\ phase = "cover"
       => \/ msgs.cover > 0 \/ msgs.undelivered
          \/ \E i \in Ids : cover[i] \in Live]_vars

\* An event that starts with the feature on gets a confirmed organiser or an
\* alert that a volunteer can claim, or its channel is gone, whatever timed out,
\* crashed or raced before.
StartIsCovered ==
  (phase = "started" /\ event = "active" /\ enabled)
    ~> (\/ ConfirmedIds # {} \/ msgs.alert > 0 \/ msgs.undelivered
        \/ event # "active" \/ phase = "ended" \/ ~enabled)
=============================================================================
