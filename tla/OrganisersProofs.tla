-------------------------- MODULE OrganisersProofs --------------------------
(***************************************************************************)
(* Organiser ownership for any number of assignment rows, faults and      *)
(* commands: what holds whatever administrators do, what holds as long    *)
(* as nobody assigns a primary, and what holds as long as nobody assigns  *)
(* anybody.  At the end, the order of the rows that the transactions      *)
(* lock.                                                                  *)
(***************************************************************************)
EXTENDS Organisers, Sequences, FiniteSetTheorems, WellFoundedInduction, TLAPS

-----------------------------------------------------------------------------
(* Types of what steps put together.                                      *)

Msgs == [cover : Nat, alert : Nat, sent : {0, 1}, undelivered : BOOLEAN]
SchedPcs == {"idle", "run", "escalate", "advance", "already", "recheck",
             "send", "persist", "cleanup", "done"}
Kinds == Safety \cup {"none", "timeout", "cover"}
Sched == [pc : SchedPcs, kind : Kinds, id : Ids0, esc : Ids0]
ButtonPcs == {"idle", "confirm", "decline", "tidy", "escalate", "advance"}
Button == [pc : ButtonPcs, id : Ids0, esc : Ids0]
Claim == [pc : {"idle", "verify", "tidy"}, id : Ids0]
AssignPcs == {"idle", "replace", "unschedule", "insert", "tidy"}
Assign == [pc : AssignPcs, slot : {"none", "primary", "backup"}, existing : Ids0,
           replaced : SUBSET Ids, timeouts : SUBSET Ids, covers : SUBSET Ids]
AdminPcs == {"idle", "remove", "unschedule", "cancel", "tidy"}
Admin == [pc : AdminPcs, id : Ids0]

RowsTyped ==
  /\ event \in {"active", "completed", "cancelled"}
  /\ phase \in {"early", "cover", "started", "ended"}
  /\ enabled \in BOOLEAN
  /\ asg \in [Ids -> Asg]
  /\ timeout \in [Ids -> ActionStatus] /\ cover \in [Ids -> ActionStatus]
  /\ \A i \in Ids : asg[i].current <=> asg[i].status \in {"pending", "confirmed"}

HandlersTyped ==
  /\ safety \in [Safety -> ActionStatus \ {"none"}]
  /\ msgs \in Msgs /\ sched \in Sched /\ button \in Button
  /\ claim \in Claim /\ assign \in Assign /\ admin \in Admin
  /\ faults \in Nat /\ issued \in Nat

LEMMA Typed == TypeOK <=> RowsTyped /\ HandlersTyped
BY DEF TypeOK, RowsTyped, HandlersTyped, Msgs, Sched, SchedPcs, Kinds, Button, ButtonPcs, Claim,
       Assign, AssignPcs, Admin, AdminPcs

LEMMA IdleFits ==
  /\ IdleSched \in Sched /\ IdleButton \in Button /\ IdleClaim \in Claim
  /\ IdleAssign \in Assign /\ IdleAdmin \in Admin
<1>1. NoId \in Ids0
  BY BoundsAssumption DEF NoId, Ids0
<1> QED
  BY <1>1 DEF IdleSched, IdleButton, IdleClaim, IdleAssign, IdleAdmin, Sched, SchedPcs, Kinds,
              Button, ButtonPcs, Claim, Assign, AssignPcs, Admin, AdminPcs

LEMMA NextIdIsFree == Free # {} => NextId \in Free
<1> SUFFICES ASSUME Free # {} PROVE NextId \in Free
  OBVIOUS
<1> DEFINE Before == OpToRel(<, Nat)
<1>1. IsWellFoundedOn(Before, Nat)
  BY NatLessThanWellFounded, Zenon
<1>2. \A x, y \in Nat : y < x => <<y, x>> \in Before
  BY DEF OpToRel
<1> HIDE DEF Before
<1>3. Free \subseteq Nat
  BY DEF Free, Ids
<1>4. PICK i \in Free : \A j \in Free : ~(<<j, i>> \in Before)
  BY <1>1, <1>3, WFMin, Zenon
<1>5. ASSUME NEW j \in Free PROVE i <= j
  <2>1. i \in Nat /\ j \in Nat
    BY <1>3, <1>4
  <2>2. ~(j < i)
    BY <1>2, <1>4, <2>1, Zenon
  <2> QED
    BY <2>1, <2>2
<1> QED
  BY <1>4, <1>5, Zenon DEF NextId

LEMMA DormantBackupFits == DormantBackup \in Ids0
BY BoundsAssumption DEF DormantBackup, Ids0, Ids, NoId

-----------------------------------------------------------------------------
(* The life of an assignment: what one step may do to it and to its two   *)
(* action rows.                                                           *)

Ends(i) ==
  \E s \in EndedStatus :
    /\ asg'[i] = Ended(asg[i], s) /\ asg[i].status # "none"
    /\ s \in {"declined", "timed_out"} => event = "active" /\ enabled /\ CanRespond(i)
    /\ s = "removed" => asg[i].current /\ (asg[i].slot # "cover" \/ DisableOrganisers)
    /\ s = "replaced" => \/ assign.pc = "insert"
                         \/ claim.pc = "verify" /\ i = claim.id /\ ActiveIds \ {i} # {}
Confirms(i) ==
  /\ event = "active" /\ enabled /\ CanRespond(i)
  /\ asg'[i] = [asg[i] EXCEPT !.status = "confirmed"]
Nominated(i) ==
  /\ i \in Free /\ assign.pc = "insert" /\ enabled
  /\ asg'[i] = Pending(assign.slot, assign.slot = "primary")
  /\ assign.slot = "primary" => timeout'[i] = "pending"
\* The two ways of coming to own the event change no other assignment.
Activates(i) ==
  /\ CanActivate(i) /\ timeout'[i] = "pending"
  /\ asg' = [asg EXCEPT ![i] = [asg[i] EXCEPT !.active = TRUE]]
Claimed(i) ==
  /\ i \in Free /\ CanClaim /\ claim.pc = "idle"
  /\ asg' = [asg EXCEPT ![i] = [slot |-> "cover", status |-> "confirmed",
                                current |-> TRUE, active |-> TRUE]]

AsgMoves(i) ==
  \/ asg'[i] = asg[i]
  \/ Ends(i) \/ Confirms(i) \/ Activates(i) \/ Nominated(i) \/ Claimed(i)
TimeoutMoves(i) ==
  \/ timeout'[i] = timeout[i]
  \/ timeout[i] \in Live /\ timeout'[i] \in ActionStatus \ {"none"}
  \/ timeout'[i] = "pending" /\ \/ Activates(i)
                                \/ Nominated(i) /\ assign.slot = "primary"
CoverMoves(i) ==
  \/ cover'[i] = cover[i]
  \/ cover[i] \in Live /\ cover'[i] \in ActionStatus \ {"none"}
  \/ cover[i] = "none" /\ cover'[i] = "pending" /\ CanQueue(i)

OverIds(f) == f = [i \in Ids |-> f[i]]
RowsMove ==
  /\ OverIds(asg') /\ OverIds(timeout') /\ OverIds(cover')
  /\ \A i \in Ids : AsgMoves(i) /\ TimeoutMoves(i) /\ CoverMoves(i)

\* An event that is over stays over, and the clock does not turn back.
Onward ==
  /\ event' \in {"active", "completed", "cancelled"}
  /\ event # "active" => event' # "active"
  /\ phase' \in {"early", "cover", "started", "ended"}
  /\ (PastStart => PastStart') /\ (phase = "ended" => phase' = "ended")
  /\ enabled' \in BOOLEAN /\ (enabled' => enabled \/ "enable" \in AdminOps)

LEMMA RowsStay == ASSUME RowsTyped, UNCHANGED <<asg, timeout, cover>> PROVE RowsMove
BY DEF RowsTyped, RowsMove, OverIds, AsgMoves, TimeoutMoves, CoverMoves

LEMMA WorldStays == ASSUME RowsTyped, UNCHANGED <<event, phase, enabled>> PROVE Onward
BY DEF RowsTyped, Onward, PastStart

LEMMA RowsTypedNext ==
  ASSUME RowsTyped, RowsMove, Onward, assign.slot \in {"primary", "backup"} \/ assign.pc # "insert"
  PROVE  RowsTyped'
<1>1. ASSUME NEW i \in Ids
      PROVE  /\ asg'[i] \in Asg
             /\ asg'[i].current <=> asg'[i].status \in {"pending", "confirmed"}
  <2>1. AsgMoves(i) /\ asg[i] \in Asg
    BY DEF RowsMove, RowsTyped
  <2>2. CASE asg'[i] = asg[i]
    BY <2>1, <2>2 DEF RowsTyped
  <2>3. CASE Ends(i)
    BY <2>1, <2>3 DEF Ends, Ended, Asg, EndedStatus, AsgStatus
  <2>4. CASE Confirms(i)
    BY <2>1, <2>4 DEF Confirms, CanRespond, Asg, AsgStatus
  <2>5. CASE Activates(i)
    BY <2>1, <2>5 DEF Activates, CanActivate, Dormant, RowsTyped, Asg, AsgStatus
  <2>6. CASE Nominated(i)
    BY <2>1, <2>6 DEF Nominated, Pending, Asg, AsgStatus, Slots
  <2>7. CASE Claimed(i)
    BY <2>1, <2>7 DEF Claimed, RowsTyped, Asg, AsgStatus, Slots
  <2> QED
    BY <2>1, <2>2, <2>3, <2>4, <2>5, <2>6, <2>7 DEF AsgMoves
<1>2. asg' \in [Ids -> Asg]
  BY <1>1 DEF RowsMove, OverIds
<1>3. ASSUME NEW i \in Ids PROVE timeout'[i] \in ActionStatus /\ cover'[i] \in ActionStatus
  BY DEF RowsTyped, RowsMove, TimeoutMoves, CoverMoves, ActionStatus, Live
<1>4. timeout' \in [Ids -> ActionStatus] /\ cover' \in [Ids -> ActionStatus]
  BY <1>3 DEF RowsMove, OverIds
<1>5. /\ event' \in {"active", "completed", "cancelled"} /\ enabled' \in BOOLEAN
      /\ phase' \in {"early", "cover", "started", "ended"}
  BY DEF Onward
<1>6. \A i \in Ids : asg'[i].current <=> asg'[i].status \in {"pending", "confirmed"}
  BY <1>1, Zenon
<1> QED
  BY <1>2, <1>4, <1>5, <1>6, Zenon DEF RowsTyped

-----------------------------------------------------------------------------
(* The inductive invariant.  First what holds whatever is issued.         *)

\* The assign transaction knows its slot, replaces assignments that exist, and
\* holds its shared lock on guild_settings from its first UPDATE on.
AssignHolds ==
  /\ assign.pc \in {"replace", "unschedule", "insert"} => assign.slot \in {"primary", "backup"}
  /\ assign.pc \in {"unschedule", "insert"} => enabled
  /\ assign.existing \in Ids => asg[assign.existing].status # "none"
  /\ \A i \in assign.replaced : asg[i].status # "none"

\* Requests and timeouts belong to assignments that exist; only an activated one
\* was ever given a timeout, and a cover volunteer is confirmed at once.
RowsAreSound ==
  \A i \in Ids :
    /\ asg[i].status = "none" => ~asg[i].active /\ cover[i] = "none"
    /\ timeout[i] # "none" => asg[i].active
    /\ asg[i].status = "confirmed" => asg[i].active
    /\ asg[i].slot = "cover" => asg[i].status # "pending"
    /\ asg[i].status = "pending" /\ ~asg[i].active => asg[i].slot = "backup"

\* What the handlers hold: an assignment that exists, and what they saw of it.
SchedIsSound ==
  /\ sched.kind = "timeout" => sched.id \in Ids /\ timeout[sched.id] # "none"
  /\ sched.kind = "cover" => sched.id \in Ids /\ cover[sched.id] # "none"
  /\ sched.kind = "missing" => PastStart
  /\ sched.pc \in {"escalate", "advance"} => sched.kind = "timeout"
  /\ sched.pc = "cleanup" => event # "active"
ButtonIsSound ==
  button.pc # "idle" =>
    button.id \in Ids /\ asg[button.id].active /\ asg[button.id].status # "pending"
ClaimIsSound ==
  claim.pc # "idle" =>
    claim.id \in Ids /\ asg[claim.id].slot = "cover" /\ asg[claim.id].active
AdminIsSound ==
  /\ admin.pc \in {"remove", "unschedule"} =>
       admin.id \in Ids /\ asg[admin.id].status # "none" /\ asg[admin.id].slot # "cover"
  /\ admin.pc = "unschedule" => asg[admin.id].status # "pending"
  /\ admin.pc = "cancel" => event # "active"
  /\ admin.pc = "tidy" => event # "active" \/ ~enabled \/ "enable" \in AdminOps

Base ==
  /\ TypeOK /\ AssignHolds /\ RowsAreSound
  /\ SchedIsSound /\ ButtonIsSound /\ ClaimIsSound /\ AdminIsSound

-----------------------------------------------------------------------------
(* Every step moves the rows like that and keeps the handlers' types.     *)

Moved == RowsMove /\ Onward /\ HandlersTyped'

LEMMA IdsFit == NoId \in Ids0 /\ Ids \subseteq Ids0 /\ NoId \notin Ids
BY BoundsAssumption DEF NoId, Ids0, Ids

LEMMA SchedFits ==
  ASSUME NEW s \in Sched
  PROVE  /\ \A pc \in SchedPcs : [s EXCEPT !.pc = pc] \in Sched
         /\ \A b \in Ids0 : [s EXCEPT !.pc = "advance", !.esc = b] \in Sched
         /\ \A k \in Kinds, i \in Ids0 :
              [pc |-> "run", kind |-> k, id |-> i, esc |-> NoId] \in Sched
BY IdsFit DEF Sched, SchedPcs

LEMMA ButtonFits ==
  ASSUME NEW b \in Button
  PROVE  /\ \A pc \in ButtonPcs : [b EXCEPT !.pc = pc] \in Button
         /\ \A j \in Ids0 : [b EXCEPT !.pc = "advance", !.esc = j] \in Button
         /\ \A pc \in ButtonPcs, i \in Ids : [pc |-> pc, id |-> i, esc |-> NoId] \in Button
BY IdsFit DEF Button, ButtonPcs

LEMMA ClaimFits ==
  /\ \A c \in Claim : [c EXCEPT !.pc = "tidy"] \in Claim
  /\ \A i \in Ids : [pc |-> "verify", id |-> i] \in Claim
BY IdsFit DEF Claim

LEMMA AdminFits ==
  /\ \A a \in Admin, pc \in AdminPcs : [a EXCEPT !.pc = pc] \in Admin
  /\ \A i \in Ids : [pc |-> "remove", id |-> i] \in Admin
BY IdsFit DEF Admin, AdminPcs

LEMMA AssignFits ==
  ASSUME NEW a \in Assign
  PROVE  /\ \A slot \in {"primary", "backup"}, i \in Ids0 :
              [IdleAssign EXCEPT !.pc = "replace", !.slot = slot, !.existing = i] \in Assign
         /\ \A S \in SUBSET Ids : [a EXCEPT !.pc = "unschedule", !.replaced = S] \in Assign
         /\ \A S, T \in SUBSET Ids :
              [a EXCEPT !.pc = "insert", !.timeouts = S, !.covers = T] \in Assign
         /\ [IdleAssign EXCEPT !.pc = "tidy"] \in Assign
BY IdsFit DEF Assign, AssignPcs, IdleAssign

LEMMA MsgsFit ==
  ASSUME NEW m \in Msgs
  PROVE  /\ [m EXCEPT !.cover = 0, !.alert = 0] \in Msgs
         /\ [m EXCEPT !.sent = 1] \in Msgs /\ [m EXCEPT !.undelivered = TRUE] \in Msgs
         /\ [m EXCEPT !.alert = @ + 1, !.cover = 0] \in Msgs
         /\ [m EXCEPT !.cover = @ + 1] \in Msgs
<1>1. m.cover + 1 \in Nat /\ m.alert + 1 \in Nat
  BY DEF Msgs
<1>2. [m EXCEPT !.alert = @ + 1, !.cover = 0] \in Msgs
  BY <1>1 DEF Msgs
<1>3. [m EXCEPT !.cover = @ + 1] \in Msgs
  BY <1>1 DEF Msgs
<1> QED
  BY <1>2, <1>3 DEF Msgs

\* One assignment moves, its action rows do not.
LEMMA OneRowMoves ==
  ASSUME RowsTyped, NEW i \in Ids, NEW a, asg' = [asg EXCEPT ![i] = a], AsgMoves(i),
         UNCHANGED <<timeout, cover>>
  PROVE  RowsMove
<1>1. \A j \in Ids : j # i => asg'[j] = asg[j]
  BY DEF RowsTyped
<1>2. \A j \in Ids : AsgMoves(j)
  BY <1>1 DEF AsgMoves
<1>3. OverIds(asg') /\ OverIds(timeout') /\ OverIds(cover')
  BY DEF RowsTyped, OverIds
<1> QED
  BY <1>2, <1>3 DEF RowsMove, TimeoutMoves, CoverMoves

LEMMA ActionRowsMove ==
  ASSUME RowsTyped, asg' = asg,
         OverIds(timeout'), \A i \in Ids : TimeoutMoves(i),
         OverIds(cover'), \A i \in Ids : CoverMoves(i)
  PROVE  RowsMove
BY DEF RowsTyped, RowsMove, AsgMoves, OverIds

LEMMA CancelLiveMoves ==
  ASSUME RowsTyped
  PROVE  /\ timeout' = CancelLive(timeout) => OverIds(timeout') /\ \A i \in Ids : TimeoutMoves(i)
         /\ cover' = CancelLive(cover) => OverIds(cover') /\ \A i \in Ids : CoverMoves(i)
         /\ timeout' = timeout => OverIds(timeout') /\ \A i \in Ids : TimeoutMoves(i)
         /\ cover' = cover => OverIds(cover') /\ \A i \in Ids : CoverMoves(i)
BY DEF RowsTyped, CancelLive, OverIds, TimeoutMoves, CoverMoves, ActionStatus, Live

LEMMA SettleRowMoves ==
  ASSUME RowsTyped, HandlersTyped, NEW s \in {"completed", "pending"}, SettleRow(s)
  PROVE  /\ OverIds(timeout') /\ \A i \in Ids : TimeoutMoves(i)
         /\ OverIds(cover') /\ \A i \in Ids : CoverMoves(i)
         /\ safety' \in [Safety -> ActionStatus \ {"none"}]
<1>1. OverIds(timeout') /\ \A i \in Ids : TimeoutMoves(i)
  BY DEF SettleRow, RowsTyped, OverIds, TimeoutMoves, ActionStatus, Live
<1>2. OverIds(cover') /\ \A i \in Ids : CoverMoves(i)
  BY DEF SettleRow, RowsTyped, OverIds, CoverMoves, ActionStatus, Live
<1>3. safety' \in [Safety -> ActionStatus \ {"none"}]
  BY DEF SettleRow, HandlersTyped, ActionStatus
<1> QED
  BY <1>1, <1>2, <1>3

\* The two transactions an escalation ends in.
LEMMA EscalateMoves ==
  ASSUME RowsTyped, NEW i \in Ids, NEW b \in Ids0, Escalate(i, b)
  PROVE  RowsMove
<1>1. CASE b = NoId
  <2>1. UNCHANGED <<asg, timeout>>
        /\ cover' = IF CanQueue(i) /\ cover[i] = "none"
                    THEN [cover EXCEPT ![i] = "pending"] ELSE cover
    BY <1>1 DEF Escalate, QueueCover
  <2>2. OverIds(cover') /\ \A j \in Ids : CoverMoves(j)
    BY <2>1 DEF RowsTyped, OverIds, CoverMoves
  <2> QED
    BY <2>1, <2>2, CancelLiveMoves, ActionRowsMove
<1>2. CASE b # NoId /\ CanActivate(b)
  <2>1. b \in Ids
    BY <1>2 DEF Ids, Ids0, NoId
  <2>2. /\ asg' = [asg EXCEPT ![b].active = TRUE]
        /\ timeout' = [timeout EXCEPT ![b] = "pending"]
        /\ cover' = cover
    BY <1>2 DEF Escalate, ActivateBackup
  <2>3. /\ asg' = [asg EXCEPT ![b] = [asg[b] EXCEPT !.active = TRUE]] /\ timeout'[b] = "pending"
        /\ \A j \in Ids : j # b => asg'[j] = asg[j] /\ timeout'[j] = timeout[j]
        /\ OverIds(asg') /\ OverIds(timeout') /\ OverIds(cover')
    BY <2>1, <2>2 DEF RowsTyped, OverIds, Asg
  <2>4. Activates(b)
    BY <1>2, <2>3 DEF Activates
  <2> QED
    BY <2>2, <2>3, <2>4 DEF RowsMove, AsgMoves, TimeoutMoves, CoverMoves
<1>3. CASE b # NoId /\ ~CanActivate(b)
  BY <1>3, RowsStay DEF Escalate, ActivateBackup
<1> QED
  BY <1>1, <1>2, <1>3

-----------------------------------------------------------------------------
(* The steps of the scheduler.                                            *)

LEMMA ClockMoves == ASSUME Base, TimePasses PROVE Moved
<1>1. RowsTyped /\ HandlersTyped
  BY Typed DEF Base
<1>2. HandlersTyped'
  BY <1>1 DEF HandlersTyped, TimePasses, rows, procs
<1>3. RowsMove
  BY <1>1, RowsStay DEF TimePasses, rows
<1>4. Onward
  BY <1>1 DEF Onward, RowsTyped, PastStart, TimePasses, NextPhase
<1> QED
  BY <1>2, <1>3, <1>4 DEF Moved

LEMMA SchedulerClaimsMove == ASSUME Base, SchedulerClaims PROVE Moved
<1>1. RowsTyped /\ HandlersTyped /\ sched \in Sched
  BY Typed DEF Base, HandlersTyped
<1>2. ASSUME NEW i \in Ids, ClaimTimeout(i) PROVE Moved
  <2>1. sched' \in Sched
    BY <1>1, <1>2, SchedFits, IdsFit DEF ClaimTimeout, Kinds
  <2>2. HandlersTyped'
    BY <1>1, <1>2, <2>1 DEF HandlersTyped, ClaimTimeout, Keep
  <2>3. OverIds(timeout') /\ \A j \in Ids : TimeoutMoves(j)
    BY <1>1, <1>2 DEF RowsTyped, OverIds, TimeoutMoves, ClaimTimeout, Live, ActionStatus
  <2>4. RowsMove
    BY <1>1, <1>2, <2>3, ActionRowsMove, CancelLiveMoves DEF ClaimTimeout
  <2> QED
    BY <1>1, <1>2, <2>2, <2>4, WorldStays DEF Moved, ClaimTimeout, Keep, clock
<1>3. ASSUME NEW i \in Ids, ClaimCover(i) PROVE Moved
  <2>1. sched' \in Sched
    BY <1>1, <1>3, SchedFits, IdsFit DEF ClaimCover, Kinds
  <2>2. HandlersTyped'
    BY <1>1, <1>3, <2>1 DEF HandlersTyped, ClaimCover, Keep
  <2>3. OverIds(cover') /\ \A j \in Ids : CoverMoves(j)
    BY <1>1, <1>3 DEF RowsTyped, OverIds, CoverMoves, ClaimCover, Live, ActionStatus
  <2>4. RowsMove
    BY <1>1, <1>3, <2>3, ActionRowsMove, CancelLiveMoves DEF ClaimCover
  <2> QED
    BY <1>1, <1>3, <2>2, <2>4, WorldStays DEF Moved, ClaimCover, Keep, clock
<1>4. ASSUME NEW k \in Safety, ClaimSafety(k) PROVE Moved
  <2>1. sched' \in Sched
    BY <1>1, <1>4, SchedFits, IdsFit DEF ClaimSafety, Kinds
  <2>2. safety' \in [Safety -> ActionStatus \ {"none"}]
    BY <1>1, <1>4 DEF HandlersTyped, ClaimSafety, ActionStatus
  <2>3. HandlersTyped'
    BY <1>1, <1>4, <2>1, <2>2 DEF HandlersTyped, ClaimSafety, Keep
  <2> QED
    BY <1>1, <1>4, <2>3, RowsStay, WorldStays DEF Moved, ClaimSafety, Keep, clock
<1> QED
  BY <1>2, <1>3, <1>4 DEF SchedulerClaims

LEMMA TimeoutStepsMove ==
  ASSUME Base, TimeoutTransaction \/ TimeoutEscalationRead \/ TimeoutEscalationWrite PROVE Moved
<1>1. RowsTyped /\ HandlersTyped /\ sched \in Sched
  BY Typed DEF Base, HandlersTyped
<1>2. CASE TimeoutTransaction
  <2>1. HandlersTyped'
    BY <1>1, <1>2, SchedFits DEF HandlersTyped, TimeoutTransaction, Keep, Goto, rows, SchedPcs
  <2>2. ASSUME Ongoing /\ enabled /\ TimesOut(sched.id) PROVE RowsMove
    <3>1. sched.id \in Ids
      BY <1>2 DEF Base, SchedIsSound, TimeoutTransaction
    <3>2. asg' = [asg EXCEPT ![sched.id] = Ended(asg[sched.id], "timed_out")]
      BY <1>2, <2>2 DEF TimeoutTransaction
    <3>3. asg'[sched.id] = Ended(asg[sched.id], "timed_out")
      BY <1>1, <3>1, <3>2 DEF RowsTyped
    <3>4. AsgMoves(sched.id)
      BY <2>2, <3>3 DEF AsgMoves, Ends, EndedStatus, TimesOut, CanRespond, Ongoing
    <3>5. timeout' = timeout /\ cover' = cover
      BY <1>2 DEF TimeoutTransaction, rows
    <3> QED
      BY <1>1, <3>1, <3>2, <3>4, <3>5, OneRowMoves
  <2>3. ASSUME ~(Ongoing /\ enabled /\ TimesOut(sched.id)) PROVE RowsMove
    <3>1. asg' = asg
      BY <1>2, <2>3 DEF TimeoutTransaction
    <3>2. timeout' = timeout /\ cover' = cover
      BY <1>2 DEF TimeoutTransaction, rows
    <3> QED
      BY <1>1, <3>1, <3>2, RowsStay
  <2> QED
    BY <1>1, <1>2, <2>1, <2>2, <2>3, WorldStays DEF Moved, TimeoutTransaction, Keep, clock
<1>3. CASE TimeoutEscalationRead
  <2>1. sched' \in Sched
    BY <1>1, <1>3, SchedFits, DormantBackupFits DEF TimeoutEscalationRead, SchedPcs
  <2>2. HandlersTyped'
    BY <1>1, <1>3, <2>1 DEF HandlersTyped, TimeoutEscalationRead, Keep, rows
  <2> QED
    BY <1>1, <1>3, <2>2, RowsStay, WorldStays DEF Moved, TimeoutEscalationRead, Keep, rows, clock
<1>4. CASE TimeoutEscalationWrite
  <2>1. HandlersTyped'
    BY <1>1, <1>4, SchedFits DEF HandlersTyped, TimeoutEscalationWrite, Keep, Goto, SchedPcs
  <2>2. sched.id \in Ids /\ sched.esc \in Ids0
    BY <1>1, <1>4 DEF Base, SchedIsSound, TimeoutEscalationWrite, Sched
  <2>3. RowsMove
    BY <1>1, <1>4, <2>2, EscalateMoves DEF TimeoutEscalationWrite
  <2> QED
    BY <1>1, <1>4, <2>1, <2>3, WorldStays DEF Moved, TimeoutEscalationWrite, Keep, clock
<1> QED
  BY <1>2, <1>3, <1>4

LEMMA SafetyStepsMove ==
  ASSUME Base, SafetyTransaction \/ CompleteEvent \/ CompleteCleanup PROVE Moved
<1>1. RowsTyped /\ HandlersTyped /\ sched \in Sched
  BY Typed DEF Base, HandlersTyped
<1>2. CASE SafetyTransaction
  <2>1. HandlersTyped'
    BY <1>1, <1>2, SchedFits DEF HandlersTyped, SafetyTransaction, Keep, Goto, SchedPcs
  <2>2. ASSUME SafetyApplies PROVE RowsMove
    <3>1. asg' = [i \in Ids |-> IF i \in Nominees THEN Ended(asg[i], "removed") ELSE asg[i]]
          /\ timeout' = CancelLive(timeout) /\ cover' = cover
      BY <1>2, <2>2 DEF SafetyTransaction, RetireNominees
    <3>2. ASSUME NEW i \in Ids PROVE AsgMoves(i)
      BY <3>1 DEF AsgMoves, Ends, EndedStatus, Nominees
    <3>3. OverIds(asg')
      BY <3>1 DEF OverIds
    <3>4. /\ OverIds(timeout') /\ \A i \in Ids : TimeoutMoves(i)
          /\ OverIds(cover') /\ \A i \in Ids : CoverMoves(i)
      BY <1>1, <3>1, CancelLiveMoves
    <3> QED
      BY <3>2, <3>3, <3>4 DEF RowsMove
  <2>3. ASSUME ~SafetyApplies PROVE RowsMove
    <3>1. asg' = asg /\ timeout' = timeout /\ cover' = cover
      BY <1>2, <2>3 DEF SafetyTransaction
    <3> QED
      BY <1>1, <3>1, RowsStay
  <2> QED
    BY <1>1, <1>2, <2>1, <2>2, <2>3, WorldStays DEF Moved, SafetyTransaction, Keep, clock
<1>3. CASE CompleteEvent
  <2>1. HandlersTyped'
    BY <1>1, <1>3, SchedFits DEF HandlersTyped, CompleteEvent, Goto, SchedPcs, rows
  <2>2. Onward
    BY <1>1, <1>3 DEF Onward, RowsTyped, PastStart, CompleteEvent
  <2> QED
    BY <1>1, <1>3, <2>1, <2>2, RowsStay DEF Moved, CompleteEvent, rows
<1>4. CASE CompleteCleanup
  <2>1. safety' \in [Safety -> ActionStatus \ {"none"}]
    BY <1>1, <1>4 DEF HandlersTyped, CompleteCleanup, CancelEscalation, ActionStatus
  <2>2. sched' \in Sched /\ msgs' \in Msgs
    BY <1>1, <1>4, SchedFits, MsgsFit DEF HandlersTyped, CompleteCleanup, Goto, SchedPcs
  <2>3. HandlersTyped'
    BY <1>1, <1>4, <2>1, <2>2 DEF HandlersTyped, CompleteCleanup
  <2>4. RowsMove
    BY <1>1, <1>4, CancelLiveMoves, ActionRowsMove DEF CompleteCleanup, CancelEscalation
  <2> QED
    BY <1>1, <1>4, <2>3, <2>4, WorldStays DEF Moved, CompleteCleanup, clock
<1> QED
  BY <1>2, <1>3, <1>4

LEMMA CoverStepsMove ==
  ASSUME Base, \/ DeadlineDefersToCover \/ CoverRequestStart \/ Recheck
               \/ SendCoverMessage \/ PersistCoverMessage
  PROVE  Moved
<1>1. RowsTyped /\ HandlersTyped /\ sched \in Sched /\ msgs \in Msgs
  BY Typed DEF Base, HandlersTyped
<1>2. CASE DeadlineDefersToCover \/ CoverRequestStart \/ Recheck
  <2>1. sched' \in Sched
    BY <1>1, <1>2, SchedFits DEF DeadlineDefersToCover, CoverRequestStart, Recheck, Goto, SchedPcs
  <2>2. /\ asg' = asg /\ timeout' = timeout /\ cover' = cover
        /\ event' = event /\ phase' = phase /\ enabled' = enabled
    BY <1>2 DEF DeadlineDefersToCover, CoverRequestStart, Recheck, Keep, rows, clock
  <2>3. HandlersTyped'
    BY <1>1, <1>2, <2>1
       DEF HandlersTyped, DeadlineDefersToCover, CoverRequestStart, Recheck, Keep, rows
  <2> QED
    BY <1>1, <2>2, <2>3, RowsStay, WorldStays DEF Moved
<1>3. CASE SendCoverMessage \/ PersistCoverMessage
  <2>1. sched' \in Sched
    BY <1>1, <1>3, SchedFits DEF SendCoverMessage, PersistCoverMessage, Goto, SchedPcs
  <2>2. msgs' \in Msgs
    BY <1>1, <1>3, MsgsFit DEF SendCoverMessage, PersistCoverMessage
  <2>3. HandlersTyped'
    BY <1>1, <1>3, <2>1, <2>2 DEF HandlersTyped, SendCoverMessage, PersistCoverMessage, rows
  <2>4. /\ asg' = asg /\ timeout' = timeout /\ cover' = cover
        /\ event' = event /\ phase' = phase /\ enabled' = enabled
    BY <1>3 DEF SendCoverMessage, PersistCoverMessage, rows, clock
  <2> QED
    BY <1>1, <2>3, <2>4, RowsStay, WorldStays DEF Moved
<1> QED
  BY <1>2, <1>3

\* A row is settled at the end of its execution, or when the executor throws or
\* the process dies.
LEMMA SettlingMoves ==
  ASSUME Base, MarkActionCompleted \/ ExecutorInterrupted \/ ProcessLoss PROVE Moved
<1>1. RowsTyped /\ HandlersTyped /\ sched \in Sched
  BY Typed DEF Base, HandlersTyped
<1>2. CASE MarkActionCompleted
  <2>1. SettleRow("completed") /\ asg' = asg
    BY <1>2 DEF MarkActionCompleted
  <2>2. HandlersTyped'
    BY <1>1, <1>2, <2>1, SettleRowMoves, IdleFits DEF HandlersTyped, MarkActionCompleted, Keep
  <2>3. RowsMove
    BY <1>1, <2>1, SettleRowMoves, ActionRowsMove
  <2> QED
    BY <1>1, <1>2, <2>2, <2>3, WorldStays DEF Moved, MarkActionCompleted, Keep, clock
<1>3. CASE ExecutorInterrupted
  <2>1. SettleRow("pending") /\ asg' = asg /\ faults' = faults + 1
    BY <1>3 DEF ExecutorInterrupted
  <2>2. HandlersTyped'
    BY <1>1, <1>3, <2>1, SettleRowMoves, IdleFits DEF HandlersTyped, ExecutorInterrupted
  <2>3. RowsMove
    BY <1>1, <2>1, SettleRowMoves, ActionRowsMove
  <2> QED
    BY <1>1, <1>3, <2>2, <2>3, WorldStays DEF Moved, ExecutorInterrupted, clock
<1>4. CASE ProcessLoss
  <2>1. SettleRow("pending") /\ asg' = asg /\ faults' = faults + 1
    BY <1>4 DEF ProcessLoss
  <2>2. HandlersTyped'
    BY <1>1, <1>4, <2>1, SettleRowMoves, IdleFits DEF HandlersTyped, ProcessLoss
  <2>3. RowsMove
    BY <1>1, <2>1, SettleRowMoves, ActionRowsMove
  <2> QED
    BY <1>1, <1>4, <2>2, <2>3, WorldStays DEF Moved, ProcessLoss, clock
<1> QED
  BY <1>2, <1>3, <1>4

-----------------------------------------------------------------------------
(* The steps of the buttons.                                              *)

LEMMA ResponseMoves ==
  ASSUME Base, NEW i \in Ids, NEW answer \in {"confirm", "decline"}, Respond(i, answer)
  PROVE  Moved
<1>1. RowsTyped /\ HandlersTyped /\ button \in Button
  BY Typed DEF Base, HandlersTyped
<1>2. HandlersTyped'
  BY <1>1, ButtonFits DEF HandlersTyped, Respond, KeepB, ButtonPcs
<1>3. timeout' = timeout /\ cover' = cover /\ event = "active" /\ enabled /\ CanRespond(i)
  BY DEF Respond
<1>4. CASE answer = "confirm"
  <2>1. asg' = [asg EXCEPT ![i] = [asg[i] EXCEPT !.status = "confirmed"]]
    BY <1>1, <1>4 DEF Respond, RowsTyped, Asg
  <2>2. AsgMoves(i)
    BY <1>1, <1>3, <2>1 DEF RowsTyped, AsgMoves, Confirms
  <2>3. RowsMove
    BY <1>1, <1>3, <2>1, <2>2, OneRowMoves
  <2> QED
    BY <1>1, <1>2, <2>3, WorldStays DEF Moved, Respond, KeepB, clock
<1>5. CASE answer # "confirm"
  <2>1. asg' = [asg EXCEPT ![i] = Ended(asg[i], "declined")]
    BY <1>5 DEF Respond
  <2>2. asg'[i] = Ended(asg[i], "declined")
    BY <1>1, <2>1 DEF RowsTyped
  <2>3. AsgMoves(i)
    BY <1>3, <2>2 DEF AsgMoves, Ends, EndedStatus, CanRespond
  <2>4. RowsMove
    BY <1>1, <1>3, <2>1, <2>3, OneRowMoves
  <2> QED
    BY <1>1, <1>2, <2>4, WorldStays DEF Moved, Respond, KeepB, clock
<1> QED
  BY <1>4, <1>5

\* cancelOrganiserResponseActions
LEMMA ResponseActionsMove ==
  ASSUME RowsTyped, NEW i \in Ids, CancelResponseActions(i), asg' = asg, cover' = cover
  PROVE  RowsMove
<1>1. OverIds(timeout') /\ \A j \in Ids : TimeoutMoves(j)
  BY DEF RowsTyped, OverIds, TimeoutMoves, CancelResponseActions, Live, ActionStatus
<1> QED
  BY <1>1, CancelLiveMoves, ActionRowsMove

LEMMA ButtonStepsMove ==
  ASSUME Base, \/ AfterResponse \/ ConfirmTidies \/ DeclineEscalationRead
               \/ DeclineEscalationWrite \/ ButtonInterrupted
  PROVE  Moved
<1>1. RowsTyped /\ HandlersTyped /\ button \in Button /\ msgs \in Msgs
  BY Typed DEF Base, HandlersTyped
<1>2. CASE AfterResponse
  <2>1. button' \in Button
    BY <1>1, <1>2, ButtonFits DEF AfterResponse, ButtonPcs
  <2>2. HandlersTyped'
    BY <1>1, <1>2, <2>1 DEF HandlersTyped, AfterResponse, KeepB
  <2>3. button.id \in Ids
    BY <1>2 DEF Base, ButtonIsSound, AfterResponse
  <2>4. RowsMove
    BY <1>1, <1>2, <2>3, ResponseActionsMove DEF AfterResponse
  <2> QED
    BY <1>1, <1>2, <2>2, <2>4, WorldStays DEF Moved, AfterResponse, KeepB, clock
<1>3. CASE ConfirmTidies
  <2>1. msgs' \in Msgs
    BY <1>1, <1>3, MsgsFit DEF ConfirmTidies
  <2>2. HandlersTyped'
    BY <1>1, <1>3, <2>1, IdleFits DEF HandlersTyped, ConfirmTidies, rows
  <2> QED
    BY <1>1, <1>3, <2>2, RowsStay, WorldStays DEF Moved, ConfirmTidies, rows, clock
<1>4. CASE DeclineEscalationRead
  <2>1. button' \in Button
    BY <1>1, <1>4, ButtonFits, IdleFits, DormantBackupFits DEF DeclineEscalationRead
  <2>2. HandlersTyped'
    BY <1>1, <1>4, <2>1 DEF HandlersTyped, DeclineEscalationRead, KeepB
  <2> QED
    BY <1>1, <1>4, <2>2, RowsStay, WorldStays DEF Moved, DeclineEscalationRead, KeepB, clock
<1>5. CASE DeclineEscalationWrite
  <2>1. HandlersTyped'
    BY <1>1, <1>5, IdleFits DEF HandlersTyped, DeclineEscalationWrite, KeepB
  <2>2. button.id \in Ids /\ button.esc \in Ids0
    BY <1>1, <1>5 DEF Base, ButtonIsSound, DeclineEscalationWrite, Button
  <2>3. RowsMove
    BY <1>1, <1>5, <2>2, EscalateMoves DEF DeclineEscalationWrite
  <2> QED
    BY <1>1, <1>5, <2>1, <2>3, WorldStays DEF Moved, DeclineEscalationWrite, KeepB, clock
<1>6. CASE ButtonInterrupted
  <2>1. HandlersTyped'
    BY <1>1, <1>6, IdleFits DEF HandlersTyped, ButtonInterrupted, rows
  <2> QED
    BY <1>1, <1>6, <2>1, RowsStay, WorldStays DEF Moved, ButtonInterrupted, rows, clock
<1> QED
  BY <1>2, <1>3, <1>4, <1>5, <1>6

LEMMA ClaimStepsMove ==
  ASSUME Base, ClaimCoverEvent \/ VerifyClaim \/ ClaimTidies PROVE Moved
<1>1. RowsTyped /\ HandlersTyped /\ claim \in Claim /\ msgs \in Msgs
  BY Typed DEF Base, HandlersTyped
<1>2. CASE ClaimCoverEvent
  <2>1. NextId \in Free /\ NextId \in Ids
    BY <1>2, NextIdIsFree DEF ClaimCoverEvent, Free
  <2>2. HandlersTyped'
    BY <1>1, <1>2, <2>1, ClaimFits DEF HandlersTyped, ClaimCoverEvent, KeepC, rows
  <2>3. CanClaim /\ claim.pc = "idle" /\ timeout' = timeout /\ cover' = cover
        /\ asg' = [asg EXCEPT ![NextId] = [slot |-> "cover", status |-> "confirmed",
                                           current |-> TRUE, active |-> TRUE]]
    BY <1>2 DEF ClaimCoverEvent, KeepC, rows
  <2>4. AsgMoves(NextId)
    BY <1>1, <2>1, <2>3 DEF RowsTyped, AsgMoves, Claimed
  <2>5. RowsMove
    BY <1>1, <2>1, <2>3, <2>4, OneRowMoves
  <2> QED
    BY <1>1, <1>2, <2>2, <2>5, WorldStays DEF Moved, ClaimCoverEvent, KeepC, clock
<1>3. CASE VerifyClaim
  <2>1. claim' \in Claim
    BY <1>1, <1>3, ClaimFits, IdleFits DEF VerifyClaim
  <2>2. HandlersTyped'
    BY <1>1, <1>3, <2>1 DEF HandlersTyped, VerifyClaim, KeepC, rows
  <2>3. timeout' = timeout /\ cover' = cover
    BY <1>3 DEF VerifyClaim, KeepC, rows
  <2>4. ASSUME ActiveIds \ {claim.id} # {} PROVE RowsMove
    <3>1. claim.id \in Ids /\ asg[claim.id].status # "none"
      BY <1>3 DEF Base, ClaimIsSound, RowsAreSound, VerifyClaim
    <3>2. asg' = [asg EXCEPT ![claim.id] = Ended(asg[claim.id], "replaced")]
      BY <1>3, <2>4 DEF VerifyClaim
    <3>3. asg'[claim.id] = Ended(asg[claim.id], "replaced") /\ claim.pc = "verify"
      BY <1>1, <1>3, <3>1, <3>2 DEF RowsTyped, VerifyClaim
    <3>4. AsgMoves(claim.id)
      BY <2>4, <3>1, <3>3 DEF AsgMoves, Ends, EndedStatus
    <3> QED
      BY <1>1, <2>3, <3>1, <3>2, <3>4, OneRowMoves
  <2>5. ASSUME ActiveIds \ {claim.id} = {} PROVE RowsMove
    BY <1>1, <1>3, <2>3, <2>5, RowsStay DEF VerifyClaim
  <2> QED
    BY <1>1, <1>3, <2>2, <2>4, <2>5, WorldStays DEF Moved, VerifyClaim, KeepC, clock
<1>4. CASE ClaimTidies
  <2>1. msgs' \in Msgs
    BY <1>1, <1>4, MsgsFit DEF ClaimTidies
  <2>2. HandlersTyped'
    BY <1>1, <1>4, <2>1, IdleFits DEF HandlersTyped, ClaimTidies, KeepC, rows
  <2> QED
    BY <1>1, <1>4, <2>2, RowsStay, WorldStays DEF Moved, ClaimTidies, KeepC, rows, clock
<1> QED
  BY <1>2, <1>3, <1>4

-----------------------------------------------------------------------------
(* The administrator commands.                                            *)

LEMMA AssignCommitMoves == ASSUME Base, AssignCommit PROVE Moved
<1>1. RowsTyped /\ HandlersTyped /\ assign \in Assign
  BY Typed DEF Base, HandlersTyped
<1>2. HandlersTyped'
  BY <1>1, IdleFits, AssignFits DEF HandlersTyped, AssignCommit, KeepN
<1>3. assign.pc = "insert" /\ enabled /\ assign.slot \in {"primary", "backup"}
      /\ \A i \in assign.replaced : asg[i].status # "none"
  BY DEF AssignCommit, Base, AssignHolds
<1>4. ASSUME Free = {} \/ CurrentIn(assign.slot) \ assign.replaced # {} PROVE RowsMove
  BY <1>1, <1>4, RowsStay DEF AssignCommit
<1>5. ASSUME ~(Free = {} \/ CurrentIn(assign.slot) \ assign.replaced # {}) PROVE RowsMove
  <2>1. NextId \in Free /\ NextId \in Ids
    BY <1>5, NextIdIsFree DEF Free
  <2>2. asg' = Assigned
    BY <1>5 DEF AssignCommit
  <2>3. Nominated(NextId)
    <3>1. assign.slot = "primary" => timeout'[NextId] = "pending"
      BY <1>5, <2>1 DEF AssignCommit, Unscheduled
    <3> QED
      BY <1>3, <2>1, <2>2, <3>1 DEF Nominated, Assigned
  <2>4. ASSUME NEW i \in Ids PROVE AsgMoves(i)
    BY <1>3, <2>2, <2>3, <2>4 DEF AsgMoves, Ends, EndedStatus, Assigned
  <2>5. OverIds(asg')
    BY <2>2 DEF OverIds, Assigned
  <2>6. ASSUME assign.slot = "primary" PROVE RowsMove
    <3>1. /\ timeout' = [Unscheduled(timeout, assign.timeouts) EXCEPT ![NextId] = "pending"]
          /\ cover' = Unscheduled(cover, assign.covers)
      BY <1>5, <2>6 DEF AssignCommit
    <3>2. OverIds(timeout') /\ \A i \in Ids : i # NextId => TimeoutMoves(i)
      BY <1>1, <3>1 DEF RowsTyped, OverIds, Unscheduled, TimeoutMoves, Live, ActionStatus
    <3>3. timeout'[NextId] = "pending"
      BY <2>1, <3>1 DEF Unscheduled
    <3>4. OverIds(cover') /\ \A i \in Ids : CoverMoves(i)
      BY <1>1, <3>1 DEF RowsTyped, OverIds, Unscheduled, CoverMoves, Live, ActionStatus
    <3>5. \A i \in Ids : TimeoutMoves(i)
      BY <2>3, <2>6, <3>2, <3>3 DEF TimeoutMoves
    <3> QED
      BY <2>4, <2>5, <3>2, <3>4, <3>5 DEF RowsMove
  <2>7. ASSUME assign.slot # "primary" PROVE RowsMove
    <3>1. timeout' = timeout /\ cover' = cover
      BY <1>5, <2>7 DEF AssignCommit
    <3>2. /\ OverIds(timeout') /\ \A i \in Ids : TimeoutMoves(i)
          /\ OverIds(cover') /\ \A i \in Ids : CoverMoves(i)
      BY <1>1, <3>1, CancelLiveMoves
    <3> QED
      BY <2>4, <2>5, <3>2 DEF RowsMove
  <2> QED
    BY <2>6, <2>7
<1> QED
  BY <1>1, <1>2, <1>4, <1>5, WorldStays DEF Moved, AssignCommit, KeepN, clock

LEMMA AssignStepsMove ==
  ASSUME Base, \/ \E slot \in {"primary", "backup"} : AssignRead(slot)
               \/ AssignReplace \/ AssignUnschedule \/ AssignTidies
  PROVE  Moved
<1>1. RowsTyped /\ HandlersTyped /\ assign \in Assign /\ msgs \in Msgs
  BY Typed DEF Base, HandlersTyped
<1>2. ASSUME NEW slot \in {"primary", "backup"}, AssignRead(slot) PROVE Moved
  <2>1. IF CurrentIn(slot) = {} THEN TRUE ELSE (CHOOSE i \in CurrentIn(slot) : TRUE) \in Ids
    BY DEF CurrentIn
  <2>2. assign' \in Assign
    BY <1>1, <1>2, <2>1, IdsFit, AssignFits DEF AssignRead
  <2>3. issued' \in Nat
    BY <1>1, <1>2 DEF HandlersTyped, AssignRead, Issue
  <2>4. HandlersTyped'
    BY <1>1, <1>2, <2>2, <2>3 DEF HandlersTyped, AssignRead, KeepN
  <2> QED
    BY <1>1, <1>2, <2>4, RowsStay, WorldStays DEF Moved, AssignRead, KeepN, clock
<1>3. CASE AssignReplace
  <2>1. Superseded \cup ({assign.existing} \ {NoId}) \in SUBSET Ids
    BY <1>1 DEF Superseded, Assign, Ids, Ids0, NoId
  <2>2. assign' \in Assign
    BY <1>1, <1>3, <2>1, IdleFits, AssignFits DEF AssignReplace
  <2>3. HandlersTyped'
    BY <1>1, <1>3, <2>2 DEF HandlersTyped, AssignReplace, KeepN
  <2> QED
    BY <1>1, <1>3, <2>3, RowsStay, WorldStays DEF Moved, AssignReplace, KeepN, clock
<1>4. CASE AssignUnschedule
  <2>1. assign' \in Assign
    BY <1>1, <1>4, AssignFits DEF AssignUnschedule, LiveIn
  <2>2. HandlersTyped'
    BY <1>1, <1>4, <2>1 DEF HandlersTyped, AssignUnschedule, KeepN
  <2> QED
    BY <1>1, <1>4, <2>2, RowsStay, WorldStays DEF Moved, AssignUnschedule, KeepN, clock
<1>5. CASE AssignTidies
  <2>1. msgs' \in Msgs
    BY <1>1, <1>5, MsgsFit DEF AssignTidies, Tidied
  <2>2. HandlersTyped'
    BY <1>1, <1>5, <2>1, IdleFits DEF HandlersTyped, AssignTidies, KeepN
  <2> QED
    BY <1>1, <1>5, <2>2, RowsStay, WorldStays DEF Moved, AssignTidies, KeepN, clock
<1> QED
  BY <1>2, <1>3, <1>4, <1>5

LEMMA RemovalMoves ==
  ASSUME Base, RemoveRead \/ RemoveTransaction \/ RemoveActions PROVE Moved
<1>1. RowsTyped /\ HandlersTyped /\ admin \in Admin
  BY Typed DEF Base, HandlersTyped
<1>2. CASE RemoveRead
  <2>1. admin' \in Admin /\ issued' \in Nat
    BY <1>1, <1>2, AdminFits DEF HandlersTyped, RemoveRead, Issue, CurrentIn
  <2>2. HandlersTyped'
    BY <1>1, <1>2, <2>1 DEF HandlersTyped, RemoveRead, KeepA, rows
  <2> QED
    BY <1>1, <1>2, <2>2, RowsStay, WorldStays DEF Moved, RemoveRead, KeepA, rows
<1>3. CASE RemoveTransaction
  <2>1. admin' \in Admin
    BY <1>1, <1>3, AdminFits, IdleFits DEF RemoveTransaction, AdminPcs
  <2>2. HandlersTyped'
    BY <1>1, <1>3, <2>1 DEF HandlersTyped, RemoveTransaction, KeepA, rows
  <2>3. timeout' = timeout /\ cover' = cover
    BY <1>3 DEF RemoveTransaction, rows
  <2>4. ASSUME enabled /\ asg[admin.id].current PROVE RowsMove
    <3>1. admin.id \in Ids /\ asg[admin.id].status # "none" /\ asg[admin.id].slot # "cover"
      BY <1>3 DEF Base, AdminIsSound, RemoveTransaction
    <3>2. asg' = [asg EXCEPT ![admin.id] = Ended(asg[admin.id], "removed")]
      BY <1>3, <2>4 DEF RemoveTransaction
    <3>3. asg'[admin.id] = Ended(asg[admin.id], "removed")
      BY <1>1, <3>1, <3>2 DEF RowsTyped
    <3>4. AsgMoves(admin.id)
      BY <2>4, <3>1, <3>3 DEF AsgMoves, Ends, EndedStatus
    <3> QED
      BY <1>1, <2>3, <3>1, <3>2, <3>4, OneRowMoves
  <2>5. ASSUME ~(enabled /\ asg[admin.id].current) PROVE RowsMove
    <3>1. asg' = asg
      BY <1>3, <2>5 DEF RemoveTransaction
    <3> QED
      BY <1>1, <2>3, <3>1, RowsStay
  <2>6. event' = event /\ phase' = phase /\ enabled' = enabled
    BY <1>3 DEF RemoveTransaction, KeepA
  <2> QED
    BY <1>1, <2>2, <2>4, <2>5, <2>6, WorldStays DEF Moved
<1>4. CASE RemoveActions
  <2>1. HandlersTyped'
    BY <1>1, <1>4, IdleFits DEF HandlersTyped, RemoveActions, KeepA
  <2>2. admin.id \in Ids
    BY <1>4 DEF Base, AdminIsSound, RemoveActions
  <2>3. RowsMove
    BY <1>1, <1>4, <2>2, ResponseActionsMove DEF RemoveActions
  <2> QED
    BY <1>1, <1>4, <2>1, <2>3, WorldStays DEF Moved, RemoveActions, KeepA
<1> QED
  BY <1>2, <1>3, <1>4

LEMMA CancellationMoves == ASSUME Base, CancelEvent \/ CancelActions PROVE Moved
<1>1. RowsTyped /\ HandlersTyped /\ admin \in Admin
  BY Typed DEF Base, HandlersTyped
<1>2. CASE CancelEvent
  <2>1. admin' \in Admin /\ issued' \in Nat
    <3>1. admin' \in Admin
      BY <1>2, AdminFits, IdleFits DEF CancelEvent, AdminPcs
    <3> QED
      BY <1>1, <1>2, <3>1 DEF HandlersTyped, CancelEvent, Issue
  <2>2. HandlersTyped'
    BY <1>1, <1>2, <2>1 DEF HandlersTyped, CancelEvent, KeepA, rows
  <2>3. Onward
    BY <1>1, <1>2 DEF Onward, RowsTyped, PastStart, CancelEvent, KeepA
  <2> QED
    BY <1>1, <1>2, <2>2, <2>3, RowsStay DEF Moved, CancelEvent, rows
<1>3. CASE CancelActions
  <2>1. safety' \in [Safety -> ActionStatus \ {"none"}]
    BY <1>1, <1>3 DEF HandlersTyped, CancelActions, ActionStatus
  <2>2. admin' \in Admin
    BY <1>1, <1>3, AdminFits, IdleFits DEF CancelActions, AdminPcs
  <2>3. HandlersTyped'
    BY <1>1, <1>3, <2>1, <2>2 DEF HandlersTyped, CancelActions, KeepA
  <2>4. RowsMove
    BY <1>1, <1>3, CancelLiveMoves, ActionRowsMove DEF CancelActions
  <2> QED
    BY <1>1, <1>3, <2>3, <2>4, WorldStays DEF Moved, CancelActions, KeepA
<1> QED
  BY <1>2, <1>3

LEMMA FeatureStepsMove ==
  ASSUME Base, DisableOrganisers \/ EnableOrganisers \/ AdminTidies PROVE Moved
<1>1. RowsTyped /\ HandlersTyped /\ admin \in Admin /\ msgs \in Msgs
  BY Typed DEF Base, HandlersTyped
<1>2. CASE DisableOrganisers
  <2>1. admin' \in Admin /\ issued' \in Nat
    <3>1. admin' \in Admin
      BY <1>2, AdminFits, IdleFits DEF DisableOrganisers, AdminPcs
    <3> QED
      BY <1>1, <1>2, <3>1 DEF HandlersTyped, DisableOrganisers, Issue
  <2>2. HandlersTyped'
    BY <1>1, <1>2, <2>1 DEF HandlersTyped, DisableOrganisers, KeepA
  <2>3. asg' = [i \in Ids |-> IF asg[i].current THEN Ended(asg[i], "removed") ELSE asg[i]]
        /\ timeout' = CancelLive(timeout) /\ cover' = CancelLive(cover)
    BY <1>2 DEF DisableOrganisers
  <2>4. ASSUME NEW i \in Ids PROVE AsgMoves(i)
    BY <1>1, <1>2, <2>3 DEF RowsTyped, AsgMoves, Ends, EndedStatus
  <2>5. /\ OverIds(timeout') /\ \A i \in Ids : TimeoutMoves(i)
        /\ OverIds(cover') /\ \A i \in Ids : CoverMoves(i)
    BY <1>1, <2>3, CancelLiveMoves
  <2>6. OverIds(asg')
    BY <2>3 DEF OverIds
  <2>7. RowsMove
    BY <2>4, <2>5, <2>6 DEF RowsMove
  <2>8. Onward
    BY <1>1, <1>2 DEF Onward, RowsTyped, PastStart, DisableOrganisers, KeepA
  <2> QED
    BY <2>2, <2>7, <2>8 DEF Moved
<1>3. CASE EnableOrganisers
  <2>1. HandlersTyped'
    BY <1>1, <1>3 DEF HandlersTyped, EnableOrganisers, KeepA, rows, Issue
  <2>2. Onward
    BY <1>1, <1>3 DEF Onward, RowsTyped, PastStart, EnableOrganisers, KeepA, Issue
  <2> QED
    BY <1>1, <1>3, <2>1, <2>2, RowsStay DEF Moved, EnableOrganisers, rows
<1>4. CASE AdminTidies
  <2>1. msgs' \in Msgs
    BY <1>1, <1>4, MsgsFit DEF AdminTidies, Tidied
  <2>2. HandlersTyped'
    BY <1>1, <1>4, <2>1, IdleFits DEF HandlersTyped, AdminTidies, KeepA, rows
  <2> QED
    BY <1>1, <1>4, <2>2, RowsStay, WorldStays DEF Moved, AdminTidies, KeepA, rows
<1> QED
  BY <1>2, <1>3, <1>4

LEMMA StepsMove == ASSUME Base, [Next]_vars PROVE Moved
<1>1. ASSUME UNCHANGED vars PROVE Moved
  <2>1. RowsTyped /\ HandlersTyped
    BY Typed DEF Base
  <2>2. HandlersTyped'
    BY <1>1, <2>1 DEF HandlersTyped, vars
  <2> QED
    BY <1>1, <2>1, <2>2, RowsStay, WorldStays DEF Moved, vars
<1>2. ASSUME SchedulerWorks PROVE Moved
  BY <1>2, TimeoutStepsMove, SafetyStepsMove, CoverStepsMove, SettlingMoves, Zenon
     DEF SchedulerWorks
<1>3. ASSUME Buttons PROVE Moved
  BY <1>3, ResponseMoves, ButtonStepsMove, ClaimStepsMove, Zenon DEF Buttons
<1>4. ASSUME Administration PROVE Moved
  BY <1>4, AssignStepsMove, AssignCommitMoves, RemovalMoves, CancellationMoves,
     FeatureStepsMove, Zenon DEF Administration
<1> QED
  BY <1>1, <1>2, <1>3, <1>4, ClockMoves, SchedulerClaimsMove, ButtonStepsMove, SettlingMoves,
     Zenon DEF Next

-----------------------------------------------------------------------------
(* What the handlers hold stays true.                                     *)

\* Whose step it is.
SchedulerSteps == SchedulerClaims \/ SchedulerWorks \/ ExecutorInterrupted
NomineeSteps ==
  \/ \E i \in Ids, answer \in {"confirm", "decline"} : Respond(i, answer)
  \/ AfterResponse \/ ConfirmTidies
  \/ DeclineEscalationRead \/ DeclineEscalationWrite \/ ButtonInterrupted
ClaimantSteps == ClaimCoverEvent \/ VerifyClaim \/ ClaimTidies
AssignSteps ==
  \/ \E slot \in {"primary", "backup"} : AssignRead(slot)
  \/ AssignReplace \/ AssignUnschedule \/ AssignCommit \/ AssignTidies
AdminSteps ==
  \/ RemoveRead \/ RemoveTransaction \/ RemoveActions
  \/ CancelEvent \/ CancelActions
  \/ DisableOrganisers \/ EnableOrganisers \/ AdminTidies

LEMMA Turns ==
  ASSUME [Next]_vars
  PROVE  \/ UNCHANGED vars \/ TimePasses \/ ProcessLoss
         \/ SchedulerSteps \/ NomineeSteps \/ ClaimantSteps \/ AssignSteps \/ AdminSteps
BY DEF Next, Buttons, Administration, SchedulerSteps, NomineeSteps, ClaimantSteps, AssignSteps,
       AdminSteps

LEMMA Frames ==
  /\ TimePasses \/ (UNCHANGED vars) => UNCHANGED <<sched, button, claim, assign, admin>>
  /\ SchedulerSteps => UNCHANGED <<button, claim, assign, admin>>
  /\ NomineeSteps => UNCHANGED <<sched, claim, assign, admin>>
  /\ ClaimantSteps => UNCHANGED <<sched, button, assign, admin>>
  /\ AssignSteps => UNCHANGED <<sched, button, claim, admin>>
  /\ AdminSteps => UNCHANGED <<sched, button, claim, assign>>
<1>1. TimePasses \/ (UNCHANGED vars) => UNCHANGED <<sched, button, claim, assign, admin>>
  BY DEF TimePasses, vars, procs
<1>2. SchedulerClaims \/ ExecutorInterrupted => UNCHANGED <<button, claim, assign, admin>>
  BY DEF SchedulerClaims, ExecutorInterrupted, ClaimTimeout, ClaimCover, ClaimSafety, Keep
<1>3. SchedulerWorks => UNCHANGED <<button, claim, assign, admin>>
  BY DEF SchedulerWorks, MarkActionCompleted, TimeoutTransaction, TimeoutEscalationRead,
         TimeoutEscalationWrite, SafetyTransaction, DeadlineDefersToCover, CoverRequestStart,
         Recheck, SendCoverMessage, PersistCoverMessage, CompleteEvent, CompleteCleanup, Keep
<1>4. NomineeSteps => UNCHANGED <<sched, claim, assign, admin>>
  BY DEF NomineeSteps, Respond, AfterResponse, ConfirmTidies, DeclineEscalationRead,
         DeclineEscalationWrite, ButtonInterrupted, KeepB
<1>5. ClaimantSteps => UNCHANGED <<sched, button, assign, admin>>
  BY DEF ClaimantSteps, ClaimCoverEvent, VerifyClaim, ClaimTidies, KeepC
<1>6. AssignSteps => UNCHANGED <<sched, button, claim, admin>>
  BY DEF AssignSteps, AssignRead, AssignReplace, AssignUnschedule, AssignCommit, AssignTidies,
         KeepN
<1>7. AdminSteps => UNCHANGED <<sched, button, claim, assign>>
  BY DEF AdminSteps, RemoveRead, RemoveTransaction, RemoveActions, CancelEvent, CancelActions,
         DisableOrganisers, EnableOrganisers, AdminTidies, KeepA
<1> QED
  BY <1>1, <1>2, <1>3, <1>4, <1>5, <1>6, <1>7 DEF SchedulerSteps

\* Only setGuildOrganisersEnabled turns the feature off.
LEMMA OnlyDisabling == ASSUME [Next]_vars, enabled, ~enabled' PROVE DisableOrganisers
BY DEF Next, vars, TimePasses, SchedulerClaims, ExecutorInterrupted, ClaimTimeout,
       ClaimCover, ClaimSafety, SchedulerWorks, MarkActionCompleted, TimeoutTransaction,
       TimeoutEscalationRead, TimeoutEscalationWrite, SafetyTransaction, DeadlineDefersToCover,
       CoverRequestStart, Recheck, SendCoverMessage, PersistCoverMessage, CompleteEvent,
       CompleteCleanup, Keep, Buttons, Respond, AfterResponse, ConfirmTidies,
       DeclineEscalationRead, DeclineEscalationWrite, ButtonInterrupted, KeepB,
       ClaimCoverEvent, VerifyClaim, ClaimTidies, KeepC, Administration, AssignRead,
       AssignReplace, AssignUnschedule, AssignCommit, AssignTidies, KeepN, RemoveRead,
       RemoveTransaction, RemoveActions, CancelEvent, CancelActions, EnableOrganisers,
       AdminTidies, KeepA, ProcessLoss

\* What a step never takes back.
RowsKeep ==
  \A i \in Ids :
    /\ asg[i].active => asg'[i].active
    /\ asg[i].status # "none" => asg'[i].status # "none" /\ asg'[i].slot = asg[i].slot
    /\ asg'[i].status = "pending" => asg[i].status \in {"none", "pending"}
    /\ asg[i].status \in EndedStatus => asg'[i].status \in EndedStatus
    /\ timeout[i] # "none" => timeout'[i] # "none"
    /\ cover[i] # "none" => cover'[i] # "none"

LEMMA RowsSoundNext ==
  ASSUME RowsTyped, RowsAreSound, RowsMove, assign.slot \in {"primary", "backup"} \/ assign.pc # "insert"
  PROVE  RowsKeep /\ RowsAreSound'
<1>1. ASSUME NEW i \in Ids
      PROVE  /\ asg[i].active => asg'[i].active
             /\ asg[i].status # "none" => asg'[i].status # "none" /\ asg'[i].slot = asg[i].slot
             /\ asg'[i].status = "pending" => asg[i].status \in {"none", "pending"}
             /\ asg[i].status \in EndedStatus => asg'[i].status \in EndedStatus
             /\ asg'[i].status = "confirmed" => asg'[i].active
             /\ asg'[i].slot = "cover" => asg'[i].status # "pending"
             /\ asg'[i].status = "pending" /\ ~asg'[i].active => asg'[i].slot = "backup"
  <2>1. asg[i] \in Asg /\ AsgMoves(i)
    BY DEF RowsTyped, RowsMove
  <2>2. CASE asg'[i] = asg[i]
    BY <2>1, <2>2 DEF RowsAreSound
  <2>3. CASE Ends(i)
    BY <2>1, <2>3 DEF Ends, Ended, EndedStatus, RowsAreSound, Asg
  <2>4. CASE Confirms(i)
    BY <2>1, <2>4 DEF Confirms, CanRespond, EndedStatus, RowsAreSound, Asg
  <2>5. CASE Activates(i)
    BY <2>1, <2>5 DEF Activates, CanActivate, Dormant, EndedStatus, RowsAreSound, RowsTyped, Asg
  <2>6. CASE Nominated(i)
    <3>1. asg[i].status = "none" /\ asg'[i] = Pending(assign.slot, assign.slot = "primary")
      BY <2>6 DEF Nominated, Free
    <3>2. ~asg[i].active /\ assign.slot \in {"primary", "backup"}
      BY <2>6, <3>1 DEF Nominated, RowsAreSound
    <3>3. /\ asg'[i].slot = assign.slot /\ asg'[i].status = "pending"
          /\ asg'[i].active = (assign.slot = "primary")
      BY <3>1 DEF Pending
    <3> QED
      BY <3>1, <3>2, <3>3 DEF EndedStatus
  <2>7. CASE Claimed(i)
    BY <2>1, <2>7 DEF Claimed, Free, EndedStatus, RowsAreSound, RowsTyped, Asg
  <2> QED
    BY <2>1, <2>2, <2>3, <2>4, <2>5, <2>6, <2>7 DEF AsgMoves
<1>2. ASSUME NEW i \in Ids
      PROVE  /\ timeout[i] # "none" => timeout'[i] # "none"
             /\ timeout'[i] # "none" => asg'[i].active
  <2>1. timeout[i] # "none" => asg[i].active
    BY DEF RowsAreSound
  <2>2. timeout[i] \in Live => timeout[i] # "none"
    BY DEF Live
  <2>3. Activates(i) \/ (Nominated(i) /\ assign.slot = "primary") => asg'[i].active
    BY DEF Activates, Nominated, Pending, RowsTyped, Asg
  <2> QED
    BY <1>1, <2>1, <2>2, <2>3 DEF RowsMove, TimeoutMoves
<1>3. ASSUME NEW i \in Ids
      PROVE  /\ cover[i] # "none" => cover'[i] # "none"
             /\ asg'[i].status = "none" => ~asg'[i].active /\ cover'[i] = "none"
  <2>1. cover[i] # "none" => cover'[i] # "none"
    BY DEF RowsMove, CoverMoves
  <2>2. asg'[i].status = "none" => asg[i].status = "none"
    BY <1>1
  <2>3. asg'[i].status = "none" => asg'[i] = asg[i]
    <3>1. ~Activates(i) \/ asg'[i].status # "none"
      BY <1>1 DEF Activates, CanActivate, Dormant
    <3>2. Ends(i) => asg'[i].status # "none"
      BY <1>1 DEF Ends
    <3>3. Confirms(i) => asg'[i].status # "none"
      BY <1>1 DEF Confirms, CanRespond
    <3>4. Nominated(i) \/ Claimed(i) => asg'[i].status # "none"
      BY DEF Nominated, Claimed, Pending, RowsTyped
    <3> QED
      BY <3>1, <3>2, <3>3, <3>4 DEF RowsMove, AsgMoves
  <2>4. asg[i].status = "none" => ~asg[i].active /\ cover[i] = "none" /\ ~CanQueue(i)
    BY DEF RowsAreSound, CanQueue
  <2>5. asg'[i].status = "none" => cover'[i] = "none"
    BY <2>2, <2>4 DEF RowsMove, CoverMoves, Live
  <2> QED
    BY <2>1, <2>2, <2>3, <2>4, <2>5
<1> QED
  BY <1>1, <1>2, <1>3 DEF RowsKeep, RowsAreSound

LEMMA SchedStays ==
  ASSUME Base, RowsKeep, Onward, sched'.kind = sched.kind, sched'.id = sched.id,
         sched'.pc \in {"escalate", "advance"} => sched.kind = "timeout",
         sched'.pc = "cleanup" => event' # "active"
  PROVE  SchedIsSound'
<1>1. /\ sched.kind = "timeout" => sched.id \in Ids /\ timeout'[sched.id] # "none"
      /\ sched.kind = "cover" => sched.id \in Ids /\ cover'[sched.id] # "none"
      /\ sched.kind = "missing" => PastStart'
  BY DEF Base, SchedIsSound, RowsKeep, Onward
<1> QED
  BY <1>1 DEF SchedIsSound

LEMMA SchedSound ==
  ASSUME Base, RowsKeep, Moved, SchedulerSteps \/ ProcessLoss \/ UNCHANGED sched
  PROVE  SchedIsSound'
<1>1. RowsTyped /\ sched \in Sched /\ Onward
  BY Typed DEF Base, HandlersTyped, Moved
<1>2. ASSUME UNCHANGED sched PROVE SchedIsSound'
  <2>1. /\ sched.pc \in {"escalate", "advance"} => sched.kind = "timeout"
        /\ sched.pc = "cleanup" => event' # "active"
    BY <1>1 DEF Base, SchedIsSound, Onward
  <2> QED
    BY <1>1, <1>2, <2>1, SchedStays
<1>3. ASSUME sched' = IdleSched PROVE SchedIsSound'
  BY <1>3 DEF SchedIsSound, IdleSched
<1>4. ASSUME SchedulerClaims PROVE SchedIsSound'
  <2>1. ASSUME NEW i \in Ids, ClaimTimeout(i) PROVE SchedIsSound'
    BY <1>1, <2>1 DEF SchedIsSound, ClaimTimeout, RowsTyped
  <2>2. ASSUME NEW i \in Ids, ClaimCover(i) PROVE SchedIsSound'
    BY <1>1, <2>2 DEF SchedIsSound, ClaimCover, RowsTyped
  <2>3. ASSUME NEW k \in Safety, ClaimSafety(k) PROVE SchedIsSound'
    <3>1. PastStart => PastStart'
      BY <1>1 DEF Onward
    <3>2. /\ sched'.kind = k /\ sched'.pc = "run"
          /\ k \notin {"timeout", "cover"} /\ (k = "missing" => PastStart)
      BY <2>3 DEF ClaimSafety, Safety, SafetyDue
    <3> QED
      BY <3>1, <3>2 DEF SchedIsSound
  <2> QED
    BY <1>4, <2>1, <2>2, <2>3 DEF SchedulerClaims
<1>5. ASSUME TimeoutTransaction PROVE SchedIsSound'
  BY <1>1, <1>5, SchedStays DEF TimeoutTransaction, Goto, Sched
<1>6. ASSUME TimeoutEscalationRead \/ TimeoutEscalationWrite PROVE SchedIsSound'
  <2>1. /\ sched'.kind = sched.kind /\ sched'.id = sched.id
        /\ sched'.pc \in {"done", "advance"} /\ sched.pc \in {"escalate", "advance"}
    BY <1>1, <1>6 DEF TimeoutEscalationRead, TimeoutEscalationWrite, Goto, Sched
  <2>2. sched.kind = "timeout"
    BY <2>1 DEF Base, SchedIsSound
  <2> QED
    BY <1>1, <2>1, <2>2, SchedStays
<1>7. ASSUME \/ SafetyTransaction \/ DeadlineDefersToCover \/ CoverRequestStart \/ Recheck
             \/ SendCoverMessage \/ PersistCoverMessage \/ CompleteCleanup
      PROVE  SchedIsSound'
  <2>1. /\ sched'.kind = sched.kind /\ sched'.id = sched.id
        /\ sched'.pc \in {"done", "already", "recheck", "send", "persist"}
    BY <1>1, <1>7 DEF SafetyTransaction, DeadlineDefersToCover, CoverRequestStart, Recheck,
                      SendCoverMessage, PersistCoverMessage, CompleteCleanup, Goto, Sched
  <2> QED
    BY <1>1, <2>1, SchedStays
<1>8. ASSUME CompleteEvent PROVE SchedIsSound'
  <2>1. /\ sched'.kind = sched.kind /\ sched'.id = sched.id
        /\ sched'.pc \in {"done", "cleanup"}
        /\ sched'.pc = "cleanup" => event' = "completed"
    BY <1>1, <1>8 DEF CompleteEvent, Goto, Sched
  <2> QED
    BY <1>1, <2>1, SchedStays
<1> QED
  BY <1>2, <1>3, <1>4, <1>5, <1>6, <1>7, <1>8
     DEF SchedulerSteps, SchedulerWorks, MarkActionCompleted, ExecutorInterrupted, ProcessLoss

LEMMA ButtonSound ==
  ASSUME Base, RowsKeep, Moved, NomineeSteps \/ ProcessLoss \/ UNCHANGED button
  PROVE  ButtonIsSound'
<1>1. RowsTyped /\ button \in Button
  BY Typed DEF Base, HandlersTyped
<1>2. ASSUME button'.id = button.id, button'.pc # "idle" => button.pc # "idle"
      PROVE  ButtonIsSound'
  <2>1. button.pc # "idle" =>
          /\ button.id \in Ids /\ asg[button.id].active /\ asg[button.id].status # "pending"
          /\ asg[button.id].status # "none"
    BY DEF Base, ButtonIsSound, RowsAreSound
  <2>2. button.pc # "idle" => asg'[button.id].active /\ asg'[button.id].status # "pending"
    BY <2>1 DEF RowsKeep
  <2> QED
    BY <1>2, <2>1, <2>2 DEF ButtonIsSound
<1>3. ASSUME button' = IdleButton PROVE ButtonIsSound'
  BY <1>3 DEF ButtonIsSound, IdleButton
<1>4. ASSUME NEW i \in Ids, NEW answer \in {"confirm", "decline"}, Respond(i, answer)
      PROVE  ButtonIsSound'
  <2>1. CanRespond(i) /\ button'.id = i /\ i \in Ids
    BY <1>4 DEF Respond
  <2>2. asg'[i].active
    BY <2>1 DEF RowsKeep, CanRespond
  <2>3. asg'[i].status # "pending"
    BY <1>1, <1>4 DEF Respond, RowsTyped, Asg, Ended
  <2> QED
    BY <2>1, <2>2, <2>3 DEF ButtonIsSound
<1>5. ASSUME AfterResponse \/ DeclineEscalationRead PROVE ButtonIsSound'
  <2>1. button' = IdleButton \/ (button'.id = button.id /\ button.pc # "idle")
    BY <1>1, <1>5 DEF AfterResponse, DeclineEscalationRead, Button
  <2> QED
    BY <1>2, <1>3, <2>1
<1> QED
  BY <1>2, <1>3, <1>4, <1>5
     DEF NomineeSteps, ConfirmTidies, DeclineEscalationWrite, ButtonInterrupted, ProcessLoss

LEMMA ClaimSound ==
  ASSUME Base, RowsKeep, Moved, ClaimantSteps \/ ProcessLoss \/ UNCHANGED claim
  PROVE  ClaimIsSound'
<1>1. RowsTyped /\ claim \in Claim
  BY Typed DEF Base, HandlersTyped
<1>2. ASSUME claim'.id = claim.id, claim'.pc # "idle" => claim.pc # "idle"
      PROVE  ClaimIsSound'
  <2>1. claim.pc # "idle" =>
          /\ claim.id \in Ids /\ asg[claim.id].slot = "cover" /\ asg[claim.id].active
          /\ asg[claim.id].status # "none"
    BY DEF Base, ClaimIsSound, RowsAreSound
  <2> QED
    BY <1>2, <2>1 DEF RowsKeep, ClaimIsSound
<1>3. ASSUME claim' = IdleClaim PROVE ClaimIsSound'
  BY <1>3 DEF ClaimIsSound, IdleClaim
<1>4. ASSUME ClaimCoverEvent PROVE ClaimIsSound'
  <2>1. NextId \in Ids
    BY <1>4, NextIdIsFree DEF ClaimCoverEvent, Free
  <2> QED
    BY <1>1, <1>4, <2>1 DEF ClaimCoverEvent, ClaimIsSound, RowsTyped
<1>5. ASSUME VerifyClaim PROVE ClaimIsSound'
  <2>1. claim' = IdleClaim \/ (claim'.id = claim.id /\ claim.pc # "idle")
    BY <1>1, <1>5 DEF VerifyClaim, Claim
  <2> QED
    BY <1>2, <1>3, <2>1
<1> QED
  BY <1>2, <1>3, <1>4, <1>5 DEF ClaimantSteps, ClaimTidies, ProcessLoss

LEMMA AdminSound ==
  ASSUME Base, RowsKeep, Moved, AdminSteps \/ ProcessLoss \/ UNCHANGED admin
  PROVE  AdminIsSound'
<1>1. RowsTyped /\ admin \in Admin /\ Onward
  BY Typed DEF Base, HandlersTyped, Moved
<1>2. ASSUME UNCHANGED admin PROVE AdminIsSound'
  <2>1. admin.pc \in {"remove", "unschedule"} =>
          admin.id \in Ids /\ asg'[admin.id].status # "none" /\ asg'[admin.id].slot # "cover"
    BY DEF Base, AdminIsSound, RowsKeep
  <2>2. admin.pc = "unschedule" => asg'[admin.id].status # "pending"
    BY DEF Base, AdminIsSound, RowsKeep
  <2>3. admin.pc = "cancel" => event' # "active"
    BY <1>1 DEF Base, AdminIsSound, Onward
  <2>4. admin.pc = "tidy" => event' # "active" \/ ~enabled' \/ "enable" \in AdminOps
    BY <1>1 DEF Base, AdminIsSound, Onward
  <2> QED
    BY <1>2, <2>1, <2>2, <2>3, <2>4 DEF AdminIsSound
<1>3. ASSUME admin' = IdleAdmin PROVE AdminIsSound'
  BY <1>3 DEF AdminIsSound, IdleAdmin
<1>4. ASSUME RemoveRead PROVE AdminIsSound'
  <2>1. PICK i \in CurrentIn("primary") \cup CurrentIn("backup") :
          admin' = [pc |-> "remove", id |-> i]
    BY <1>4 DEF RemoveRead
  <2>2. asg' = asg
    BY <1>4 DEF RemoveRead
  <2>3. i \in Ids /\ asg[i].status # "none" /\ asg[i].slot # "cover"
    BY <1>1, <2>1 DEF CurrentIn, RowsTyped
  <2> QED
    BY <2>1, <2>2, <2>3 DEF AdminIsSound
<1>5. ASSUME RemoveTransaction PROVE AdminIsSound'
  <2>1. /\ admin.id \in Ids /\ asg[admin.id].status # "none" /\ asg[admin.id].slot # "cover"
        /\ asg'[admin.id].status # "none" /\ asg'[admin.id].slot # "cover"
    BY <1>5 DEF Base, AdminIsSound, RowsKeep, RemoveTransaction
  <2>2. \/ admin' = IdleAdmin
        \/ /\ admin'.pc = "unschedule" /\ admin'.id = admin.id
           /\ asg' = [asg EXCEPT ![admin.id] = Ended(asg[admin.id], "removed")]
    BY <1>1, <1>5 DEF RemoveTransaction, Admin
  <2>3. asg' = [asg EXCEPT ![admin.id] = Ended(asg[admin.id], "removed")]
          => asg'[admin.id].status # "pending"
    BY <1>1, <2>1 DEF RowsTyped, Ended, Asg
  <2> QED
    BY <1>3, <2>1, <2>2, <2>3 DEF AdminIsSound
<1>6. ASSUME CancelEvent \/ CancelActions PROVE AdminIsSound'
  <2>1. \/ admin'.pc = "cancel" /\ event' = "cancelled"
        \/ admin'.pc = "tidy" /\ event' = event /\ admin.pc = "cancel"
    BY <1>6 DEF CancelEvent, CancelActions, IdleAdmin
  <2> QED
    BY <2>1 DEF Base, AdminIsSound
<1>7. ASSUME DisableOrganisers PROVE AdminIsSound'
  BY <1>7 DEF DisableOrganisers, IdleAdmin, AdminIsSound
<1>8. ASSUME EnableOrganisers PROVE AdminIsSound'
  BY <1>2, <1>8 DEF EnableOrganisers
<1> QED
  BY <1>2, <1>3, <1>4, <1>5, <1>6, <1>7, <1>8 DEF AdminSteps, RemoveActions, AdminTidies, ProcessLoss

LEMMA AssignSound ==
  ASSUME Base, RowsKeep, Moved, [Next]_vars
  PROVE  AssignHolds'
<1>1. RowsTyped /\ assign \in Assign /\ Onward
  BY Typed DEF Base, HandlersTyped, Moved
<1>2. /\ assign.existing \in Ids => asg'[assign.existing].status # "none"
      /\ \A i \in assign.replaced : asg'[i].status # "none"
  BY <1>1 DEF Base, AssignHolds, RowsKeep, Assign
<1>3. ASSUME UNCHANGED assign, enabled => enabled' PROVE AssignHolds'
  BY <1>2, <1>3 DEF Base, AssignHolds
<1>4. ASSUME assign' = IdleAssign \/ assign' = [IdleAssign EXCEPT !.pc = "tidy"]
      PROVE  AssignHolds'
  BY <1>4, IdsFit DEF AssignHolds, IdleAssign
<1>5. ASSUME NEW slot \in {"primary", "backup"}, AssignRead(slot) PROVE AssignHolds'
  <2>1. /\ assign'.pc = "replace" /\ assign'.slot = slot /\ assign'.replaced = {}
        /\ assign'.existing = IF CurrentIn(slot) = {} THEN NoId
                              ELSE CHOOSE i \in CurrentIn(slot) : TRUE
    BY <1>5 DEF AssignRead, IdleAssign
  <2>2. assign'.existing \in Ids => assign'.existing \in CurrentIn(slot)
    BY <2>1, IdsFit
  <2>3. assign'.existing \in Ids => asg[assign'.existing].status # "none"
    BY <1>1, <2>2 DEF CurrentIn, RowsTyped
  <2>4. asg' = asg
    BY <1>5 DEF AssignRead
  <2> QED
    BY <2>1, <2>3, <2>4 DEF AssignHolds
<1>6. ASSUME AssignReplace PROVE AssignHolds'
  <2>1. asg' = asg /\ enabled' = enabled
    BY <1>6 DEF AssignReplace, KeepN
  <2>2. CASE ~enabled
    BY <1>4, <1>6, <2>2 DEF AssignReplace
  <2>3. CASE enabled
    <3>1. /\ assign'.pc = "unschedule" /\ assign'.slot = assign.slot
          /\ assign'.existing = assign.existing
          /\ assign'.replaced = Superseded \cup ({assign.existing} \ {NoId})
      BY <1>1, <1>6, <2>3 DEF AssignReplace, Assign
    <3>2. \A i \in Superseded : asg[i].status # "none"
      BY <1>1 DEF Superseded, RowsTyped
    <3>3. assign.existing \in Ids \cup {NoId}
      BY <1>1 DEF Assign, Ids, Ids0, NoId
    <3>4. assign.slot \in {"primary", "backup"}
          /\ (assign.existing \in Ids => asg[assign.existing].status # "none")
      BY <1>6 DEF Base, AssignHolds, AssignReplace
    <3>5. \A i \in assign'.replaced : asg[i].status # "none"
      BY <3>1, <3>2, <3>3, <3>4
    <3> QED
      BY <2>1, <2>3, <3>1, <3>4, <3>5 DEF AssignHolds
  <2> QED
    BY <2>2, <2>3 DEF Base, TypeOK
<1>7. ASSUME AssignUnschedule PROVE AssignHolds'
  <2>1. /\ assign'.pc = "insert" /\ assign'.slot = assign.slot /\ assign.pc = "unschedule"
        /\ assign'.existing = assign.existing /\ assign'.replaced = assign.replaced
        /\ asg' = asg /\ enabled' = enabled
    BY <1>1, <1>7 DEF AssignUnschedule, KeepN, Assign
  <2> QED
    BY <2>1 DEF Base, AssignHolds
<1>8. ASSUME AssignCommit PROVE AssignHolds'
  BY <1>4, <1>8 DEF AssignCommit
<1>9. ASSUME AssignTidies \/ ProcessLoss PROVE AssignHolds'
  BY <1>4, <1>9 DEF AssignTidies, ProcessLoss
<1>10. ASSUME DisableOrganisers PROVE AssignHolds'
  <2>1. assign' = assign /\ assign.pc \notin {"unschedule", "insert"}
    BY <1>10 DEF DisableOrganisers, KeepA, FeatureRowFree
  <2> QED
    BY <1>2, <2>1 DEF Base, AssignHolds
<1>11. ASSUME AdminSteps \/ SchedulerSteps \/ NomineeSteps \/ ClaimantSteps
              \/ TimePasses \/ UNCHANGED vars
       PROVE  AssignHolds'
  <2>1. assign' = assign
    BY <1>11, Frames
  <2>2. DisableOrganisers \/ (enabled => enabled')
    BY OnlyDisabling
  <2> QED
    BY <1>3, <1>10, <2>1, <2>2
<1> QED
  BY <1>5, <1>6, <1>7, <1>8, <1>9, <1>11, Turns DEF AssignSteps

LEMMA NextBase == ASSUME Base, [Next]_vars PROVE Base' /\ RowsKeep /\ Moved
<1>1. Moved
  BY StepsMove
<1>2. assign.slot \in {"primary", "backup"} \/ assign.pc # "insert"
  BY DEF Base, AssignHolds
<1>3. RowsTyped /\ HandlersTyped
  BY Typed DEF Base
<1>4. TypeOK'
  <2>1. RowsTyped'
    BY <1>1, <1>2, <1>3, RowsTypedNext DEF Moved
  <2>2. HandlersTyped'
    BY <1>1 DEF Moved
  <2> QED
    BY <2>1, <2>2, Typed, PTL
<1>5. RowsKeep /\ RowsAreSound'
  BY <1>1, <1>2, <1>3, RowsSoundNext DEF Moved, Base
<1>6. SchedIsSound' /\ ButtonIsSound' /\ ClaimIsSound' /\ AdminIsSound'
  BY <1>1, <1>5, Turns, Frames, SchedSound, ButtonSound, ClaimSound, AdminSound
<1>7. AssignHolds'
  BY <1>1, <1>5, AssignSound
<1> QED
  BY <1>1, <1>4, <1>5, <1>6, <1>7 DEF Base

LEMMA InitBase == Init => Base
<1> SUFFICES ASSUME Init PROVE Base
  OBVIOUS
<1> DEFINE first == IF MaxAsg >= 2 THEN 2 ELSE 1
<1>1. PICK n \in 0 .. first :
        /\ asg = [i \in Ids |-> IF i = 1 /\ n >= 1 THEN Pending("primary", TRUE)
                                ELSE IF i = 2 /\ n = 2 THEN Pending("backup", FALSE)
                                ELSE NoAsg]
        /\ timeout = [i \in Ids |-> IF i = 1 /\ n >= 1 THEN "pending" ELSE "none"]
  BY DEF Init
<1>2. ASSUME NEW i \in Ids
      PROVE  \/ i = 1 /\ asg[i] = Pending("primary", TRUE) /\ timeout[i] = "pending"
             \/ asg[i] \in {Pending("backup", FALSE), NoAsg} /\ timeout[i] = "none"
  BY <1>1 DEF Ids
<1>3. /\ Pending("primary", TRUE) \in Asg /\ Pending("backup", FALSE) \in Asg /\ NoAsg \in Asg
      /\ \A a \in {Pending("primary", TRUE), Pending("backup", FALSE), NoAsg} :
           a.current <=> a.status \in {"pending", "confirmed"}
  BY DEF Pending, NoAsg, Asg, Slots, AsgStatus
<1>4. RowsTyped
  <2>1. asg \in [Ids -> Asg] /\ timeout \in [Ids -> ActionStatus]
    BY <1>1, <1>3 DEF ActionStatus
  <2>2. \A i \in Ids : asg[i].current <=> asg[i].status \in {"pending", "confirmed"}
    BY <1>2, <1>3
  <2> QED
    BY <2>1, <2>2 DEF RowsTyped, Init, ActionStatus
<1>5. HandlersTyped
  BY IdleFits DEF HandlersTyped, Init, Msgs, Safety, ActionStatus
<1>6. RowsAreSound
  <2>1. \A i \in Ids : cover[i] = "none"
    BY DEF Init
  <2> QED
    BY <1>2, <2>1 DEF RowsAreSound, Pending, NoAsg
<1>7. AssignHolds /\ SchedIsSound /\ ButtonIsSound /\ ClaimIsSound /\ AdminIsSound
  BY IdsFit DEF AssignHolds, SchedIsSound, ButtonIsSound, ClaimIsSound, AdminIsSound, Init,
                IdleAssign, IdleSched, IdleButton, IdleClaim, IdleAdmin
<1> QED
  BY <1>4, <1>5, <1>6, <1>7, Typed DEF Base

LEMMA AlwaysBase == Spec => []Base
<1>1. Base /\ [Next]_vars => Base'
  BY NextBase
<1> QED
  BY <1>1, InitBase, PTL DEF Spec

-----------------------------------------------------------------------------
(* What administrators cannot break.                                      *)

\* The state keeps its shape whatever is issued, and an assignment is current
\* exactly while it is pending or confirmed (the services of src/organisers).
THEOREM TypeCorrect == Spec => []TypeOK
<1>1. Base => TypeOK
  BY DEF Base
<1> QED
  BY <1>1, AlwaysBase, PTL

LEMMA DisabledNext ==
  ASSUME Base, DisabledMeansNoOwnership, [Next]_vars PROVE DisabledMeansNoOwnership'
<1>1. Moved /\ RowsTyped
  BY NextBase, Typed DEF Base
<1>2. ASSUME ~enabled, ~enabled', NEW i \in Ids
      PROVE  ~asg'[i].current /\ timeout'[i] \notin Live /\ cover'[i] \notin Live
  <2>1. ~asg[i].current /\ timeout[i] \notin Live /\ cover[i] \notin Live
    BY <1>2 DEF DisabledMeansNoOwnership
  <2>2. AsgMoves(i) /\ TimeoutMoves(i) /\ CoverMoves(i)
    BY <1>1 DEF Moved, RowsMove
  <2>3. ~Confirms(i) /\ ~Activates(i) /\ ~Nominated(i) /\ ~Claimed(i) /\ ~CanQueue(i)
    BY <1>2 DEF Confirms, Activates, CanActivate, Nominated, Claimed, CanClaim, CanQueue
  <2>4. Ends(i) => ~asg'[i].current
    BY <1>1 DEF Ends, Ended, RowsTyped, Asg
  <2> QED
    BY <2>1, <2>2, <2>3, <2>4 DEF AsgMoves, TimeoutMoves, CoverMoves
<1>3. ASSUME DisableOrganisers PROVE DisabledMeansNoOwnership'
  BY <1>1, <1>3 DEF DisableOrganisers, DisabledMeansNoOwnership, CancelLive, Ended, Live,
                    RowsTyped, Asg
<1> QED
  BY <1>2, <1>3, OnlyDisabling DEF DisabledMeansNoOwnership

\* Disabling the feature retires every owner and every escalation row, and
\* nothing in flight brings one back, whatever administrators do
\* (setGuildOrganisersEnabled and its lock on guild_settings).
THEOREM DisabledRetiresAll == Spec => []DisabledMeansNoOwnership
<1>1. Init => DisabledMeansNoOwnership
  BY DEF Init, DisabledMeansNoOwnership
<1>2. Base /\ DisabledMeansNoOwnership /\ [Next]_vars => DisabledMeansNoOwnership'
  BY DisabledNext
<1> QED
  BY <1>1, <1>2, AlwaysBase, PTL DEF Spec

\* Once an event is completed or cancelled nobody comes to own it: each handler
\* looks at events.status again under its lock.
THEOREM TerminalEventKept == Spec => TerminalEventFrozen
<1> DEFINE Frozen == event # "active" =>
             \A i \in Ids :
               /\ asg'[i].status \in {"confirmed", "declined", "timed_out"}
                    => asg'[i].status = asg[i].status
               /\ asg[i].status = "pending" /\ asg'[i].active => asg[i].active
<1>1. Base /\ [Next]_vars => [Frozen]_vars
  <2> SUFFICES ASSUME Base, [Next]_vars, event # "active", NEW i \in Ids
               PROVE  /\ asg'[i].status \in {"confirmed", "declined", "timed_out"}
                           => asg'[i].status = asg[i].status
                      /\ asg[i].status = "pending" /\ asg'[i].active => asg[i].active
    OBVIOUS
  <2>1. Moved /\ RowsTyped
    BY NextBase, Typed DEF Base
  <2>2. AsgMoves(i) /\ asg[i] \in Asg
    BY <2>1 DEF Moved, RowsMove, RowsTyped
  <2>3. ~Confirms(i) /\ ~Activates(i) /\ ~Claimed(i)
    BY DEF Confirms, Activates, CanActivate, Claimed, CanClaim, Ongoing
  <2>4. CASE Ends(i)
    BY <2>2, <2>4 DEF Ends, Ended, EndedStatus, Asg
  <2>5. CASE Nominated(i)
    BY <2>5 DEF Nominated, Pending, Free
  <2>6. CASE asg'[i] = asg[i]
    BY <2>6
  <2> QED
    BY <2>2, <2>3, <2>4, <2>5, <2>6 DEF AsgMoves
<1> QED
  BY <1>1, AlwaysBase, PTL DEF Spec, TerminalEventFrozen

-----------------------------------------------------------------------------
(* What holds as long as nobody assigns a primary: that transaction       *)
(* decides whom it replaces before it commits, so a volunteer or a        *)
(* backup who comes in between stays, a second owner with his timeout     *)
(* cancelled.                                                             *)

NoPrimaryAssigned == assign.slot # "primary"

UniqueOwner ==
  \A i, j \in Ids : IsActive(asg[i]) /\ IsActive(asg[j]) => i = j

\* A timeout that was carried out, or decided to do nothing, leaves nobody who
\* is waited for behind.
TimeoutSettled ==
  sched.kind = "timeout" /\ sched.pc # "run" => ~(Ongoing /\ CanRespond(sched.id))

Owned ==
  /\ Base /\ DisabledMeansNoOwnership
  /\ NoPrimaryAssigned /\ UniqueOwner /\ TimeoutSettled /\ AwaitingIsWatched

LEMMA NoPrimaryNext ==
  ASSUME "primary" \notin AdminOps, Base, NoPrimaryAssigned, [Next]_vars
  PROVE  NoPrimaryAssigned'
<1>1. assign \in Assign
  BY Typed DEF Base, HandlersTyped
<1>2. CASE UNCHANGED assign
  BY <1>2 DEF NoPrimaryAssigned
<1>3. CASE ProcessLoss \/ AssignTidies \/ AssignCommit
  BY <1>1, <1>3 DEF NoPrimaryAssigned, ProcessLoss, AssignTidies, AssignCommit, IdleAssign
<1>4. CASE AssignReplace \/ AssignUnschedule
  <2>1. assign' = IdleAssign \/ assign'.slot = assign.slot
    BY <1>1, <1>4 DEF AssignReplace, AssignUnschedule, Assign
  <2> QED
    BY <2>1 DEF NoPrimaryAssigned, IdleAssign
<1>5. ASSUME NEW slot \in {"primary", "backup"}, AssignRead(slot) PROVE NoPrimaryAssigned'
  <2>1. slot \in AdminOps /\ assign'.slot = slot
    BY <1>5 DEF AssignRead, Issue, IdleAssign
  <2> QED
    BY <2>1 DEF NoPrimaryAssigned
<1> QED
  BY <1>2, <1>3, <1>4, <1>5, Turns, Frames DEF AssignSteps

LEMMA BackupsWait ==
  ASSUME NoPrimaryAssigned, NEW i \in Ids, Nominated(i) PROVE ~asg'[i].active
<1>1. asg'[i].active = (assign.slot = "primary")
  BY DEF Nominated, Pending
<1> QED
  BY <1>1 DEF NoPrimaryAssigned

\* Whoever owns the event after a step owned it before, or took it over when
\* nobody else did.
LEMMA OwnersComeAlone ==
  ASSUME Base, Moved, NoPrimaryAssigned, NEW i \in Ids, IsActive(asg'[i])
  PROVE  IsActive(asg[i]) \/ Activates(i) \/ Claimed(i)
<1>1. AsgMoves(i) /\ RowsTyped /\ asg[i] \in Asg
  BY Typed DEF Base, Moved, RowsMove, RowsTyped
<1>2. ~Ends(i)
  BY <1>1 DEF Ends, Ended, IsActive, Asg
<1>3. Confirms(i) => IsActive(asg[i])
  BY DEF Confirms, CanRespond, IsActive
<1>4. ~Nominated(i)
  BY BackupsWait DEF IsActive
<1> QED
  BY <1>1, <1>2, <1>3, <1>4 DEF AsgMoves

LEMMA UniqueOwnerNext ==
  ASSUME Base, Moved, NoPrimaryAssigned, UniqueOwner PROVE UniqueOwner'
<1>1. RowsTyped
  BY Typed DEF Base
<1>2. ASSUME NEW i \in Ids, Activates(i) \/ Claimed(i), NEW j \in Ids, IsActive(asg'[j])
      PROVE  j = i
  <2>1. ASSUME j # i PROVE asg'[j] = asg[j]
    BY <1>1, <1>2, <2>1 DEF Activates, Claimed, RowsTyped
  <2>2. ActiveIds \ {i} = {}
    BY <1>2 DEF Activates, CanActivate, Claimed, CanClaim
  <2> QED
    BY <1>2, <2>1, <2>2 DEF ActiveIds
<1>3. ASSUME NEW i \in Ids, NEW j \in Ids, IsActive(asg'[i]), IsActive(asg'[j]) PROVE i = j
  BY <1>2, <1>3, OwnersComeAlone DEF UniqueOwner
<1> QED
  BY <1>3 DEF UniqueOwner

\* A row with a timeout action is waited for no longer once it is answered.
LEMMA AnswersStay ==
  ASSUME Base, Moved, NEW i \in Ids, asg[i].active, ~CanRespond(i)
  PROVE  ~(asg'[i].current /\ asg'[i].status = "pending" /\ asg'[i].active)
<1>1. AsgMoves(i) /\ RowsTyped /\ asg[i] \in Asg /\ asg[i].status # "none"
  BY Typed DEF Base, Moved, RowsMove, RowsTyped, RowsAreSound
<1>2. ~Activates(i) /\ ~Nominated(i) /\ ~Claimed(i) /\ ~Confirms(i)
  BY <1>1 DEF Activates, CanActivate, Dormant, Nominated, Claimed, Confirms, Free
<1>3. Ends(i) => ~asg'[i].current
  BY <1>1 DEF Ends, Ended, Asg
<1> QED
  BY <1>1, <1>2, <1>3 DEF AsgMoves, CanRespond

LEMMA TimeoutSettledNext ==
  ASSUME Owned, Moved, [Next]_vars PROVE TimeoutSettled'
<1>1. RowsTyped /\ sched \in Sched /\ Onward
  BY Typed DEF Owned, Base, HandlersTyped, Moved
<1>2. Ongoing' => Ongoing
  BY <1>1 DEF Ongoing, Onward
<1>3. ASSUME sched'.kind = sched.kind, sched'.id = sched.id, sched.pc # "run"
      PROVE  TimeoutSettled'
  <2>1. ASSUME sched.kind = "timeout", Ongoing
        PROVE  LET a == asg'[sched.id] IN ~(a.current /\ a.status = "pending" /\ a.active)
    <3>1. sched.id \in Ids /\ asg[sched.id].active
      BY <2>1 DEF Owned, Base, SchedIsSound, RowsAreSound
    <3>2. ~CanRespond(sched.id)
      BY <1>3, <2>1 DEF Owned, TimeoutSettled
    <3>3. Base
      BY DEF Owned
    <3> QED
      BY <3>1, <3>2, <3>3, AnswersStay
  <2> QED
    BY <1>2, <1>3, <2>1 DEF TimeoutSettled, CanRespond
<1>4. ASSUME sched'.kind # "timeout" \/ sched'.pc = "run" PROVE TimeoutSettled'
  BY <1>4 DEF TimeoutSettled
<1>5. ASSUME TimeoutTransaction PROVE TimeoutSettled'
  <2>1. sched'.id = sched.id /\ sched.id \in Ids /\ event' = event /\ phase' = phase
    <3>1. sched'.id = sched.id
      BY <1>1, <1>5 DEF TimeoutTransaction, Goto, Sched
    <3>2. sched.id \in Ids
      BY <1>5 DEF Owned, Base, SchedIsSound, TimeoutTransaction
    <3> QED
      BY <1>5, <3>1, <3>2 DEF TimeoutTransaction, Keep, clock
  <2>2. CASE Ongoing /\ enabled /\ TimesOut(sched.id)
    <3>1. asg'[sched.id] = Ended(asg[sched.id], "timed_out")
      BY <1>1, <1>5, <2>1, <2>2 DEF TimeoutTransaction, RowsTyped
    <3>2. ~asg'[sched.id].current
      BY <1>1, <2>1, <3>1 DEF Ended, RowsTyped, Asg
    <3> QED
      BY <2>1, <3>2 DEF TimeoutSettled, CanRespond
  <2>3. CASE ~(Ongoing /\ enabled /\ TimesOut(sched.id))
    <3>1. asg' = asg
      BY <1>5, <2>3 DEF TimeoutTransaction
    <3>2. ~(Ongoing /\ CanRespond(sched.id))
      BY <2>1, <2>3 DEF TimesOut, CanRespond, Owned, DisabledMeansNoOwnership
    <3> QED
      BY <2>1, <3>1, <3>2 DEF TimeoutSettled, CanRespond, Ongoing
  <2> QED
    BY <2>2, <2>3
<1>6. ASSUME UNCHANGED sched PROVE TimeoutSettled'
  BY <1>3, <1>4, <1>6
<1>7. ASSUME SchedulerClaims \/ MarkActionCompleted \/ ExecutorInterrupted \/ ProcessLoss
      PROVE  TimeoutSettled'
  <2>1. sched'.pc = "run" \/ sched'.kind = "none"
    BY <1>7 DEF SchedulerClaims, ClaimTimeout, ClaimCover, ClaimSafety, MarkActionCompleted,
                ExecutorInterrupted, ProcessLoss, IdleSched
  <2> QED
    BY <1>4, <2>1
<1>8. ASSUME SafetyTransaction \/ CoverRequestStart \/ CompleteEvent PROVE TimeoutSettled'
  <2>1. sched'.kind # "timeout"
    BY <1>1, <1>8 DEF SafetyTransaction, CoverRequestStart, CompleteEvent, Goto, Sched
  <2> QED
    BY <1>4, <2>1
<1>9. ASSUME \/ TimeoutEscalationRead \/ TimeoutEscalationWrite \/ DeadlineDefersToCover
             \/ Recheck \/ SendCoverMessage \/ PersistCoverMessage \/ CompleteCleanup
      PROVE  TimeoutSettled'
  <2>1. sched'.kind = sched.kind /\ sched'.id = sched.id /\ sched.pc # "run"
    BY <1>1, <1>9 DEF TimeoutEscalationRead, TimeoutEscalationWrite, DeadlineDefersToCover,
                      Recheck, SendCoverMessage, PersistCoverMessage, CompleteCleanup, Goto, Sched
  <2> QED
    BY <1>3, <2>1
<1> QED
  BY <1>5, <1>6, <1>7, <1>8, <1>9, Turns, Frames DEF SchedulerSteps, SchedulerWorks

\* A live timeout action ends only when nobody is waiting for it any more.
LEMMA TimeoutsEnd ==
  ASSUME Owned, Moved, [Next]_vars, NEW i \in Ids, timeout[i] \in Live, timeout'[i] \notin Live
  PROVE  ~(Ongoing' /\ enabled' /\ CanRespond(i)')
<1>1. RowsTyped /\ asg[i] \in Asg
  BY Typed DEF Owned, Base, RowsTyped
<1>2. CASE MarkActionCompleted
  <2>1. sched.kind = "timeout" /\ i = sched.id /\ sched.pc = "done"
        /\ asg' = asg /\ event' = event /\ phase' = phase
    BY <1>1, <1>2 DEF MarkActionCompleted, SettleRow, RowsTyped, Keep, clock
  <2> QED
    BY <2>1 DEF Owned, TimeoutSettled, Ongoing, CanRespond
<1>3. CASE SafetyTransaction
  <2>1. asg' = [j \in Ids |-> IF j \in Nominees THEN Ended(asg[j], "removed") ELSE asg[j]]
    BY <1>3 DEF SafetyTransaction, RetireNominees
  <2>2. CanRespond(i) => i \in Nominees
    BY <1>1 DEF CanRespond, Nominees, Owned, Base, RowsAreSound, Asg, Slots
  <2>3. i \in Nominees => ~asg'[i].current
    BY <1>1, <2>1 DEF Ended, Asg
  <2> QED
    BY <2>1, <2>2, <2>3 DEF CanRespond
<1>4. CASE CompleteCleanup \/ CancelActions
  <2>1. event # "active" /\ event' = event
    BY <1>4 DEF Owned, Base, SchedIsSound, AdminIsSound, CompleteCleanup, CancelActions, clock
  <2> QED
    BY <2>1 DEF Ongoing
<1>5. CASE AfterResponse
  <2>1. i = button.id /\ asg' = asg
    BY <1>1, <1>5 DEF AfterResponse, CancelResponseActions, RowsTyped
  <2>2. asg[i].status # "pending"
    BY <1>5, <2>1 DEF AfterResponse, Owned, Base, ButtonIsSound
  <2> QED
    BY <2>1, <2>2 DEF CanRespond
<1>6. CASE RemoveActions
  <2>1. i = admin.id /\ asg' = asg
    BY <1>1, <1>6 DEF RemoveActions, CancelResponseActions, RowsTyped
  <2>2. asg[i].status # "pending"
    BY <1>6, <2>1 DEF RemoveActions, Owned, Base, AdminIsSound
  <2> QED
    BY <2>1, <2>2 DEF CanRespond
<1>7. CASE DisableOrganisers
  BY <1>7 DEF DisableOrganisers
<1>8. CASE \/ TimeoutEscalationWrite \/ DeclineEscalationWrite
  <2>1. timeout'[i] = timeout[i] \/ timeout'[i] = "pending"
    BY <1>1, <1>8 DEF TimeoutEscalationWrite, DeclineEscalationWrite, Escalate, QueueCover,
                      ActivateBackup, RowsTyped
  <2> QED
    BY <2>1 DEF Live
<1>9. CASE SchedulerClaims \/ ExecutorInterrupted \/ ProcessLoss
  <2>1. timeout'[i] = timeout[i] \/ timeout'[i] \in {"processing", "pending"}
    BY <1>1, <1>9 DEF SchedulerClaims, ClaimTimeout, ClaimCover, ClaimSafety,
                      ExecutorInterrupted, ProcessLoss, SettleRow, RowsTyped
  <2> QED
    BY <2>1 DEF Live
<1>10. CASE AssignSteps
  <2>1. timeout' = timeout
    BY <1>10 DEF Owned, NoPrimaryAssigned, AssignSteps, AssignRead, AssignReplace,
                 AssignUnschedule, AssignCommit, AssignTidies
  <2> QED
    BY <2>1
<1>11. CASE UNCHANGED timeout
  BY <1>11
<1>12. \/ TimePasses \/ ClaimantSteps \/ (UNCHANGED vars)
       \/ \E j \in Ids, answer \in {"confirm", "decline"} : Respond(j, answer)
       \/ ConfirmTidies \/ DeclineEscalationRead \/ ButtonInterrupted
       => UNCHANGED timeout
  BY DEF TimePasses, vars, ClaimantSteps, ClaimCoverEvent, VerifyClaim, ClaimTidies, KeepC,
         Respond, ConfirmTidies, DeclineEscalationRead, ButtonInterrupted, rows
<1>13. \/ TimeoutTransaction \/ TimeoutEscalationRead \/ DeadlineDefersToCover
       \/ CoverRequestStart \/ Recheck \/ SendCoverMessage \/ PersistCoverMessage
       \/ CompleteEvent \/ RemoveRead \/ RemoveTransaction \/ CancelEvent
       \/ EnableOrganisers \/ AdminTidies
       => UNCHANGED timeout
  BY DEF TimeoutTransaction, TimeoutEscalationRead, DeadlineDefersToCover, CoverRequestStart,
         Recheck, SendCoverMessage, PersistCoverMessage, CompleteEvent, RemoveRead,
         RemoveTransaction, CancelEvent, EnableOrganisers, AdminTidies, rows
<1> QED
  BY <1>2, <1>3, <1>4, <1>5, <1>6, <1>7, <1>8, <1>9, <1>10, <1>11, <1>12, <1>13, Turns
     DEF SchedulerSteps, SchedulerWorks, NomineeSteps, AdminSteps

LEMMA WatchedNext ==
  ASSUME Owned, Moved, [Next]_vars PROVE AwaitingIsWatched'
<1> SUFFICES ASSUME Ongoing', enabled', NEW i \in Ids, CanRespond(i)' PROVE timeout'[i] \in Live
  BY DEF AwaitingIsWatched, CanRespond
<1>1. RowsTyped /\ Onward /\ AsgMoves(i) /\ asg[i] \in Asg
  BY Typed DEF Owned, Base, Moved, RowsMove, RowsTyped
<1>2. CASE CanRespond(i)
  <2>1. Ongoing
    BY <1>1 DEF Ongoing, Onward
  <2>2. enabled
    BY <1>2 DEF Owned, DisabledMeansNoOwnership, CanRespond
  <2>3. timeout[i] \in Live
    BY <1>2, <2>1, <2>2 DEF Owned, AwaitingIsWatched
  <2> QED
    BY <2>3, TimeoutsEnd
<1>3. CASE ~CanRespond(i)
  <2>1. ~Ends(i) /\ ~Confirms(i) /\ ~Nominated(i)
    <3>1. ~Ends(i)
      BY <1>1 DEF Ends, Ended, CanRespond, Asg
    <3>2. ~Confirms(i)
      BY <1>3 DEF Confirms
    <3>3. ~Nominated(i)
      BY BackupsWait DEF CanRespond, Owned
    <3> QED
      BY <3>1, <3>2, <3>3
  <2>2. ~Claimed(i)
    BY <1>1 DEF Claimed, CanRespond, RowsTyped
  <2>3. asg'[i] # asg[i]
    BY <1>3 DEF CanRespond
  <2>4. Activates(i)
    BY <1>1, <2>1, <2>2, <2>3 DEF AsgMoves
  <2> QED
    BY <2>4 DEF Activates, Live
<1> QED
  BY <1>2, <1>3

LEMMA InitOwned == Init => Owned
<1> SUFFICES ASSUME Init PROVE Owned
  OBVIOUS
<1>1. Base
  BY InitBase
<1>2. \A i \in Ids : IsActive(asg[i]) => i = 1 /\ timeout[i] = "pending"
  BY DEF Init, IsActive, Pending, NoAsg
<1>3. \A i \in Ids : CanRespond(i) => IsActive(asg[i])
  BY DEF CanRespond, IsActive
<1> QED
  BY <1>1, <1>2, <1>3 DEF Init, Owned, DisabledMeansNoOwnership, NoPrimaryAssigned, IdleAssign,
     UniqueOwner, TimeoutSettled, IdleSched, AwaitingIsWatched, Live

LEMMA NextOwned ==
  ASSUME "primary" \notin AdminOps, Owned, [Next]_vars PROVE Owned'
<1>1. Base /\ DisabledMeansNoOwnership /\ NoPrimaryAssigned /\ UniqueOwner
  BY DEF Owned
<1>2. Base' /\ Moved
  BY <1>1, NextBase
<1>3. DisabledMeansNoOwnership' /\ NoPrimaryAssigned' /\ UniqueOwner'
  BY <1>1, <1>2, DisabledNext, NoPrimaryNext, UniqueOwnerNext
<1>4. TimeoutSettled' /\ AwaitingIsWatched'
  BY <1>2, TimeoutSettledNext, WatchedNext
<1> QED
  BY <1>2, <1>3, <1>4 DEF Owned

LEMMA AlwaysOwned == ASSUME "primary" \notin AdminOps PROVE Spec => []Owned
<1>1. Owned /\ [Next]_vars => Owned'
  BY NextOwned
<1> QED
  BY <1>1, InitOwned, PTL DEF Spec

\* As long as nobody assigns a primary, timeouts, declines, activations, claims,
\* removals, the safety deadline and the feature switch never leave two members
\* responsible for one event (the ACTIVE queries of src/organisers).
THEOREM OneOwner ==
  ASSUME "primary" \notin AdminOps PROVE Spec => []OneActiveOrganiser
<1>1. ASSUME Owned PROVE OneActiveOrganiser
  <2>1. CASE ActiveIds = {}
    BY <2>1, FS_EmptySet DEF OneActiveOrganiser
  <2>2. CASE ActiveIds # {}
    <3>1. PICK i \in ActiveIds : TRUE
      BY <2>2
    <3>2. ActiveIds = {i}
      BY <1>1, <3>1 DEF Owned, UniqueOwner, ActiveIds
    <3>3. Cardinality(ActiveIds) = 1
      BY <3>2, FS_Singleton
    <3> QED
      BY <3>3 DEF OneActiveOrganiser
  <2> QED
    BY <2>1, <2>2
<1> QED
  BY <1>1, AlwaysOwned, PTL

-----------------------------------------------------------------------------
(* The services implement Ownership: what a step does to one assignment is *)
(* what a step of the abstract specification does to its sets.             *)

Yes == {i \in ActiveIds : asg[i].status = "confirmed"}

\* An assignment comes to be owned only by an activation or a claim, and leaves
\* the owners only into the past; a former owner stays one.
LEMMA OneMember ==
  ASSUME Base, Moved, NoPrimaryAssigned, NEW i \in Ids
  PROVE  /\ i \in FormerIds' <=> i \in FormerIds \/ (i \in ActiveIds /\ i \notin ActiveIds')
         /\ i \in ActiveIds' => i \in ActiveIds \/ Activates(i) \/ Claimed(i)
         /\ Confirms(i) => i \in ActiveIds \ Yes /\ i \in Yes'
         /\ ~Confirms(i) /\ ~Claimed(i) => (i \in Yes' <=> i \in Yes /\ i \in ActiveIds')
<1>1. /\ AsgMoves(i) /\ RowsTyped /\ asg[i] \in Asg
      /\ asg[i].current <=> asg[i].status \in {"pending", "confirmed"}
      /\ asg[i].status = "none" => ~asg[i].active
  BY Typed DEF Base, Moved, RowsMove, RowsTyped, RowsAreSound
<1>2. /\ i \in ActiveIds <=> IsActive(asg[i])
      /\ i \in ActiveIds' <=> IsActive(asg'[i])
      /\ i \in FormerIds <=> asg[i].status \in EndedStatus /\ asg[i].active
      /\ i \in FormerIds' <=> asg'[i].status \in EndedStatus /\ asg'[i].active
      /\ i \in Yes <=> IsActive(asg[i]) /\ asg[i].status = "confirmed"
      /\ i \in Yes' <=> IsActive(asg'[i]) /\ asg'[i].status = "confirmed"
  BY DEF ActiveIds, FormerIds, Yes
<1>3. CASE asg'[i] = asg[i]
  <2>1. ~Confirms(i)
    BY <1>1, <1>3 DEF Confirms, CanRespond, Asg
  <2> QED
    BY <1>2, <1>3, <2>1
<1>4. CASE Ends(i)
  <2>1. PICK s \in EndedStatus : asg'[i] = Ended(asg[i], s) /\ asg[i].status # "none"
    BY <1>4 DEF Ends
  <2>2. asg'[i].status = s /\ asg'[i].active = asg[i].active /\ ~asg'[i].current
    BY <1>1, <2>1 DEF Ended, Asg
  <2>3. ~Confirms(i)
    BY <1>1, <2>2 DEF Confirms, CanRespond, EndedStatus, Asg
  <2> QED
    BY <1>1, <1>2, <2>1, <2>2, <2>3 DEF IsActive, EndedStatus, Asg, AsgStatus
<1>5. CASE Confirms(i)
  <2>1. /\ asg[i].current /\ asg[i].status = "pending" /\ asg[i].active
        /\ asg'[i].current /\ asg'[i].status = "confirmed" /\ asg'[i].active
    BY <1>1, <1>5 DEF Confirms, CanRespond, Asg
  <2> QED
    BY <1>2, <1>5, <2>1 DEF IsActive, EndedStatus
<1>6. CASE Activates(i)
  <2>1. /\ asg[i].status = "pending" /\ ~asg[i].active
        /\ asg'[i].status = "pending"
    BY <1>1, <1>6 DEF Activates, CanActivate, Dormant, RowsTyped, Asg
  <2>2. ~Confirms(i)
    BY <2>1 DEF Confirms, CanRespond
  <2> QED
    BY <1>2, <1>6, <2>1, <2>2 DEF IsActive, EndedStatus
<1>7. CASE Claimed(i)
  <2>1. asg[i].status = "none" /\ asg'[i].status = "confirmed"
    BY <1>1, <1>7 DEF Claimed, Free, RowsTyped
  <2>2. ~Confirms(i)
    BY <2>1 DEF Confirms, CanRespond
  <2> QED
    BY <1>2, <1>7, <2>1, <2>2 DEF IsActive, EndedStatus
<1>8. CASE Nominated(i)
  <2>1. asg[i].status = "none" /\ asg'[i].status = "pending" /\ ~asg'[i].active
    <3>1. ~asg'[i].active
      BY <1>8, BackupsWait
    <3>2. asg[i].status = "none" /\ asg'[i] = Pending(assign.slot, assign.slot = "primary")
      BY <1>8 DEF Nominated, Free
    <3> QED
      BY <3>1, <3>2 DEF Pending
  <2>2. ~Confirms(i)
    BY <2>1 DEF Confirms, CanRespond
  <2> QED
    BY <1>2, <2>1, <2>2 DEF IsActive, EndedStatus
<1> QED
  BY <1>1, <1>3, <1>4, <1>5, <1>6, <1>7, <1>8 DEF AsgMoves

\* The end of the event and a change of its assignments are never one step.
LEMMA EventOrAssignments ==
  ASSUME [Next]_vars PROVE event' = event \/ asg' = asg
<1>1. CASE CompleteEvent \/ CancelEvent
  BY <1>1 DEF CompleteEvent, CancelEvent
<1>2. CASE SchedulerClaims \/ SchedulerWorks \/ TimePasses
  BY <1>1, <1>2 DEF SchedulerClaims, SchedulerWorks, TimePasses, ClaimTimeout, ClaimCover,
     ClaimSafety, MarkActionCompleted, TimeoutTransaction, TimeoutEscalationRead,
     TimeoutEscalationWrite, SafetyTransaction, DeadlineDefersToCover, CoverRequestStart,
     Recheck, SendCoverMessage, PersistCoverMessage, CompleteCleanup, Keep, clock
<1>3. CASE Buttons
  BY <1>3 DEF Buttons, Respond, AfterResponse, ConfirmTidies, DeclineEscalationRead,
     DeclineEscalationWrite, ClaimCoverEvent, VerifyClaim, ClaimTidies, KeepB, KeepC, clock
<1>4. CASE Administration
  BY <1>1, <1>4 DEF Administration, AssignRead, AssignReplace, AssignUnschedule, AssignCommit,
     AssignTidies, RemoveRead, RemoveTransaction, RemoveActions, CancelActions,
     DisableOrganisers, EnableOrganisers, AdminTidies, KeepN, clock
<1>5. CASE ExecutorInterrupted \/ ButtonInterrupted \/ ProcessLoss \/ UNCHANGED vars
  BY <1>5 DEF ExecutorInterrupted, ButtonInterrupted, ProcessLoss, vars
<1> QED
  BY <1>2, <1>3, <1>4, <1>5 DEF Next

\* Somebody comes to own the event when nobody does and the event is on.
LEMMA TakesOver ==
  ASSUME Base, Moved, NoPrimaryAssigned, event' = event,
         NEW i \in Ids, Activates(i) \/ Claimed(i)
  PROVE  Own!Ask(i) \/ Own!Volunteer(i)
<1>1. RowsTyped /\ asg[i] \in Asg
  BY Typed DEF Base, RowsTyped
<1>2. /\ event = "active" /\ ActiveIds = {} /\ i \notin FormerIds
      /\ IsActive(asg'[i]) /\ \A j \in Ids : j # i => asg'[j] = asg[j]
  <2>1. CASE Activates(i)
    BY <1>1, <2>1 DEF Activates, CanActivate, Dormant, ActiveIds, FormerIds, IsActive,
       EndedStatus, RowsTyped, Asg
  <2>2. CASE Claimed(i)
    BY <1>1, <2>2 DEF Claimed, CanClaim, Ongoing, Free, FormerIds, IsActive, EndedStatus, RowsTyped
  <2> QED
    BY <2>1, <2>2
<1>3. ActiveIds' = {i}
  BY <1>2 DEF ActiveIds
<1>4. Yes = {} /\ FormerIds' = FormerIds
  BY <1>2, OneMember DEF Yes, FormerIds
<1>5. CASE Activates(i)
  <2>1. asg'[i].status = "pending"
    BY <1>1, <1>5 DEF Activates, CanActivate, Dormant, RowsTyped, Asg
  <2>2. Yes' = {}
    BY <1>3, <2>1 DEF Yes
  <2> QED
    BY <1>2, <1>3, <1>4, <2>2 DEF Own!Ask, Yes
<1>6. CASE Claimed(i)
  <2>1. asg'[i].status = "confirmed"
    BY <1>1, <1>6 DEF Claimed, RowsTyped
  <2>2. Yes' = {i}
    BY <1>3, <2>1 DEF Yes
  <2> QED
    BY <1>2, <1>3, <1>4, <2>2 DEF Own!Volunteer, Yes
<1> QED
  BY <1>5, <1>6

\* Otherwise the owner, if there is one, stays, confirms or leaves.
LEMMA StaysOrLeaves ==
  ASSUME Base, Moved, NoPrimaryAssigned, UniqueOwner, event' = event,
         \A i \in Ids : ~Activates(i) /\ ~Claimed(i)
  PROVE  (\E i \in Ids : Own!Confirm(i) \/ Own!Leave(i)) \/ UNCHANGED Own!ownVars
<1>1. ActiveIds' \subseteq ActiveIds
  BY OneMember DEF ActiveIds
<1>2. \A i \in Ids : i \in FormerIds' <=> i \in FormerIds \/ (i \in ActiveIds /\ i \notin ActiveIds')
  BY OneMember
<1>3. \A i \in Ids : ~Confirms(i) => (i \in Yes' <=> i \in Yes /\ i \in ActiveIds')
  BY OneMember
<1>4. /\ ActiveIds \subseteq Ids /\ ActiveIds' \subseteq Ids /\ Yes \subseteq ActiveIds
      /\ Yes' \subseteq ActiveIds' /\ FormerIds \subseteq Ids /\ FormerIds' \subseteq Ids
  BY DEF ActiveIds, Yes, FormerIds
<1>5. CASE ActiveIds' = ActiveIds /\ \A i \in Ids : ~Confirms(i)
  <2>1. FormerIds' = FormerIds /\ Yes' = Yes
    BY <1>2, <1>3, <1>4, <1>5
  <2> QED
    BY <1>5, <2>1 DEF Own!ownVars, Yes
<1>6. ASSUME NEW i \in Ids, Confirms(i) PROVE Own!Confirm(i)
  <2>1. event = "active" /\ i \in ActiveIds \ Yes /\ i \in Yes'
    BY <1>6, OneMember DEF Confirms
  <2>2. ActiveIds = {i}
    BY <2>1 DEF ActiveIds, UniqueOwner
  <2>3. ActiveIds' = {i} /\ Yes' = {i} /\ Yes = {} /\ FormerIds' = FormerIds
    BY <1>1, <1>2, <1>4, <2>1, <2>2
  <2> QED
    BY <2>1, <2>2, <2>3 DEF Own!Confirm, Yes
<1>7. CASE ActiveIds' # ActiveIds /\ \A i \in Ids : ~Confirms(i)
  <2>1. PICK i \in ActiveIds : i \notin ActiveIds'
    BY <1>1, <1>7
  <2>2. ActiveIds = {i} /\ i \in Ids
    BY <2>1 DEF ActiveIds, UniqueOwner
  <2>3. ActiveIds' = {} /\ Yes' = {} /\ FormerIds' = FormerIds \cup {i}
    BY <1>1, <1>2, <1>4, <2>1, <2>2
  <2>4. Yes \ {i} = {}
    BY <1>4, <2>2
  <2> QED
    BY <2>2, <2>3, <2>4 DEF Own!Leave, Yes
<1> QED
  BY <1>5, <1>6, <1>7

LEMMA OwnershipStep ==
  ASSUME Owned, [Next]_vars PROVE [Own!Next]_(Own!ownVars)
<1>1. Base /\ Moved /\ NoPrimaryAssigned /\ UniqueOwner
  BY NextBase DEF Owned
<1>2. CASE event' = event
  <2>1. CASE \E i \in Ids : Activates(i) \/ Claimed(i)
    BY <1>1, <1>2, <2>1, TakesOver DEF Own!Next
  <2>2. CASE \A i \in Ids : ~Activates(i) /\ ~Claimed(i)
    BY <1>1, <1>2, <2>2, StaysOrLeaves DEF Own!Next
  <2> QED
    BY <2>1, <2>2
<1>3. CASE event' # event
  <2>1. asg' = asg
    BY <1>3, EventOrAssignments
  <2>2. ActiveIds' = ActiveIds /\ FormerIds' = FormerIds /\ Yes' = Yes
    BY <2>1 DEF ActiveIds, FormerIds, Yes
  <2>3. event # "active" => event' # "active"
    BY <1>1 DEF Moved, Onward
  <2>4. Own!Finish \/ UNCHANGED Own!ownVars
    BY <1>3, <2>2, <2>3 DEF Own!Finish, Own!ownVars, Yes
  <2> QED
    BY <2>4 DEF Own!Next
<1> QED
  BY <1>2, <1>3

LEMMA OwnershipInit == Init => Own!Init
<1> SUFFICES ASSUME Init PROVE Own!Init
  OBVIOUS
<1>1. \A i \in Ids : asg[i].status \in {"pending", "none"} /\ (IsActive(asg[i]) => i = 1)
  BY DEF Init, IsActive, Pending, NoAsg
<1>2. FormerIds = {}
  <2>1. \A i \in Ids : asg[i].status \notin EndedStatus
    BY <1>1 DEF EndedStatus
  <2> QED
    BY <2>1 DEF FormerIds
<1>3. Yes = {}
  BY <1>1 DEF Yes, ActiveIds
<1>4. ActiveIds = {} \/ \E i \in Ids : ActiveIds = {i}
  <2>1. \A i \in ActiveIds : i = 1 /\ i \in Ids
    BY <1>1 DEF ActiveIds
  <2> QED
    BY <2>1
<1>5. event = "active"
  BY DEF Init
<1> QED
  BY <1>2, <1>3, <1>4, <1>5 DEF Own!Init, Yes

\* As long as nobody assigns a primary, the organiser services implement the
\* abstract ownership: owners come one at a time, only while the event is on and
\* unowned, never back, and confirm at most once, for any number of handlers'
\* reads before transactions, retries, process losses, removals, backups
\* assigned and switches of the feature.
THEOREM OwnershipRefinement ==
  ASSUME "primary" \notin AdminOps PROVE Spec => ImplementsOwnership
<1>1. Owned /\ [Next]_vars => [Own!Next]_(Own!ownVars)
  BY OwnershipStep
<1> QED
  BY OwnershipInit, AlwaysOwned, <1>1, PTL DEF Spec, ImplementsOwnership, Own!Spec

-----------------------------------------------------------------------------

\* As long as nobody assigns a primary, a nominee who is waited for always has a
\* timeout action that is still going to run: no crash, retry, response, removal
\* or safety transaction ends the action before the wait.
THEOREM WaitIsWatched ==
  ASSUME "primary" \notin AdminOps PROVE Spec => []AwaitingIsWatched
<1>1. Owned => AwaitingIsWatched
  BY DEF Owned
<1> QED
  BY <1>1, AlwaysOwned, PTL
-----------------------------------------------------------------------------
(* What holds as long as nobody assigns anybody: a volunteer who claimed  *)
(* the event keeps it, unless the feature is turned off.                  *)

NoAssignments == AdminOps \cap {"primary", "backup"} = {}

NobodyAssigned == assign.pc = "idle"

ClaimStands ==
  claim.pc # "idle" =>
    \/ asg[claim.id].current /\ asg[claim.id].status = "confirmed"
    \/ \A i \in Ids : ~asg[i].current

Unassigned == Owned /\ NobodyAssigned /\ ClaimStands

LEMMA NobodyAssignedNext ==
  ASSUME NoAssignments, NobodyAssigned, [Next]_vars PROVE NobodyAssigned'
<1>1. ~AssignSteps
  BY DEF NoAssignments, NobodyAssigned, AssignSteps, AssignRead, Issue, AssignReplace,
         AssignUnschedule, AssignCommit, AssignTidies
<1>2. ProcessLoss => NobodyAssigned'
  BY DEF ProcessLoss, NobodyAssigned, IdleAssign
<1> QED
  BY <1>1, <1>2, Turns, Frames DEF NobodyAssigned

LEMMA ClaimKeepsTheEvent ==
  ASSUME Unassigned, claim.pc = "verify" PROVE ActiveIds \ {claim.id} = {}
<1>1. CASE \A i \in Ids : ~asg[i].current
  BY <1>1 DEF ActiveIds, IsActive
<1>2. CASE asg[claim.id].current /\ asg[claim.id].status = "confirmed"
  <2>1. claim.id \in Ids /\ IsActive(asg[claim.id])
    BY <1>2 DEF Unassigned, Owned, Base, ClaimIsSound, IsActive
  <2> QED
    BY <2>1 DEF Unassigned, Owned, UniqueOwner, ActiveIds
<1> QED
  BY <1>1, <1>2 DEF Unassigned, ClaimStands

\* The ways an assignment ends without an assign command.
LEMMA EndsOfCurrent ==
  ASSUME Unassigned, NEW i \in Ids, Ends(i)
  PROVE  /\ asg[i].current /\ asg[i].status \in {"pending", "confirmed"}
         /\ \/ CanRespond(i) /\ event = "active" /\ enabled
            \/ asg[i].slot # "cover"
            \/ DisableOrganisers
<1>1. RowsTyped
  BY Typed DEF Unassigned, Owned, Base
<1>2. PICK s \in EndedStatus :
        /\ s \in {"declined", "timed_out"} => event = "active" /\ enabled /\ CanRespond(i)
        /\ s = "removed" => asg[i].current /\ (asg[i].slot # "cover" \/ DisableOrganisers)
        /\ s = "replaced" => \/ assign.pc = "insert"
                             \/ claim.pc = "verify" /\ i = claim.id /\ ActiveIds \ {i} # {}
  BY DEF Ends
<1>3. s # "replaced"
  BY <1>2, ClaimKeepsTheEvent DEF Unassigned, NobodyAssigned
<1>4. asg[i].current => asg[i].status \in {"pending", "confirmed"}
  BY <1>1 DEF RowsTyped
<1> QED
  BY <1>2, <1>3, <1>4 DEF EndedStatus, CanRespond

LEMMA ClaimStandsNext ==
  ASSUME Unassigned, Moved, [Next]_vars PROVE ClaimStands'
<1>1. RowsTyped /\ claim \in Claim
  BY Typed DEF Unassigned, Owned, Base, HandlersTyped
<1>2. CASE ClaimCoverEvent
  <2>1. NextId \in Ids
    BY <1>2, NextIdIsFree DEF ClaimCoverEvent, Free
  <2> QED
    BY <1>1, <1>2, <2>1 DEF ClaimCoverEvent, ClaimStands, RowsTyped
<1>3. ASSUME claim'.pc # "idle", claim.pc # "idle", claim'.id = claim.id
      PROVE  ClaimStands'
  <2>1. CASE \A i \in Ids : ~asg[i].current
    <3>1. ASSUME NEW i \in Ids PROVE ~asg'[i].current
      <4>1. AsgMoves(i) /\ asg[i] \in Asg
        BY <1>1 DEF Moved, RowsMove, RowsTyped
      <4>2. ~Confirms(i) /\ ~Activates(i) /\ ~Nominated(i) /\ ~Claimed(i)
        BY <1>3, <2>1 DEF Confirms, CanRespond, Activates, CanActivate, Dormant, Nominated,
                          Claimed, Unassigned, NobodyAssigned
      <4>3. ~Ends(i)
        BY <2>1, EndsOfCurrent
      <4> QED
        BY <2>1, <4>1, <4>2, <4>3 DEF AsgMoves
    <3> QED
      BY <3>1 DEF ClaimStands
  <2>2. CASE asg[claim.id].current /\ asg[claim.id].status = "confirmed"
    <3>1. /\ claim.id \in Ids /\ AsgMoves(claim.id) /\ asg[claim.id].slot = "cover"
      BY <1>3 DEF Unassigned, Owned, Base, ClaimIsSound, Moved, RowsMove
    <3>2. /\ ~Confirms(claim.id) /\ ~Activates(claim.id) /\ ~Nominated(claim.id)
          /\ ~Claimed(claim.id)
      BY <2>2 DEF Confirms, CanRespond, Activates, CanActivate, Dormant, Nominated, Claimed, Free
    <3>3. Ends(claim.id) => DisableOrganisers
      BY <2>2, <3>1, EndsOfCurrent DEF CanRespond
    <3>4. DisableOrganisers => \A i \in Ids : ~asg'[i].current
      BY <1>1 DEF DisableOrganisers, Ended, RowsTyped, Asg
    <3> QED
      BY <1>3, <2>2, <3>1, <3>2, <3>3, <3>4 DEF AsgMoves, ClaimStands
  <2> QED
    BY <1>3, <2>1, <2>2 DEF Unassigned, ClaimStands
<1>4. CASE claim'.pc = "idle"
  BY <1>4 DEF ClaimStands
<1>5. UNCHANGED claim \/ claim' = IdleClaim \/ ClaimCoverEvent
      \/ (claim.pc # "idle" /\ claim'.id = claim.id)
  <2>1. VerifyClaim => claim' = IdleClaim \/ (claim.pc # "idle" /\ claim'.id = claim.id)
    BY <1>1 DEF VerifyClaim, Claim
  <2> QED
    BY <2>1, Turns, Frames DEF ClaimantSteps, ClaimTidies, ProcessLoss
<1> QED
  BY <1>2, <1>3, <1>4, <1>5 DEF IdleClaim

LEMMA InitUnassigned == Init => Unassigned
<1>1. Init => assign.pc = "idle" /\ claim.pc = "idle"
  BY DEF Init, IdleAssign, IdleClaim
<1> QED
  BY <1>1, InitOwned DEF Unassigned, NobodyAssigned, ClaimStands

LEMMA NextUnassigned ==
  ASSUME NoAssignments, Unassigned, [Next]_vars PROVE Unassigned'
<1>1. Owned' /\ Moved
  BY NextOwned, NextBase DEF NoAssignments, Unassigned, Owned
<1>2. NobodyAssigned' /\ ClaimStands'
  BY <1>1, NobodyAssignedNext, ClaimStandsNext DEF Unassigned
<1> QED
  BY <1>1, <1>2 DEF Unassigned

LEMMA AlwaysUnassigned == ASSUME NoAssignments PROVE Spec => []Unassigned
<1>1. Unassigned /\ [Next]_vars => Unassigned'
  BY NextUnassigned
<1> QED
  BY <1>1, InitUnassigned, PTL DEF Spec

LEMMA EndedStays ==
  ASSUME Unassigned, [Next]_vars, NEW i \in Ids, asg[i].status \in EndedStatus
  PROVE  asg'[i] = asg[i]
<1>1. AsgMoves(i)
  BY NextBase DEF Unassigned, Owned, Moved, RowsMove
<1>2. ~Ends(i)
  BY EndsOfCurrent DEF EndedStatus
<1>3. ~Confirms(i) /\ ~Activates(i) /\ ~Nominated(i) /\ ~Claimed(i)
  BY DEF Confirms, CanRespond, Activates, CanActivate, Dormant, Nominated, Claimed, Free,
         EndedStatus
<1> QED
  BY <1>1, <1>2, <1>3 DEF AsgMoves

\* "Assignment history is preserved instead of overwriting rows": as long as
\* nobody assigns anybody, an assignment that was declined, timed out, replaced
\* or removed never changes again, whichever handlers still hold it.
THEOREM HistoryKept == ASSUME NoAssignments PROVE Spec => HistoryIsFinal
<1> DEFINE Final == \A i \in Ids : asg[i].status \in EndedStatus => asg'[i] = asg[i]
<1>1. Unassigned /\ [Next]_vars => [Final]_vars
  BY EndedStays
<1> QED
  BY <1>1, AlwaysUnassigned, PTL DEF Spec, HistoryIsFinal
-----------------------------------------------------------------------------
(* One failure at a time is escalated, and general cover comes last.      *)

Escalating == sched.pc \in {"escalate", "advance"}

OneEscalation ==
  button.pc # "idle" \/ Escalating =>
    /\ \A i \in Ids : ~CanRespond(i)
    /\ ~(button.pc # "idle" /\ Escalating)

Failed(i) == i \in Ids /\ asg[i].status \in {"declined", "timed_out"}

\* General cover is asked for on behalf of a nominee who failed, when no nominee
\* is left to ask.
CoverIsLast ==
  /\ \A i \in Ids : cover[i] # "none" =>
       Failed(i) /\ \A j \in Ids : asg[j].current => asg[j].slot = "cover"
  /\ Escalating => Failed(sched.id)
  /\ sched.pc = "advance" /\ sched.esc = NoId => \A i \in Ids : ~Dormant(i)
  /\ button.pc \in {"decline", "escalate", "advance"} => Failed(button.id)
  /\ button.pc = "advance" /\ button.esc = NoId => \A i \in Ids : ~Dormant(i)
  /\ button.pc \in {"confirm", "tidy"} => \A i \in Ids : cover[i] = "none"

InTurn == Unassigned /\ OneEscalation /\ CoverIsLast

\* Nobody starts to be waited for, is dormant or comes to be current in another
\* way than these.
LEMMA NewStates ==
  ASSUME Unassigned, Moved, NEW i \in Ids
  PROVE  /\ CanRespond(i)' => CanRespond(i) \/ Activates(i)
         /\ Dormant(i)' => Dormant(i)
         /\ asg'[i].current => (asg[i].current /\ asg'[i].slot = asg[i].slot) \/ Claimed(i)
         /\ Claimed(i) => asg'[i].slot = "cover"
<1>1. AsgMoves(i) /\ asg[i] \in Asg /\ RowsTyped
  BY Typed DEF Unassigned, Owned, Base, Moved, RowsMove, RowsTyped
<1>2. ~Nominated(i)
  BY DEF Nominated, Unassigned, NobodyAssigned
<1>3. CASE asg'[i] = asg[i] /\ ~Claimed(i)
  BY <1>3 DEF CanRespond, Dormant
<1>4. CASE Ends(i) /\ ~Claimed(i)
  <2>1. ~asg'[i].current
    BY <1>1, <1>4 DEF Ends, Ended, Asg
  <2> QED
    BY <1>4, <2>1 DEF CanRespond, Dormant
<1>5. CASE Confirms(i) /\ ~Claimed(i)
  <2>1. asg'[i].status = "confirmed" /\ asg'[i].slot = asg[i].slot /\ asg[i].current
    BY <1>1, <1>5 DEF Confirms, CanRespond, Asg
  <2> QED
    BY <1>5, <2>1 DEF CanRespond, Dormant
<1>6. CASE Activates(i) /\ ~Claimed(i)
  <2>1. asg'[i].active /\ asg'[i].slot = asg[i].slot /\ asg[i].current
    BY <1>1, <1>6 DEF Activates, CanActivate, Dormant, RowsTyped, Asg
  <2> QED
    BY <1>6, <2>1 DEF Dormant
<1>7. CASE Claimed(i)
  <2>1. asg'[i].status = "confirmed" /\ asg'[i].slot = "cover"
    BY <1>1, <1>7 DEF Claimed, RowsTyped
  <2> QED
    BY <1>7, <2>1 DEF CanRespond, Dormant
<1> QED
  BY <1>1, <1>2, <1>3, <1>4, <1>5, <1>6, <1>7 DEF AsgMoves

\* Only the two escalations activate a backup or queue a request.
LEMMA Activators ==
  ASSUME Unassigned, [Next]_vars, NEW i \in Ids, Activates(i)
  PROVE  TimeoutEscalationWrite \/ DeclineEscalationWrite
<1>1. RowsTyped /\ asg[i] \in Asg
  BY Typed DEF Unassigned, Owned, Base, RowsTyped
<1>2. asg[i].status = "pending" /\ ~asg[i].active /\ asg'[i].status = "pending" /\ asg'[i].active
      /\ asg'[i].current
  BY <1>1 DEF Activates, CanActivate, Dormant, RowsTyped, Asg
<1>3. asg' # asg
  BY <1>2
<1>4. ~TimeoutTransaction /\ ~RemoveTransaction /\ ~VerifyClaim
  <2>1. \A j \in Ids, s \in EndedStatus : asg' # [asg EXCEPT ![j] = Ended(asg[j], s)]
    BY <1>1, <1>2 DEF Ended, RowsTyped, Asg, EndedStatus
  <2>2. TimeoutTransaction => sched.id \in Ids
    BY DEF TimeoutTransaction, Unassigned, Owned, Base, SchedIsSound
  <2>3. RemoveTransaction => admin.id \in Ids
    BY DEF RemoveTransaction, Unassigned, Owned, Base, AdminIsSound
  <2>4. VerifyClaim => claim.id \in Ids
    BY DEF VerifyClaim, Unassigned, Owned, Base, ClaimIsSound
  <2> QED
    BY <1>3, <2>1, <2>2, <2>3, <2>4
       DEF TimeoutTransaction, RemoveTransaction, VerifyClaim, EndedStatus
<1>5. ~SafetyTransaction /\ ~DisableOrganisers
  BY <1>1, <1>2, <1>3 DEF SafetyTransaction, RetireNominees, DisableOrganisers, Ended, Asg
<1>6. ASSUME NEW j \in Ids, NEW answer \in {"confirm", "decline"} PROVE ~Respond(j, answer)
  <2>1. asg' # [asg EXCEPT ![j].status = "confirmed"]
    BY <1>1, <1>2 DEF RowsTyped, Asg
  <2>2. asg' # [asg EXCEPT ![j] = Ended(asg[j], "declined")]
    BY <1>1, <1>2 DEF Ended, RowsTyped, Asg
  <2> QED
    BY <2>1, <2>2 DEF Respond
<1>7. ~ClaimCoverEvent
  BY <1>1, <1>2 DEF ClaimCoverEvent, RowsTyped
<1>8. ~AssignCommit
  BY DEF AssignCommit, Unassigned, NobodyAssigned
<1>9. ~TimePasses /\ ~ProcessLoss /\ ~(UNCHANGED vars)
  BY <1>3 DEF TimePasses, ProcessLoss, vars
<1>10. SchedulerSteps => TimeoutEscalationWrite
  BY <1>3, <1>4, <1>5
     DEF SchedulerSteps, SchedulerClaims, ClaimTimeout, ClaimCover, ClaimSafety,
         SchedulerWorks, MarkActionCompleted, TimeoutEscalationRead, DeadlineDefersToCover,
         CoverRequestStart, Recheck, SendCoverMessage, PersistCoverMessage, CompleteEvent,
         CompleteCleanup, ExecutorInterrupted
<1>11. NomineeSteps => DeclineEscalationWrite
  BY <1>3, <1>6 DEF NomineeSteps, AfterResponse, ConfirmTidies, DeclineEscalationRead,
                    ButtonInterrupted
<1>12. ~ClaimantSteps
  BY <1>3, <1>4, <1>7 DEF ClaimantSteps, ClaimTidies
<1>13. ~AssignSteps /\ ~AdminSteps
  BY <1>3, <1>4, <1>5, <1>8
     DEF AssignSteps, AssignRead, AssignReplace, AssignUnschedule, AssignTidies, AdminSteps,
         RemoveRead, RemoveActions, CancelEvent, CancelActions, EnableOrganisers, AdminTidies
<1> QED
  BY <1>9, <1>10, <1>11, <1>12, <1>13, Turns

LEMMA Requesters ==
  ASSUME Unassigned, [Next]_vars, NEW i \in Ids, cover[i] = "none", cover'[i] # "none"
  PROVE  /\ CanQueue(i)
         /\ \/ TimeoutEscalationWrite /\ i = sched.id /\ sched.esc = NoId
            \/ DeclineEscalationWrite /\ i = button.id /\ button.esc = NoId
<1>1. RowsTyped
  BY Typed DEF Unassigned, Owned, Base
<1>2. cover' # cover
  OBVIOUS
<1>3. ASSUME NEW j \in Ids, NEW b, Escalate(j, b) PROVE i = j /\ b = NoId /\ CanQueue(i)
  BY <1>1, <1>2, <1>3 DEF Escalate, QueueCover, ActivateBackup, RowsTyped
<1>4. CASE TimeoutEscalationWrite
  <2>1. sched.id \in Ids
    BY <1>4 DEF TimeoutEscalationWrite, Unassigned, Owned, Base, SchedIsSound
  <2> QED
    BY <1>3, <1>4, <2>1 DEF TimeoutEscalationWrite
<1>5. CASE DeclineEscalationWrite
  <2>1. button.id \in Ids
    BY <1>5 DEF DeclineEscalationWrite, Unassigned, Owned, Base, ButtonIsSound
  <2> QED
    BY <1>3, <1>5, <2>1 DEF DeclineEscalationWrite
<1>6. /\ cover' # CancelLive(cover)
      /\ \A s \in {"pending", "completed"} : ~SettleRow(s)
      /\ \A j \in Ids : ~ClaimCover(j)
  BY <1>1 DEF CancelLive, SettleRow, ClaimCover, RowsTyped, Live
<1>7. ~TimePasses /\ ~ProcessLoss /\ ~(UNCHANGED vars)
  BY <1>2, <1>6 DEF TimePasses, ProcessLoss, vars, rows
<1>8. SchedulerSteps => TimeoutEscalationWrite
  BY <1>2, <1>6
     DEF SchedulerSteps, SchedulerClaims, ClaimTimeout, ClaimSafety,
         SchedulerWorks, MarkActionCompleted, TimeoutTransaction, TimeoutEscalationRead,
         SafetyTransaction, DeadlineDefersToCover, CoverRequestStart, Recheck,
         SendCoverMessage, PersistCoverMessage, CompleteEvent, CompleteCleanup,
         CancelEscalation, ExecutorInterrupted, rows
<1>9. NomineeSteps => DeclineEscalationWrite
  BY <1>2 DEF NomineeSteps, Respond, AfterResponse, ConfirmTidies, DeclineEscalationRead,
              ButtonInterrupted, rows
<1>10. ~ClaimantSteps /\ ~AssignSteps /\ ~AdminSteps
  BY <1>2, <1>6
     DEF ClaimantSteps, ClaimCoverEvent, VerifyClaim, ClaimTidies, KeepC, AssignSteps,
         AssignRead, AssignReplace, AssignUnschedule, AssignCommit, AssignTidies, Unassigned,
         NobodyAssigned, AdminSteps, RemoveRead, RemoveTransaction, RemoveActions, CancelEvent,
         CancelActions, DisableOrganisers, EnableOrganisers, AdminTidies, rows
<1> QED
  BY <1>4, <1>5, <1>7, <1>8, <1>9, <1>10, Turns
LEMMA DormantBackupIsDormant == DormantBackup = NoId => \A i \in Ids : ~Dormant(i)
<1>1. ASSUME NEW i \in Ids, Dormant(i) PROVE DormantBackup \in Ids
  BY <1>1 DEF DormantBackup
<1> QED
  BY <1>1, IdsFit

\* How the scheduler comes to escalate, and goes on escalating.
TimesOutNow(i) ==
  /\ TimeoutTransaction /\ i = sched.id /\ i \in Ids /\ CanRespond(i)
  /\ asg' = [asg EXCEPT ![i] = Ended(asg[i], "timed_out")]

LEMMA SchedTurns ==
  ASSUME Unassigned, [Next]_vars, Escalating'
  PROVE  \/ TimesOutNow(sched'.id) /\ sched'.pc = "escalate"
         \/ Escalating /\ UNCHANGED sched
         \/ /\ Escalating /\ TimeoutEscalationRead /\ sched'.id = sched.id
            /\ sched'.esc = NoId => \A i \in Ids : ~Dormant(i)
<1>1. sched \in Sched
  BY Typed DEF Unassigned, Owned, Base, HandlersTyped
<1>2. CASE UNCHANGED sched
  BY <1>2 DEF Escalating
<1>3. CASE TimeoutTransaction
  <2>1. Ongoing /\ enabled /\ TimesOut(sched.id)
    BY <1>1, <1>3 DEF TimeoutTransaction, Goto, Escalating, Sched
  <2>2. sched'.id = sched.id /\ sched'.pc = "escalate"
    BY <1>1, <1>3, <2>1 DEF TimeoutTransaction, Goto, Sched
  <2>3. sched.id \in Ids
    BY <1>3 DEF TimeoutTransaction, Unassigned, Owned, Base, SchedIsSound
  <2> QED
    BY <1>3, <2>1, <2>2, <2>3 DEF TimeoutTransaction, TimesOutNow, TimesOut, CanRespond
<1>4. CASE TimeoutEscalationRead
  <2>1. sched'.id = sched.id /\ sched'.esc \in {sched.esc, DormantBackup}
        /\ (sched'.pc = "advance" => sched'.esc = DormantBackup)
    BY <1>1, <1>4 DEF TimeoutEscalationRead, Sched
  <2>2. sched'.pc = "advance"
    BY <1>1, <1>4 DEF TimeoutEscalationRead, Escalating, Sched
  <2> QED
    BY <1>4, <2>1, <2>2, DormantBackupIsDormant DEF TimeoutEscalationRead, Escalating
<1>5. ~SchedulerClaims /\ ~ExecutorInterrupted /\ ~ProcessLoss /\ ~MarkActionCompleted
  BY DEF SchedulerClaims, ClaimTimeout, ClaimCover, ClaimSafety, ExecutorInterrupted,
         ProcessLoss, MarkActionCompleted, IdleSched, Escalating
<1>6. /\ ~TimeoutEscalationWrite /\ ~SafetyTransaction /\ ~DeadlineDefersToCover
      /\ ~CoverRequestStart /\ ~Recheck /\ ~SendCoverMessage /\ ~PersistCoverMessage
      /\ ~CompleteEvent /\ ~CompleteCleanup
  BY <1>1 DEF TimeoutEscalationWrite, SafetyTransaction, DeadlineDefersToCover,
         CoverRequestStart, Recheck, SendCoverMessage, PersistCoverMessage, CompleteEvent,
         CompleteCleanup, Goto, Escalating, Sched
<1> QED
  BY <1>2, <1>3, <1>4, <1>5, <1>6, Turns, Frames DEF SchedulerSteps, SchedulerWorks

\* How a press comes to be handled, and goes on being handled.
LEMMA ButtonTurns ==
  ASSUME Unassigned, [Next]_vars, button'.pc # "idle"
  PROVE  \/ /\ button'.id \in Ids /\ CanRespond(button'.id)
            /\ button'.pc \in {"confirm", "decline"} /\ Respond(button'.id, button'.pc)
         \/ button.pc # "idle" /\ UNCHANGED button
         \/ /\ AfterResponse /\ button'.id = button.id
            /\ \/ button.pc = "confirm" /\ button'.pc = "tidy"
               \/ button.pc = "decline" /\ button'.pc = "escalate"
         \/ /\ DeclineEscalationRead /\ button'.id = button.id /\ button.pc = "escalate"
            /\ button'.pc = "advance"
            /\ button'.esc = NoId => \A i \in Ids : ~Dormant(i)
<1>1. button \in Button
  BY Typed DEF Unassigned, Owned, Base, HandlersTyped
<1>2. CASE UNCHANGED button
  BY <1>2
<1>3. ASSUME NEW i \in Ids, NEW answer \in {"confirm", "decline"}, Respond(i, answer)
      PROVE  /\ button'.id \in Ids /\ CanRespond(button'.id)
             /\ button'.pc \in {"confirm", "decline"} /\ Respond(button'.id, button'.pc)
  <2>1. button'.id = i /\ button'.pc = answer /\ CanRespond(i)
    BY <1>3 DEF Respond
  <2> QED
    BY <1>3, <2>1
<1>4. CASE AfterResponse
  BY <1>1, <1>4 DEF AfterResponse, Button
<1>5. CASE DeclineEscalationRead
  <2>1. ~EscalationStops
    BY <1>5 DEF DeclineEscalationRead, IdleButton
  <2>2. /\ button'.id = button.id /\ button'.pc = "advance" /\ button'.esc = DormantBackup
        /\ button.pc = "escalate"
    BY <1>1, <1>5, <2>1 DEF DeclineEscalationRead, Button
  <2> QED
    BY <1>5, <2>2, DormantBackupIsDormant
<1>6. ~ConfirmTidies /\ ~DeclineEscalationWrite /\ ~ButtonInterrupted /\ ~ProcessLoss
  BY DEF ConfirmTidies, DeclineEscalationWrite, ButtonInterrupted, ProcessLoss, IdleButton
<1> QED
  BY <1>2, <1>3, <1>4, <1>5, <1>6, Turns, Frames DEF NomineeSteps

LEMMA WaitEnds ==
  ASSUME Unassigned, NEW i \in Ids, CanRespond(i),
         \/ asg' = [asg EXCEPT ![i] = Ended(asg[i], "timed_out")]
         \/ asg' = [asg EXCEPT ![i] = Ended(asg[i], "declined")]
         \/ asg' = [asg EXCEPT ![i].status = "confirmed"]
  PROVE  /\ \A j \in Ids : ~CanRespond(j)'
         /\ asg' # [asg EXCEPT ![i].status = "confirmed"] => Failed(i)'
<1>1. RowsTyped /\ UniqueOwner /\ asg[i] \in Asg
  BY Typed DEF Unassigned, Owned, Base, RowsTyped
<1>2. /\ asg'[i].status \in {"timed_out", "declined", "confirmed"}
      /\ asg' # [asg EXCEPT ![i].status = "confirmed"] => asg'[i].status # "confirmed"
  <2>1. CASE asg' = [asg EXCEPT ![i].status = "confirmed"]
    BY <1>1, <2>1 DEF RowsTyped, Asg
  <2>2. CASE \E s \in {"timed_out", "declined"} : asg' = [asg EXCEPT ![i] = Ended(asg[i], s)]
    BY <1>1, <2>2 DEF Ended, RowsTyped, Asg
  <2> QED
    BY <2>1, <2>2
<1>3. ASSUME NEW j \in Ids, j # i PROVE ~CanRespond(j)'
  <2>1. ~CanRespond(j)
    BY <1>1, <1>3 DEF UniqueOwner, IsActive, CanRespond
  <2>2. asg'[j] = asg[j]
    BY <1>1, <1>3 DEF RowsTyped
  <2> QED
    BY <2>1, <2>2 DEF CanRespond
<1> QED
  BY <1>2, <1>3 DEF CanRespond, Failed

LEMMA OneEscalationNext ==
  ASSUME Unassigned, OneEscalation, [Next]_vars PROVE OneEscalation'
<1> USE DEF OneEscalation
<1>1. Moved /\ RowsTyped
  BY NextBase, Typed DEF Unassigned, Owned, Base
<1>2. CASE TimesOutNow(sched.id)
  <2>1. button' = button /\ sched.id \in Ids /\ CanRespond(sched.id)
    BY <1>2 DEF TimesOutNow, TimeoutTransaction, Keep
  <2>2. button.pc = "idle"
    BY <2>1
  <2>3. \A i \in Ids : ~CanRespond(i)'
    BY <1>2, <2>1, WaitEnds DEF TimesOutNow
  <2> QED
    BY <2>1, <2>2, <2>3
<1>3. ASSUME NEW i \in Ids, CanRespond(i), NEW answer \in {"confirm", "decline"},
             Respond(i, answer)
      PROVE  OneEscalation'
  <2>1. sched' = sched /\ ~Escalating
    BY <1>3 DEF Respond, KeepB
  <2>2. \A j \in Ids : ~CanRespond(j)'
    BY <1>3, WaitEnds DEF Respond
  <2> QED
    BY <2>1, <2>2 DEF Escalating
<1>4. CASE TimeoutEscalationWrite
  <2>1. button' = button /\ sched'.pc = "done" /\ Escalating
    BY <1>4, Typed DEF TimeoutEscalationWrite, Keep, Goto, Escalating, Sched, Unassigned, Owned,
                       Base, HandlersTyped
  <2> QED
    BY <2>1 DEF Escalating
<1>5. CASE DeclineEscalationWrite
  BY <1>5 DEF DeclineEscalationWrite, KeepB, IdleButton, Escalating
<1>6. ASSUME \A i \in Ids : ~Activates(i),
             button'.pc # "idle" => button.pc # "idle", Escalating' => Escalating
      PROVE  OneEscalation'
  <2>1. ASSUME NEW i \in Ids, ~CanRespond(i) PROVE ~CanRespond(i)'
    BY <1>1, <1>6, <2>1, NewStates
  <2> QED
    BY <1>6, <2>1
<1>7. \/ TimesOutNow(sched.id)
      \/ Escalating' => Escalating
  <2>1. TimesOutNow(sched'.id) => sched'.id = sched.id
    BY DEF TimesOutNow
  <2> QED
    BY <2>1, SchedTurns
<1>8. \/ \E i \in Ids, answer \in {"confirm", "decline"} : CanRespond(i) /\ Respond(i, answer)
      \/ button'.pc # "idle" => button.pc # "idle"
  <2>1. AfterResponse \/ DeclineEscalationRead => button.pc # "idle"
    BY DEF AfterResponse, DeclineEscalationRead
  <2> QED
    BY <2>1, ButtonTurns
<1> QED
  BY <1>2, <1>3, <1>4, <1>5, <1>6, <1>7, <1>8, Activators
\* A nominee who failed stays failed, and no assignment but a volunteer's
\* becomes current.
LEMMA FailedStays ==
  ASSUME Unassigned, [Next]_vars, NEW i, Failed(i) PROVE Failed(i)'
BY EndedStays DEF Failed, EndedStatus

LEMMA CoverStaysLast ==
  ASSUME Unassigned, [Next]_vars, \A j \in Ids : asg[j].current => asg[j].slot = "cover"
  PROVE  \A j \in Ids : asg'[j].current => asg'[j].slot = "cover"
BY NextBase, NewStates DEF Unassigned, Owned

LEMMA NobodyDormantStays ==
  ASSUME Unassigned, [Next]_vars, \A j \in Ids : ~Dormant(j) PROVE \A j \in Ids : ~Dormant(j)'
BY NextBase, NewStates DEF Unassigned, Owned

\* Nobody is current when a request is queued.
LEMMA RequestsComeLast ==
  ASSUME InTurn, [Next]_vars, NEW i \in Ids, cover[i] = "none", cover'[i] # "none"
  PROVE  /\ Failed(i) /\ \A j \in Ids : ~asg[j].current
         /\ TimeoutEscalationWrite \/ DeclineEscalationWrite
<1>1. RowsTyped /\ RowsAreSound
  BY Typed DEF InTurn, Unassigned, Owned, Base
<1>2. /\ CanQueue(i)
      /\ \/ TimeoutEscalationWrite /\ sched.esc = NoId
         \/ DeclineEscalationWrite /\ button.esc = NoId
  BY Requesters DEF InTurn
<1>3. \A j \in Ids : ~Dormant(j)
  BY <1>2 DEF InTurn, CoverIsLast, TimeoutEscalationWrite, DeclineEscalationWrite
<1>4. ASSUME NEW j \in Ids, asg[j].current PROVE FALSE
  <2>1. asg[j].status \in {"pending", "confirmed"} /\ ~IsActive(asg[j])
    BY <1>1, <1>2, <1>4 DEF RowsTyped, CanQueue, ActiveIds
  <2>2. ~asg[j].active
    BY <1>4, <2>1 DEF IsActive
  <2>3. asg[j].status = "pending" /\ asg[j].slot = "backup"
    BY <1>1, <2>1, <2>2 DEF RowsAreSound
  <2> QED
    BY <1>3, <1>4, <2>2, <2>3 DEF Dormant
<1> QED
  BY <1>2, <1>4 DEF CanQueue, Failed

LEMMA CoverIsLastNext ==
  ASSUME InTurn, [Next]_vars PROVE CoverIsLast'
<1>1. Unassigned /\ OneEscalation /\ CoverIsLast /\ Moved /\ RowsTyped /\ RowsAreSound
  BY NextBase, Typed DEF InTurn, Unassigned, Owned, Base
<1>2. ASSUME NEW i \in Ids, cover'[i] # "none"
      PROVE  Failed(i)' /\ \A j \in Ids : asg'[j].current => asg'[j].slot = "cover"
  <2>1. Failed(i) /\ \A j \in Ids : asg[j].current => asg[j].slot = "cover"
    BY <1>1, <1>2, RequestsComeLast DEF CoverIsLast
  <2> QED
    BY <1>1, <2>1, FailedStays, CoverStaysLast
<1>3. Escalating' => Failed(sched.id)'
  <2> SUFFICES ASSUME Escalating' PROVE Failed(sched.id)'
    OBVIOUS
  <2>1. CASE TimesOutNow(sched'.id)
    <3>1. sched'.id \in Ids /\ CanRespond(sched'.id)
          /\ asg' = [asg EXCEPT ![sched'.id] = Ended(asg[sched'.id], "timed_out")]
      BY <2>1 DEF TimesOutNow
    <3>2. asg'[sched'.id].status = "timed_out"
      BY <1>1, <3>1 DEF RowsTyped, Ended, Asg
    <3> QED
      BY <3>1, <3>2 DEF Failed
  <2>2. CASE Escalating /\ sched'.id = sched.id
    <3>1. Failed(sched.id)
      BY <1>1, <2>2 DEF CoverIsLast
    <3>2. sched.id \in Ids /\ asg'[sched.id] = asg[sched.id]
      BY <1>1, <3>1, EndedStays DEF Failed, EndedStatus
    <3> QED
      BY <2>2, <3>1, <3>2 DEF Failed
  <2> QED
    BY <1>1, <2>1, <2>2, SchedTurns
<1>4. sched'.pc = "advance" /\ sched'.esc = NoId => \A i \in Ids : ~Dormant(i)'
  <2> SUFFICES ASSUME sched'.pc = "advance", sched'.esc = NoId
               PROVE  \A i \in Ids : ~Dormant(i)'
    OBVIOUS
  <2>1. Escalating'
    BY DEF Escalating
  <2>2. \A i \in Ids : ~Dormant(i)
    BY <1>1, <2>1, SchedTurns DEF CoverIsLast
  <2> QED
    BY <1>1, <2>2, NobodyDormantStays
<1>5. button'.pc \in {"decline", "escalate", "advance"} => Failed(button.id)'
  <2> SUFFICES ASSUME button'.pc \in {"decline", "escalate", "advance"} PROVE Failed(button.id)'
    OBVIOUS
  <2>1. CASE button'.id \in Ids /\ CanRespond(button'.id) /\ Respond(button'.id, button'.pc)
    <3>1. asg' = [asg EXCEPT ![button'.id] = Ended(asg[button'.id], "declined")]
      BY <2>1 DEF Respond
    <3>2. asg'[button'.id].status = "declined"
      BY <1>1, <2>1, <3>1 DEF RowsTyped, Ended, Asg
    <3> QED
      BY <2>1, <3>2 DEF Failed
  <2>2. CASE button.pc \in {"decline", "escalate", "advance"} /\ button'.id = button.id
    <3>1. Failed(button.id)
      BY <1>1, <2>2 DEF CoverIsLast
    <3>2. button.id \in Ids /\ asg'[button.id] = asg[button.id]
      BY <1>1, <3>1, EndedStays DEF Failed, EndedStatus
    <3> QED
      BY <2>2, <3>1, <3>2 DEF Failed
  <2> QED
    BY <1>1, <2>1, <2>2, ButtonTurns
<1>6. button'.pc = "advance" /\ button'.esc = NoId => \A i \in Ids : ~Dormant(i)'
  <2> SUFFICES ASSUME button'.pc = "advance", button'.esc = NoId
               PROVE  \A i \in Ids : ~Dormant(i)'
    OBVIOUS
  <2>1. \A i \in Ids : ~Dormant(i)
    BY <1>1, ButtonTurns DEF CoverIsLast
  <2> QED
    BY <1>1, <2>1, NobodyDormantStays
<1>7. button'.pc \in {"confirm", "tidy"} => \A i \in Ids : cover'[i] = "none"
  <2> SUFFICES ASSUME button'.pc \in {"confirm", "tidy"}, NEW i \in Ids, cover'[i] # "none"
               PROVE  FALSE
    OBVIOUS
  <2>1. CASE CanRespond(button'.id) /\ button'.id \in Ids /\ Respond(button'.id, button'.pc)
    <3>1. cover[i] # "none"
      BY <2>1 DEF Respond
    <3>2. asg[button'.id].slot = "cover"
      BY <1>1, <2>1, <3>1 DEF CoverIsLast, CanRespond
    <3> QED
      BY <1>1, <2>1, <3>2 DEF RowsAreSound, CanRespond
  <2>2. CASE button.pc \in {"confirm", "tidy"}
    <3>1. cover[i] = "none"
      BY <1>1, <2>2 DEF CoverIsLast
    <3>2. TimeoutEscalationWrite \/ DeclineEscalationWrite
      BY <3>1, RequestsComeLast
    <3> QED
      BY <1>1, <2>2, <3>2 DEF OneEscalation, Escalating, TimeoutEscalationWrite,
                              DeclineEscalationWrite
  <2> QED
    BY <1>1, <2>1, <2>2, ButtonTurns
<1> QED
  BY <1>2, <1>3, <1>4, <1>5, <1>6, <1>7 DEF CoverIsLast

LEMMA InitInTurn == Init => InTurn
<1>1. Init => sched.pc = "idle" /\ button.pc = "idle" /\ \A i \in Ids : cover[i] = "none"
  BY DEF Init, IdleSched, IdleButton
<1> QED
  BY <1>1, InitUnassigned DEF InTurn, OneEscalation, CoverIsLast, Escalating

LEMMA NextInTurn == ASSUME NoAssignments, InTurn, [Next]_vars PROVE InTurn'
BY NextUnassigned, OneEscalationNext, CoverIsLastNext DEF InTurn
-----------------------------------------------------------------------------
(* A request that was carried out is a request somebody can answer, as    *)
(* long as the feature is not both turned off and on again.               *)

SwitchedOneWay == ~({"disable", "enable"} \subseteq AdminOps)

\* A volunteer is wanted before the start.
Asks == enabled /\ event = "active" /\ ~PastStart /\ ConfirmedIds = {}
Answerable == msgs.cover > 0 \/ msgs.undelivered
CarriedOut ==
  \/ \E i \in Ids : cover[i] = "completed"
  \/ sched.kind = "cover" /\ sched.pc = "done"

RequestsAreOpen ==
  /\ ~enabled => "disable" \in AdminOps
  /\ admin.pc = "tidy" => event # "active" \/ ~enabled
  /\ sched.pc = "already" => sched.kind = "deadline"
  /\ claim.pc # "idle" =>
       ~enabled \/ (asg[claim.id].current /\ asg[claim.id].status = "confirmed")
  /\ Asks /\ CarriedOut => Answerable

Watching == InTurn /\ RequestsAreOpen

LEMMA StaysOff ==
  ASSUME SwitchedOneWay, RequestsAreOpen, Onward, ~enabled PROVE ~enabled'
BY DEF SwitchedOneWay, RequestsAreOpen, Onward

LEMMA AdminTidiesLate ==
  ASSUME SwitchedOneWay, Watching, [Next]_vars, admin'.pc = "tidy"
  PROVE  event' # "active" \/ ~enabled'
<1>1. Onward /\ RequestsAreOpen
  BY NextBase DEF Watching, InTurn, Unassigned, Owned, Moved
<1>2. CASE UNCHANGED admin
  BY <1>1, <1>2, StaysOff DEF RequestsAreOpen, Onward
<1>3. CASE CancelActions
  <2>1. event # "active"
    BY <1>3 DEF CancelActions, Watching, InTurn, Unassigned, Owned, Base, AdminIsSound
  <2> QED
    BY <1>1, <2>1 DEF Onward
<1>4. CASE DisableOrganisers
  BY <1>4 DEF DisableOrganisers
<1>5. /\ ~RemoveRead /\ ~RemoveTransaction /\ ~RemoveActions /\ ~CancelEvent
      /\ ~AdminTidies /\ ~ProcessLoss
  <2>1. admin \in Admin
    BY Typed DEF Watching, InTurn, Unassigned, Owned, Base, HandlersTyped
  <2> QED
    BY <2>1 DEF RemoveRead, RemoveTransaction, RemoveActions, CancelEvent, AdminTidies,
                ProcessLoss, IdleAdmin, Admin
<1> QED
  BY <1>2, <1>3, <1>4, <1>5, Turns, Frames DEF AdminSteps, EnableOrganisers

LEMMA AlreadyIsDeadline ==
  ASSUME Watching, [Next]_vars, sched'.pc = "already" PROVE sched'.kind = "deadline"
<1>1. sched \in Sched /\ (sched.pc = "already" => sched.kind = "deadline")
  BY Typed DEF Watching, RequestsAreOpen, InTurn, Unassigned, Owned, Base, HandlersTyped
<1>2. CASE SafetyTransaction
  BY <1>1, <1>2 DEF SafetyTransaction, Goto, Sched
<1>3. ~SchedulerClaims /\ ~ExecutorInterrupted /\ ~ProcessLoss /\ ~MarkActionCompleted
  BY DEF SchedulerClaims, ClaimTimeout, ClaimCover, ClaimSafety, ExecutorInterrupted,
         ProcessLoss, MarkActionCompleted, IdleSched
<1>4. /\ ~TimeoutTransaction /\ ~TimeoutEscalationRead /\ ~TimeoutEscalationWrite
      /\ ~DeadlineDefersToCover /\ ~CoverRequestStart /\ ~Recheck /\ ~SendCoverMessage
      /\ ~PersistCoverMessage /\ ~CompleteEvent /\ ~CompleteCleanup
  BY <1>1 DEF TimeoutTransaction, TimeoutEscalationRead, TimeoutEscalationWrite,
         DeadlineDefersToCover, CoverRequestStart, Recheck, SendCoverMessage,
         PersistCoverMessage, CompleteEvent, CompleteCleanup, Goto, Sched
<1> QED
  BY <1>1, <1>2, <1>3, <1>4, Turns, Frames DEF SchedulerSteps, SchedulerWorks

\* A volunteer's assignment stays confirmed until the feature is turned off.
LEMMA VolunteerStays ==
  ASSUME SwitchedOneWay, Watching, [Next]_vars, claim'.pc # "idle", enabled'
  PROVE  asg'[claim'.id].current /\ asg'[claim'.id].status = "confirmed"
<1>1. Moved /\ RowsTyped /\ claim \in Claim /\ Unassigned /\ RequestsAreOpen
  BY NextBase, Typed DEF Watching, InTurn, Unassigned, Owned, Base, HandlersTyped
<1>2. enabled
  BY <1>1, StaysOff DEF Moved
<1>3. CASE ClaimCoverEvent
  <2>1. NextId \in Ids
    BY <1>3, NextIdIsFree DEF ClaimCoverEvent, Free
  <2> QED
    BY <1>1, <1>3, <2>1 DEF ClaimCoverEvent, RowsTyped
<1>4. CASE claim.pc # "idle" /\ claim'.id = claim.id
  <2>1. asg[claim.id].current /\ asg[claim.id].status = "confirmed"
    BY <1>1, <1>2, <1>4 DEF RequestsAreOpen
  <2>2. claim.id \in Ids /\ asg[claim.id].slot = "cover" /\ AsgMoves(claim.id)
    BY <1>1, <1>4 DEF Unassigned, Owned, Base, ClaimIsSound, Moved, RowsMove
  <2>3. ~Confirms(claim.id) /\ ~Activates(claim.id) /\ ~Nominated(claim.id) /\ ~Claimed(claim.id)
    BY <2>1 DEF Confirms, CanRespond, Activates, CanActivate, Dormant, Nominated, Claimed, Free
  <2>4. ~DisableOrganisers
    BY DEF DisableOrganisers
  <2>5. ~Ends(claim.id)
    BY <1>1, <2>1, <2>2, <2>4, EndsOfCurrent DEF CanRespond
  <2> QED
    BY <1>4, <2>1, <2>2, <2>3, <2>5 DEF AsgMoves
<1>5. ClaimCoverEvent \/ (claim.pc # "idle" /\ claim'.id = claim.id)
  <2>1. VerifyClaim => claim' = IdleClaim \/ (claim.pc # "idle" /\ claim'.id = claim.id)
    BY <1>1 DEF VerifyClaim, Claim
  <2>2. claim' # IdleClaim
    BY DEF IdleClaim
  <2> QED
    BY <2>1, <2>2, Turns, Frames DEF ClaimantSteps, ClaimTidies, ProcessLoss
<1> QED
  BY <1>3, <1>4, <1>5

\* The steps that take an answerable request away.
LEMMA Tidyings ==
  ASSUME Watching, [Next]_vars, Answerable, ~Answerable'
  PROVE  \/ ConfirmTidies \/ ClaimTidies \/ AdminTidies \/ CompleteCleanup
         \/ PersistCoverMessage /\ sched.kind = "missing"
<1>1. msgs \in Msgs
  BY Typed DEF Watching, InTurn, Unassigned, Owned, Base, HandlersTyped
<1>2. msgs' # msgs
  BY DEF Answerable
<1>3. ~SendCoverMessage
  BY <1>1 DEF SendCoverMessage, Answerable, Msgs
<1>4. PersistCoverMessage => sched.kind = "missing"
  <2> SUFFICES ASSUME PersistCoverMessage, sched.kind # "missing" PROVE FALSE
    OBVIOUS
  <2>1. msgs'.cover = msgs.cover + 1 /\ msgs'.undelivered = msgs.undelivered /\ msgs.cover \in Nat
    BY <1>1 DEF PersistCoverMessage, Msgs
  <2> QED
    BY <2>1 DEF Answerable
<1>5. ~TimePasses /\ ~ProcessLoss /\ ~(UNCHANGED vars) /\ ~AssignSteps
  BY <1>2 DEF TimePasses, ProcessLoss, vars, AssignSteps, AssignRead, AssignReplace,
              AssignUnschedule, AssignCommit, AssignTidies, Watching, InTurn, Unassigned,
              NobodyAssigned
<1>6. SchedulerSteps => CompleteCleanup \/ PersistCoverMessage
  BY <1>2, <1>3
     DEF SchedulerSteps, SchedulerClaims, ClaimTimeout, ClaimCover, ClaimSafety,
         SchedulerWorks, MarkActionCompleted, TimeoutTransaction, TimeoutEscalationRead,
         TimeoutEscalationWrite, SafetyTransaction, DeadlineDefersToCover, CoverRequestStart,
         Recheck, CompleteEvent, ExecutorInterrupted, Keep
<1>7. NomineeSteps => ConfirmTidies
  BY <1>2 DEF NomineeSteps, Respond, AfterResponse, DeclineEscalationRead,
              DeclineEscalationWrite, ButtonInterrupted, KeepB
<1>8. (ClaimantSteps => ClaimTidies) /\ (AdminSteps => AdminTidies)
  BY <1>2 DEF ClaimantSteps, ClaimCoverEvent, VerifyClaim, AdminSteps, RemoveRead,
              RemoveTransaction, RemoveActions, CancelEvent, CancelActions, DisableOrganisers,
              EnableOrganisers
<1> QED
  BY <1>4, <1>5, <1>6, <1>7, <1>8, Turns
\* While a volunteer is wanted, the request a nominee's failure queued stands.
LEMMA RequestStands ==
  ASSUME InTurn, Asks, sched.kind = "cover" PROVE StillWanted
<1>1. RowsTyped /\ RowsAreSound /\ CoverIsLast /\ SchedIsSound
  BY Typed DEF InTurn, Unassigned, Owned, Base
<1>2. Failed(sched.id) /\ \A j \in Ids : asg[j].current => asg[j].slot = "cover"
  BY <1>1 DEF CoverIsLast, SchedIsSound
<1>3. ASSUME NEW j \in Ids, IsActive(asg[j]) PROVE FALSE
  <2>1. asg[j].status # "pending"
    BY <1>1, <1>2, <1>3 DEF RowsAreSound, IsActive
  <2>2. j \in ConfirmedIds
    BY <1>3, <2>1 DEF ConfirmedIds, IsActive
  <2> QED
    BY <2>2 DEF Asks
<1>4. ActiveIds = {}
  BY <1>3 DEF ActiveIds
<1> QED
  BY <1>2, <1>4 DEF StillWanted, RequestWanted, Asks, Failed

\* How a request comes to be carried out.
LEMMA NewlyCarriedOut ==
  ASSUME InTurn, [Next]_vars, ~CarriedOut, CarriedOut'
  PROVE  /\ sched.kind = "cover"
         /\ \/ CoverRequestStart \/ Recheck \/ SendCoverMessage \/ PersistCoverMessage
            \/ DeadlineDefersToCover \/ CompleteCleanup
<1>1. RowsTyped /\ sched \in Sched /\ SchedIsSound
  BY Typed DEF InTurn, Unassigned, Owned, Base, HandlersTyped
<1>2. ASSUME NEW i \in Ids, cover'[i] = "completed" PROVE FALSE
  <2>1. cover[i] # "completed" /\ cover' # cover
    BY <1>2 DEF CarriedOut
  <2>2. /\ cover' # CancelLive(cover) /\ ~SettleRow("pending")
        /\ \A j \in Ids : ~ClaimCover(j)
        /\ \A j \in Ids, b \in Ids0 : ~Escalate(j, b)
    <3>1. cover' # CancelLive(cover) /\ \A j \in Ids : ~ClaimCover(j)
      BY <1>1, <1>2, <2>1 DEF CancelLive, ClaimCover, RowsTyped
    <3>2. ~SettleRow("pending")
      BY <1>1, <1>2, <2>1 DEF SettleRow, RowsTyped
    <3>3. ASSUME NEW j \in Ids, NEW b \in Ids0 PROVE ~Escalate(j, b)
      BY <1>1, <1>2, <2>1 DEF Escalate, QueueCover, ActivateBackup, RowsTyped
    <3> QED
      BY <3>1, <3>2, <3>3
  <2>3. ~MarkActionCompleted
    BY <1>1, <1>2, <2>1 DEF MarkActionCompleted, SettleRow, CarriedOut, RowsTyped
  <2>4. ~TimeoutEscalationWrite
    BY <1>1, <2>2 DEF TimeoutEscalationWrite, SchedIsSound, Sched
  <2>5. ~DeclineEscalationWrite
    <3>1. DeclineEscalationWrite => button.id \in Ids /\ button.esc \in Ids0
      BY Typed DEF DeclineEscalationWrite, InTurn, Unassigned, Owned, Base, ButtonIsSound,
                   HandlersTyped, Button
    <3> QED
      BY <2>2, <3>1 DEF DeclineEscalationWrite
  <2>6. ~TimePasses /\ ~ProcessLoss /\ ~(UNCHANGED vars)
    BY <2>1, <2>2 DEF TimePasses, ProcessLoss, vars, rows
  <2>7. ~SchedulerSteps
    BY <2>1, <2>2, <2>3, <2>4
       DEF SchedulerSteps, SchedulerClaims, ClaimTimeout, ClaimSafety, SchedulerWorks,
           TimeoutTransaction, TimeoutEscalationRead, SafetyTransaction, DeadlineDefersToCover,
           CoverRequestStart, Recheck, SendCoverMessage, PersistCoverMessage, CompleteEvent,
           CompleteCleanup, CancelEscalation, ExecutorInterrupted, rows
  <2>8. ~NomineeSteps
    BY <2>1, <2>5 DEF NomineeSteps, Respond, AfterResponse, ConfirmTidies,
                      DeclineEscalationRead, ButtonInterrupted, rows
  <2>9. ~ClaimantSteps /\ ~AssignSteps /\ ~AdminSteps
    BY <2>1, <2>2
       DEF ClaimantSteps, ClaimCoverEvent, VerifyClaim, ClaimTidies, KeepC, AssignSteps,
           AssignRead, AssignReplace, AssignUnschedule, AssignCommit, AssignTidies, InTurn,
           Unassigned, NobodyAssigned, AdminSteps, RemoveRead, RemoveTransaction, RemoveActions,
           CancelEvent, CancelActions, DisableOrganisers, EnableOrganisers, AdminTidies, rows
  <2> QED
    BY <2>6, <2>7, <2>8, <2>9, Turns
<1>3. sched'.kind = "cover" /\ sched'.pc = "done" /\ sched' # sched
  BY <1>2 DEF CarriedOut
<1>4. ~SchedulerClaims /\ ~ExecutorInterrupted /\ ~ProcessLoss /\ ~MarkActionCompleted
  BY <1>3 DEF SchedulerClaims, ClaimTimeout, ClaimCover, ClaimSafety, ExecutorInterrupted,
              ProcessLoss, MarkActionCompleted, IdleSched
<1>5. ~TimeoutTransaction /\ ~TimeoutEscalationRead /\ ~TimeoutEscalationWrite
      /\ ~SafetyTransaction /\ ~CompleteEvent
  BY <1>1, <1>3 DEF TimeoutTransaction, TimeoutEscalationRead, TimeoutEscalationWrite,
                    SafetyTransaction, CompleteEvent, SchedIsSound, Goto, Sched
<1>6. \/ CoverRequestStart \/ Recheck \/ SendCoverMessage \/ PersistCoverMessage
      \/ DeadlineDefersToCover \/ CompleteCleanup
  BY <1>3, <1>4, <1>5, Turns, Frames DEF SchedulerSteps, SchedulerWorks
<1>7. sched'.kind = sched.kind
  BY <1>1, <1>6 DEF CoverRequestStart, Recheck, SendCoverMessage, PersistCoverMessage,
                    DeadlineDefersToCover, CompleteCleanup, Goto, Sched
<1> QED
  BY <1>3, <1>6, <1>7

\* Nobody starts to ask once a request exists: an owner of flesh and blood who
\* leaves the event was a nominee, and a request is only queued for nominees
\* who all failed.
LEMMA AskedBefore ==
  ASSUME SwitchedOneWay, Watching, [Next]_vars, Asks'
  PROVE  Asks \/ \A i \in Ids : cover[i] = "none"
<1>1. Moved /\ RowsTyped /\ RequestsAreOpen /\ CoverIsLast /\ Unassigned
  BY NextBase, Typed DEF Watching, InTurn, Unassigned, Owned, Base
<1>2. enabled' /\ event' = "active" /\ ~PastStart' /\ ConfirmedIds' = {}
  BY DEF Asks
<1>3. enabled /\ event = "active" /\ ~PastStart
  BY <1>1, <1>2, StaysOff DEF Moved, Onward
<1>4. ASSUME NEW i \in ConfirmedIds PROVE \A j \in Ids : cover[j] = "none"
  <2>1. i \in Ids /\ asg[i].current /\ asg[i].status = "confirmed" /\ AsgMoves(i)
    BY <1>1 DEF ConfirmedIds, Moved, RowsMove
  <2>2. asg'[i] # asg[i]
    BY <1>2, <2>1 DEF ConfirmedIds
  <2>3. Ends(i)
    BY <2>1, <2>2 DEF AsgMoves, Confirms, CanRespond, Activates, CanActivate, Dormant,
                      Nominated, Claimed, Free
  <2>4. ~DisableOrganisers
    BY <1>2 DEF DisableOrganisers
  <2>5. asg[i].slot # "cover"
    BY <1>1, <2>1, <2>3, <2>4, EndsOfCurrent DEF CanRespond
  <2> QED
    BY <1>1, <2>1, <2>5 DEF CoverIsLast
<1> QED
  BY <1>3, <1>4 DEF Asks

LEMMA NoRequestsNotCarriedOut ==
  ASSUME InTurn, \A i \in Ids : cover[i] = "none" PROVE ~CarriedOut
BY DEF CarriedOut, InTurn, Unassigned, Owned, Base, SchedIsSound

LEMMA AnswerableNext ==
  ASSUME SwitchedOneWay, Watching, [Next]_vars, Asks', CarriedOut' PROVE Answerable'
<1>1. RequestsAreOpen /\ InTurn /\ sched \in Sched /\ msgs \in Msgs
  BY Typed DEF Watching, InTurn, Unassigned, Owned, Base, HandlersTyped
<1>2. CASE ~CarriedOut
  <2>1. /\ sched.kind = "cover"
        /\ \/ CoverRequestStart \/ Recheck \/ SendCoverMessage \/ PersistCoverMessage
           \/ DeadlineDefersToCover \/ CompleteCleanup
    BY <1>1, <1>2, NewlyCarriedOut
  <2>2. Asks
    <3>1. cover[sched.id] # "none" /\ sched.id \in Ids
      BY <2>1 DEF Watching, InTurn, Unassigned, Owned, Base, SchedIsSound
    <3> QED
      BY <3>1, AskedBefore
  <2>3. StillWanted
    BY <1>1, <2>1, <2>2, RequestStands
  <2>4. ASSUME sched'.pc # "done" PROVE FALSE
    <3>1. PICK i \in Ids : cover'[i] = "completed"
      BY <2>4 DEF CarriedOut
    <3>2. cover[i] = "completed" \/ CompleteCleanup
      BY <2>1, <3>1 DEF CoverRequestStart, Recheck, SendCoverMessage, PersistCoverMessage,
                        DeadlineDefersToCover, rows
    <3>3. ~CompleteCleanup
      BY <1>1, <2>4 DEF CompleteCleanup, Goto, Sched
    <3> QED
      BY <1>2, <3>2, <3>3 DEF CarriedOut
  <2>5. ~CoverRequestStart /\ ~Recheck
    BY <1>1, <2>3, <2>4 DEF CoverRequestStart, Recheck, Goto, Sched
  <2>6. ~DeadlineDefersToCover /\ ~CompleteCleanup
    BY <1>1, <2>1, <2>2 DEF RequestsAreOpen, DeadlineDefersToCover, CompleteCleanup, Asks,
                            InTurn, Unassigned, Owned, Base, SchedIsSound
  <2>7. CASE SendCoverMessage
    <3>1. msgs' = [msgs EXCEPT !.undelivered = TRUE]
      BY <1>1, <2>4, <2>7 DEF SendCoverMessage, Goto, Sched
    <3> QED
      BY <1>1, <3>1 DEF Answerable, Msgs
  <2>8. CASE PersistCoverMessage
    <3>1. msgs'.cover = msgs.cover + 1 /\ msgs.cover \in Nat
      BY <1>1, <2>1, <2>8 DEF PersistCoverMessage, Msgs
    <3> QED
      BY <3>1 DEF Answerable
  <2> QED
    BY <2>1, <2>5, <2>6, <2>7, <2>8
<1>3. CASE CarriedOut
  <2>1. Asks
    BY <1>1, <1>3, AskedBefore, NoRequestsNotCarriedOut
  <2>2. Answerable
    BY <1>1, <1>3, <2>1 DEF RequestsAreOpen
  <2>3. ~ConfirmTidies
    BY <1>1, <1>3, NoRequestsNotCarriedOut DEF ConfirmTidies, InTurn, CoverIsLast
  <2>4. ~ClaimTidies
    <3>1. ASSUME ClaimTidies PROVE claim.id \in ConfirmedIds
      BY <1>1, <2>1, <3>1 DEF ClaimTidies, RequestsAreOpen, Asks, ConfirmedIds, InTurn,
                              Unassigned, Owned, Base, ClaimIsSound
    <3> QED
      BY <2>1, <3>1 DEF Asks
  <2>5. ~AdminTidies
    BY <1>1, <2>1 DEF AdminTidies, RequestsAreOpen, Asks
  <2>6. ~CompleteCleanup /\ ~(PersistCoverMessage /\ sched.kind = "missing")
    BY <1>1, <2>1 DEF CompleteCleanup, Asks, InTurn, Unassigned, Owned, Base, SchedIsSound
  <2> QED
    BY <2>2, <2>3, <2>4, <2>5, <2>6, Tidyings
<1> QED
  BY <1>2, <1>3
LEMMA InitWatching == Init => Watching
<1> SUFFICES ASSUME Init PROVE Watching
  OBVIOUS
<1>1. InTurn
  BY InitInTurn
<1>2. /\ enabled /\ admin.pc = "idle" /\ sched.pc = "idle" /\ claim.pc = "idle"
      /\ \A i \in Ids : cover[i] = "none"
  BY DEF Init, IdleAdmin, IdleSched, IdleClaim
<1>3. ~CarriedOut
  BY <1>1, <1>2, NoRequestsNotCarriedOut
<1> QED
  BY <1>1, <1>2, <1>3 DEF Watching, RequestsAreOpen

LEMMA NextWatching ==
  ASSUME NoAssignments, SwitchedOneWay, Watching, [Next]_vars PROVE Watching'
<1>1. InTurn'
  BY NextInTurn DEF Watching
<1>2. ~enabled' => "disable" \in AdminOps
  <2>1. enabled \in BOOLEAN /\ (~enabled => "disable" \in AdminOps)
    BY DEF Watching, RequestsAreOpen, InTurn, Unassigned, Owned, Base, TypeOK
  <2>2. DisableOrganisers => "disable" \in AdminOps
    BY DEF DisableOrganisers, Issue
  <2> QED
    BY <2>1, <2>2, OnlyDisabling
<1>3. claim'.pc # "idle" =>
        ~enabled' \/ (asg'[claim'.id].current /\ asg'[claim'.id].status = "confirmed")
  BY VolunteerStays
<1>4. Asks' /\ CarriedOut' => Answerable'
  BY AnswerableNext
<1>5. RequestsAreOpen'
  BY <1>2, <1>3, <1>4, AdminTidiesLate, AlreadyIsDeadline DEF RequestsAreOpen
<1> QED
  BY <1>1, <1>5 DEF Watching

LEMMA AlwaysWatching ==
  ASSUME NoAssignments, SwitchedOneWay PROVE Spec => []Watching
<1>1. Watching /\ [Next]_vars => Watching'
  BY NextWatching
<1> QED
  BY <1>1, InitWatching, PTL DEF Spec

\* "cover_already_requested": as long as nobody assigns anybody, and the feature
\* is not both turned off and on again, the T-15 transaction only leaves the
\* event to an earlier request that a volunteer can answer or will be able to.
THEOREM AlreadyRequested ==
  ASSUME NoAssignments, SwitchedOneWay PROVE Spec => AlreadyRequestedMeansOpen
<1> DEFINE Opened == sched.pc = "run" /\ sched'.pc = "already" /\ phase = "cover"
                       => \/ msgs.cover > 0 \/ msgs.undelivered
                          \/ \E i \in Ids : cover[i] \in Live
<1>1. Watching /\ [Next]_vars => [Opened]_vars
  <2> SUFFICES ASSUME Watching, [Next]_vars, sched.pc = "run", sched'.pc = "already",
                      phase = "cover"
               PROVE  \/ msgs.cover > 0 \/ msgs.undelivered
                      \/ \E i \in Ids : cover[i] \in Live
    OBVIOUS
  <2>1. sched \in Sched /\ RequestsAreOpen
    BY Typed DEF Watching, InTurn, Unassigned, Owned, Base, HandlersTyped
  <2>2. SafetyTransaction
    <3>1. ~SchedulerClaims /\ ~ExecutorInterrupted /\ ~ProcessLoss /\ ~MarkActionCompleted
          /\ sched' # sched
      BY DEF SchedulerClaims, ClaimTimeout, ClaimCover, ClaimSafety, ExecutorInterrupted,
             ProcessLoss, MarkActionCompleted, IdleSched
    <3>2. /\ ~TimeoutTransaction /\ ~TimeoutEscalationRead /\ ~TimeoutEscalationWrite
          /\ ~DeadlineDefersToCover /\ ~CoverRequestStart /\ ~Recheck /\ ~SendCoverMessage
          /\ ~PersistCoverMessage /\ ~CompleteEvent /\ ~CompleteCleanup
      BY <2>1 DEF TimeoutTransaction, TimeoutEscalationRead, TimeoutEscalationWrite,
             DeadlineDefersToCover, CoverRequestStart, Recheck, SendCoverMessage,
             PersistCoverMessage, CompleteEvent, CompleteCleanup, Goto, Sched
    <3> QED
      BY <3>1, <3>2, Turns, Frames DEF SchedulerSteps, SchedulerWorks
  <2>3. SafetyApplies /\ CoverExists
    BY <2>1, <2>2 DEF SafetyTransaction, Goto, Sched
  <2>4. Asks
    BY <2>3 DEF SafetyApplies, Ongoing, Asks, PastStart
  <2>5. CASE \E i \in Ids : cover[i] = "completed"
    BY <2>1, <2>4, <2>5 DEF RequestsAreOpen, CarriedOut, Answerable
  <2> QED
    BY <2>3, <2>5 DEF CoverExists
<1> QED
  BY <1>1, AlwaysWatching, PTL DEF Spec, AlreadyRequestedMeansOpen
-----------------------------------------------------------------------------
(* The rows those transactions lock.  Transactions that lock rows in one  *)
(* order never wait in a circle (RowLocks).                               *)

CONSTANTS Sessions, Issued
VARIABLES program, at
L == INSTANCE RowLocks

Ordered == L!Programs \ L!OutOfOrder

\* Every program but those of OutOfOrder locks rows in the order of their ranks.
Ascending(locks) ==
  \A i, j \in 1 .. Len(locks) : i < j => L!Rank[locks[i].row] < L!Rank[locks[j].row]
Ranked(locks) ==
  Len(locks) \in Nat /\ \A i \in 1 .. Len(locks) : L!Rank[locks[i].row] \in 1 .. 15

LEMMA OrderedAscend == \A p \in Ordered : Ascending(L!Locks[p]) /\ Ranked(L!Locks[p])
<1> USE DEF Ascending, Ranked, L!Rank, L!Lock, L!KeyShare, L!Share, L!Update, L!ForUpdate
<1>1. /\ Ascending(L!TimeOut) /\ Ranked(L!TimeOut)
      /\ Ascending(L!ActivateBackup) /\ Ranked(L!ActivateBackup)
      /\ Ascending(L!QueueCover) /\ Ranked(L!QueueCover)
      /\ Ascending(L!RetireNominees) /\ Ranked(L!RetireNominees)
      /\ Ascending(L!ClaimCover) /\ Ranked(L!ClaimCover)
  BY DEF L!TimeOut, L!ActivateBackup, L!QueueCover, L!RetireNominees, L!ClaimCover
<1>2. /\ Ascending(L!AssignPrimary) /\ Ranked(L!AssignPrimary)
      /\ Ascending(L!AssignBackup) /\ Ranked(L!AssignBackup)
      /\ Ascending(L!Remove) /\ Ranked(L!Remove)
      /\ Ascending(L!Disable) /\ Ranked(L!Disable)
      /\ Ascending(L!RescheduleSafety) /\ Ranked(L!RescheduleSafety)
  BY DEF L!AssignPrimary, L!AssignBackup, L!Remove, L!Disable, L!RescheduleSafety
<1>3. /\ Ascending(L!CreateEvent) /\ Ranked(L!CreateEvent)
      /\ Ascending(L!PublishEvent) /\ Ranked(L!PublishEvent)
      /\ Ascending(L!EditEvent) /\ Ranked(L!EditEvent)
      /\ Ascending(L!Answer) /\ Ranked(L!Answer)
      /\ Ascending(L!RequestRole) /\ Ranked(L!RequestRole)
  BY DEF L!CreateEvent, L!PublishEvent, L!EditEvent, L!Answer, L!RequestRole
<1>4. /\ Ascending(L!LinkGroup) /\ Ranked(L!LinkGroup)
      /\ Ascending(L!CloseGroup) /\ Ranked(L!CloseGroup)
      /\ Ascending(L!MoveGroups) /\ Ranked(L!MoveGroups)
      /\ Ascending(L!ApplyPreset) /\ Ranked(L!ApplyPreset)
      /\ Ascending(L!EditPreset) /\ Ranked(L!EditPreset)
  BY DEF L!LinkGroup, L!CloseGroup, L!MoveGroups, L!ApplyPreset, L!EditPreset
<1>5. /\ Ascending(L!CreateTemplate) /\ Ranked(L!CreateTemplate)
      /\ Ascending(L!EditTemplate) /\ Ranked(L!EditTemplate)
      /\ Ascending(L!EditChildren) /\ Ranked(L!EditChildren)
      /\ Ascending(L!EditSeries) /\ Ranked(L!EditSeries)
      /\ Ascending(L!ReadSeries) /\ Ranked(L!ReadSeries)
      /\ Ascending(L!ClaimSeries) /\ Ranked(L!ClaimSeries)
  BY DEF L!CreateTemplate, L!EditTemplate, L!EditChildren, L!EditSeries, L!ReadSeries, L!ClaimSeries
<1>6. /\ Ascending(L!SetUp) /\ Ranked(L!SetUp)
      /\ Ascending(L!SetUpAudiences) /\ Ranked(L!SetUpAudiences)
  BY DEF L!SetUp, L!SetUpAudiences
<1>7. Ascending(L!Generate) /\ Ranked(L!Generate)
  BY DEF L!Generate
<1>8. Ascending(L!GenerateSlot) /\ Ranked(L!GenerateSlot)
  BY DEF L!GenerateSlot
<1>9. Ordered =
        {"timeOut", "activateBackup", "queueCover", "retireNominees", "claimCover",
         "assignPrimary", "assignBackup", "remove", "disable", "rescheduleSafety",
         "createEvent", "publishEvent", "editEvent", "answer", "requestRole",
         "linkGroup", "closeGroup", "moveGroups", "applyPreset", "editPreset",
         "createTemplate", "editTemplate", "editChildren", "editSeries", "readSeries",
         "claimSeries", "generate", "generateSlot", "setUp", "setUpAudiences"}
  <2>1. L!Programs =
          {"respond", "timeOut", "activateBackup", "queueCover", "retireNominees",
           "claimCover", "assignPrimary", "assignBackup", "remove", "disable",
           "rescheduleSafety", "createEvent", "publishEvent", "editEvent", "answer",
           "requestRole", "postGroup", "linkGroup", "closeGroup", "moveGroups",
           "addOption", "applyPreset", "editPreset", "createTemplate", "editTemplate",
           "editChildren", "editSeries", "readSeries", "claimSeries", "generate",
           "generateSlot", "setUp", "setUpAudiences"}
    BY DEF L!Programs, L!Locks
  <2> QED
    BY <2>1, Zenon DEF Ordered, L!OutOfOrder
<1>10./\ L!Locks.timeOut = L!TimeOut
      /\ L!Locks.activateBackup = L!ActivateBackup
      /\ L!Locks.queueCover = L!QueueCover
      /\ L!Locks.retireNominees = L!RetireNominees
      /\ L!Locks.claimCover = L!ClaimCover
      /\ L!Locks.assignPrimary = L!AssignPrimary
      /\ L!Locks.assignBackup = L!AssignBackup
      /\ L!Locks.remove = L!Remove
      /\ L!Locks.disable = L!Disable
      /\ L!Locks.rescheduleSafety = L!RescheduleSafety
      /\ L!Locks.createEvent = L!CreateEvent
      /\ L!Locks.publishEvent = L!PublishEvent
      /\ L!Locks.editEvent = L!EditEvent
      /\ L!Locks.answer = L!Answer
      /\ L!Locks.requestRole = L!RequestRole
      /\ L!Locks.linkGroup = L!LinkGroup
      /\ L!Locks.closeGroup = L!CloseGroup
      /\ L!Locks.moveGroups = L!MoveGroups
      /\ L!Locks.applyPreset = L!ApplyPreset
      /\ L!Locks.editPreset = L!EditPreset
      /\ L!Locks.createTemplate = L!CreateTemplate
      /\ L!Locks.editTemplate = L!EditTemplate
      /\ L!Locks.editChildren = L!EditChildren
      /\ L!Locks.editSeries = L!EditSeries
      /\ L!Locks.readSeries = L!ReadSeries
      /\ L!Locks.claimSeries = L!ClaimSeries
      /\ L!Locks.generate = L!Generate
      /\ L!Locks.generateSlot = L!GenerateSlot
      /\ L!Locks.setUp = L!SetUp
      /\ L!Locks.setUpAudiences = L!SetUpAudiences
  BY DEF L!Locks
<1> HIDE DEF Ascending, Ranked, L!Rank, L!Lock, L!KeyShare, L!Share, L!Update, L!ForUpdate
<1> QED
  BY <1>1, <1>2, <1>3, <1>4, <1>5, <1>6, <1>7, <1>8, <1>9, <1>10

-----------------------------------------------------------------------------
(* The sessions of a circle would each wait for a later row than          *)
(* another.                                                               *)

LEMMA LocksTyped == L!Spec => []L!TypeOK
<1>1. L!Init => L!TypeOK
  BY DEF L!Init, L!TypeOK
<1>2. L!TypeOK /\ [L!Next]_(L!vars) => L!TypeOK'
  BY DEF L!TypeOK, L!Next, L!vars, L!Begin, L!TakeLock, L!Finish, L!BreakDeadlock, L!End
<1> QED
  BY <1>1, <1>2, PTL DEF L!Spec

WantedRank(s) == L!Rank[L!Locks[program[s]][at[s]].row]

\* Whoever waits for a session that waits itself wants an earlier row than that
\* session does.
LEMMA WaitingAscends ==
  ASSUME L!TypeOK, Issued \subseteq Ordered,
         NEW s \in Sessions, NEW t \in Sessions, L!WaitsFor(s, t), L!Wants(t)
  PROVE  /\ WantedRank(s) \in 1 .. 15
         /\ WantedRank(t) \in 1 .. 15
         /\ WantedRank(s) < WantedRank(t)
<1> DEFINE p == program[s]
           q == program[t]
<1>1. p \in Ordered /\ q \in Ordered /\ at[s] \in Nat \ {0} /\ at[t] \in Nat \ {0}
  BY DEF L!TypeOK, L!WaitsFor, L!Wants
<1>2. at[s] \in 1 .. Len(L!Locks[p]) /\ at[t] \in 1 .. Len(L!Locks[q])
  <2>1. at[s] <= Len(L!Locks[p]) /\ at[t] <= Len(L!Locks[q])
    BY DEF L!WaitsFor, L!Wants
  <2>2. Len(L!Locks[p]) \in Nat /\ Len(L!Locks[q]) \in Nat
    BY <1>1, OrderedAscend DEF Ranked
  <2> QED
    BY <1>1, <2>1, <2>2
<1>3. PICK i \in 1 .. at[t] - 1 : L!Locks[q][i].row = L!Locks[p][at[s]].row
  BY DEF L!WaitsFor
<1>4. i \in 1 .. Len(L!Locks[q]) /\ i < at[t]
  BY <1>1, <1>2, <1>3
<1>5. L!Rank[L!Locks[q][i].row] < L!Rank[L!Locks[q][at[t]].row]
  BY <1>1, <1>2, <1>4, OrderedAscend DEF Ascending
<1>6. WantedRank(s) \in 1 .. 15 /\ WantedRank(t) \in 1 .. 15
  BY <1>1, <1>2, OrderedAscend DEF Ranked, WantedRank
<1> QED
  BY <1>3, <1>5, <1>6 DEF WantedRank

LEMMA OrderedHaveNoCircle ==
  ASSUME L!TypeOK, Issued \subseteq Ordered, NEW S \in SUBSET Sessions, L!Circle(S)
  PROVE  FALSE
<1> DEFINE Reaches(k) == \E s \in S : WantedRank(s) \in 1 .. 15 /\ k <= WantedRank(s)
<1>1. Reaches(1)
  <2>1. PICK s \in S : TRUE
    BY DEF L!Circle
  <2>2. PICK t \in S : L!WaitsFor(s, t)
    BY DEF L!Circle
  <2>3. L!Wants(t)
    BY DEF L!Circle, L!WaitsFor
  <2> QED
    BY <2>2, <2>3, WaitingAscends
<1>2. \A k \in Nat : Reaches(k) => Reaches(k + 1)
  <2> SUFFICES ASSUME NEW k \in Nat, NEW s \in S,
                      WantedRank(s) \in 1 .. 15, k <= WantedRank(s)
               PROVE  Reaches(k + 1)
    OBVIOUS
  <2>1. PICK t \in S : L!WaitsFor(s, t)
    BY DEF L!Circle
  <2>2. L!Wants(t)
    BY DEF L!Circle, L!WaitsFor
  <2>3. WantedRank(t) \in 1 .. 15 /\ WantedRank(s) < WantedRank(t)
    BY <2>1, <2>2, WaitingAscends
  <2> QED
    BY <2>3
<1>3. ~Reaches(17)
  OBVIOUS
<1> HIDE DEF Reaches
<1>4. \A k \in Nat : Reaches(k) => Reaches(k + 2)
  BY <1>2
<1>5. \A k \in Nat : Reaches(k) => Reaches(k + 4)
  BY <1>4
<1>6. \A k \in Nat : Reaches(k) => Reaches(k + 8)
  BY <1>5
<1>7. \A k \in Nat : Reaches(k) => Reaches(k + 16)
  BY <1>6
<1> QED
  BY <1>1, <1>3, <1>7

\* Transactions other than those of OutOfOrder never wait for each other in a
\* circle, however many there are and whatever they share.
THEOREM OrderedNeverDeadlock ==
  ASSUME Issued \subseteq Ordered PROVE L!Spec => []L!NoLockCycle
<1>1. L!TypeOK => L!NoLockCycle
  BY OrderedHaveNoCircle DEF L!NoLockCycle
<1> QED
  BY <1>1, LocksTyped, PTL
=============================================================================
