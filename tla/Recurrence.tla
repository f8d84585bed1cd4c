----------------------------- MODULE Recurrence -----------------------------
(***************************************************************************)
(* One recurring series: its durable sweep lease, the materialisation of a *)
(* bounded horizon of calendar slots and the administration that changes   *)
(* its source underneath (src/templates/event-template-recurrence-*.ts,    *)
(* src/scheduler/recurrence-scheduler.ts).                                 *)
(*                                                                         *)
(* A unit of time is one sweep interval; slot d starts at time d.  Every   *)
(* transaction is a step.  The clock outruns the workers only by a fault,  *)
(* so what the properties say about time is in units of faults.            *)
(*                                                                         *)
(* No name here is one of Templates, so that TemplatesProofs extends both. *)
(***************************************************************************)
EXTENDS Integers

CONSTANTS
  Workers,      \* bot processes
  NoOne,        \* no claim token
  Rules,        \* recurrence rules, each the set of slots it generates
  Nonexistent,  \* slots whose local start time does not exist that day
  Leads,        \* how long before the start sign-ups close, 0 without sign-ups
  Horizon,      \* RECURRING_EVENT_HORIZON_DAYS
  StaleAfter,   \* RECURRENCE_SWEEP_STALE_AFTER_MS
  MaxTime,      \* bound: the clock
  MaxChanges,   \* bound: administrative changes
  MaxSweepFaults  \* bound: lost processes, failed sweeps, stalls

ASSUME WorkersAssumption == NoOne \notin Workers
ASSUME LeaseAssumption == StaleAfter \in Nat /\ Horizon \in Nat /\ StaleAfter > 1
ASSUME RulesAssumption == Rules \subseteq SUBSET Nat
ASSUME LeadsAssumption == Leads \subseteq Nat
ASSUME SweepBoundsAssumption == MaxTime \in Nat /\ MaxChanges \in Nat /\ MaxSweepFaults \in Nat

VARIABLES
  now,
  recurrence, \* the row of event_template_recurrences
  parent,     \* its template: active, publication mode, when sign-ups close
  guild,      \* it is enabled; what it lacks of all that generation needs
  created,    \* slots that have an event (event_recurrence_occurrences)
  worker,     \* the sweep of each process
  changes, sweepFaults,
  since,      \* when the series or what it depends on last changed
  revised     \* the administrative change that last touched the series itself

sweepSource == <<recurrence, parent, guild>>
sweepVars == <<now, sweepSource, created, worker, changes, sweepFaults, since, revised>>

Never == -1   \* a null timestamp
CalendarSlots == UNION Rules

\* An active event type and audience; a channel, and a preset that can be applied.
Needs == {"source", "target"}

IdleSweep == [pc |-> "idle", clock |-> 0, slots |-> {}, todo |-> {}, bad |-> {},
              outcome |-> "none", change |-> 0]

\* A new series; it may have been paused, and its template made immediate, at once.
SweepInit ==
  /\ now = 0
  /\ \E rule \in Rules, active, immediate \in BOOLEAN, lead \in Leads :
       /\ active => ~immediate
       /\ recurrence = [active |-> active, rule |-> rule, next |-> 0, token |-> NoOne,
                        started |-> Never, outcome |-> "none"]
       /\ parent = [active |-> TRUE, immediate |-> immediate, lead |-> lead]
  /\ guild = [enabled |-> TRUE, lacks |-> {}]
  /\ created = {}
  /\ worker = [w \in Workers |-> IdleSweep]
  /\ changes = 0 /\ sweepFaults = 0 /\ since = 0 /\ revised = 0

Eligible == recurrence.active /\ parent.active /\ guild.enabled

-----------------------------------------------------------------------------
(* Discovery and the lease.                                                *)

\* Mutant: a lease is never taken over.
LeaseNeverFree(clock) == recurrence.token = NoOne

LeaseFree(clock) ==
  \/ recurrence.token = NoOne
  \/ recurrence.started = Never
  \/ recurrence.started <= clock - StaleAfter

Due == Eligible /\ recurrence.next <= now /\ LeaseFree(now)

Moves(w, r) == worker' = [worker EXCEPT ![w] = r]
IdleWorker(w) == Moves(w, IdleSweep)

\* The clock of the whole run is read here.
Discover(w) ==
  /\ worker[w].pc = "idle" /\ Due
  /\ Moves(w, [worker[w] EXCEPT !.pc = "claim", !.clock = now])
  /\ UNCHANGED <<now, sweepSource, created, changes, sweepFaults, since, revised>>

\* A fresh token; a process has one claim at a time, so its name stands for it.
Claim(w) ==
  LET clock == worker[w].clock IN
  /\ worker[w].pc = "claim"
  /\ IF recurrence.active /\ recurrence.next <= clock /\ LeaseFree(clock)
     THEN /\ recurrence' = [recurrence EXCEPT !.next = clock + 1, !.token = w, !.started = clock]
          /\ Moves(w, [worker[w] EXCEPT !.pc = "check", !.change = changes])
     ELSE IdleWorker(w) /\ UNCHANGED recurrence
  /\ UNCHANGED <<now, parent, guild, created, changes, sweepFaults, since, revised>>

Concludes(w, outcome) ==
  Moves(w, [worker[w] EXCEPT !.pc = "complete", !.outcome = outcome])

CheckEligibility(w) ==
  /\ worker[w].pc = "check"
  /\ IF Eligible THEN Moves(w, [worker[w] EXCEPT !.pc = "read"])
     ELSE Concludes(w, "skipped")
  /\ UNCHANGED <<now, sweepSource, created, changes, sweepFaults, since, revised>>

-----------------------------------------------------------------------------
(* The horizon, one transaction for each slot.                             *)

ReadHorizon(w) ==
  LET clock == worker[w].clock
      slots == recurrence.rule \cap (clock .. clock + Horizon - 1)
  IN
  /\ worker[w].pc = "read"
  /\ IF ~parent.active \/ ~recurrence.active THEN Concludes(w, "skipped")
     ELSE IF parent.immediate THEN Concludes(w, "failure")
     ELSE Moves(w, [worker[w] EXCEPT !.pc = "slots", !.slots = slots, !.todo = slots])
  /\ UNCHANGED <<now, sweepSource, created, changes, sweepFaults, since, revised>>

Missing(d) == recurrence.active /\ d \in recurrence.rule \ created

\* The sign-ups of the slot would still be open.
InTime(w, d) == d - parent.lead > worker[w].clock

\* Why a slot fails: the template became immediate, the local time is skipped, the
\* guild lacks what the event needs.  Its type and audience are looked for before
\* the sign-ups, its channel and preset after: a slot too late counts as skipped.
SlotFails(w, d) ==
  \/ parent.immediate
  \/ Missing(d) /\ d \in Nonexistent
  \/ /\ Missing(d) /\ parent.active /\ d > worker[w].clock
     /\ "source" \in guild.lacks \/ (InTime(w, d) /\ "target" \in guild.lacks)

\* Mutant: what starts at the clock is generated, what starts next is not.
SlotGeneratesLate(w, d) ==
  Missing(d) /\ parent.active /\ d - parent.lead < worker[w].clock + 2

SlotGenerates(w, d) == Missing(d) /\ parent.active /\ InTime(w, d)

\* The slots are taken in the order of the calendar.
GenerateSlot(w) ==
  /\ worker[w].pc = "slots"
  /\ \E d \in worker[w].todo :
       /\ \A e \in worker[w].todo : d <= e
       /\ created' = IF SlotGenerates(w, d) /\ ~SlotFails(w, d) THEN created \cup {d}
                     ELSE created
       /\ Moves(w, [worker[w] EXCEPT !.todo = @ \ {d},
                                     !.bad = IF SlotFails(w, d) THEN @ \cup {d} ELSE @])
  /\ UNCHANGED <<now, sweepSource, changes, sweepFaults, since, revised>>

FinishSlots(w) ==
  /\ worker[w].pc = "slots" /\ worker[w].todo = {}
  /\ Concludes(w, IF worker[w].bad = {} THEN "success"
                  ELSE IF worker[w].bad = worker[w].slots THEN "failure"
                  ELSE "partial_failure")
  /\ UNCHANGED <<now, sweepSource, created, changes, sweepFaults, since, revised>>

\* Mutant: completion is not fenced by the claim token.
OwnsAnyway(w) == TRUE

Owns(w) == recurrence.token = w

Complete(w) ==
  /\ worker[w].pc = "complete"
  /\ recurrence' = IF Owns(w)
                   THEN [recurrence EXCEPT !.token = NoOne, !.outcome = worker[w].outcome]
                   ELSE recurrence
  /\ IdleWorker(w)
  /\ UNCHANGED <<now, parent, guild, created, changes, sweepFaults, since, revised>>

-----------------------------------------------------------------------------
(* Administration.  Each transaction locks the template row first.         *)

Change ==
  /\ changes < MaxChanges /\ changes' = changes + 1
  /\ since' = now
  /\ UNCHANGED <<now, created, worker, sweepFaults>>

Revise == Change /\ revised' = changes' /\ UNCHANGED <<parent, guild>>

\* Mutant: an edit leaves the sweep of the old rule its claim.
EditedUnfenced(rule) ==
  [recurrence EXCEPT !.rule = rule, !.next = now, !.started = Never, !.outcome = "none"]

Edited(rule) ==
  [recurrence EXCEPT !.rule = rule, !.next = now, !.token = NoOne, !.started = Never,
                      !.outcome = "none"]

EditRecurrence ==
  /\ ~(recurrence.active /\ parent.immediate)
  /\ \E rule \in Rules \ {recurrence.rule} : recurrence' = Edited(rule)
  /\ Revise

CanActivate(active) == active => ~parent.immediate

SetRecurrenceActive ==
  /\ CanActivate(~recurrence.active)
  /\ recurrence' = [recurrence EXCEPT !.active = ~@, !.token = NoOne,
                                  !.next = IF recurrence.active THEN @ ELSE now]
  /\ Revise

SetTemplateActive ==
  /\ parent' = [parent EXCEPT !.active = ~@]
  /\ Change /\ UNCHANGED <<recurrence, guild, revised>>

\* The template is edited; an active recurrence refuses the immediate mode.
EditParent ==
  /\ \E immediate \in BOOLEAN, lead \in Leads :
       /\ immediate /\ ~parent.immediate => ~recurrence.active
       /\ parent' = [parent EXCEPT !.immediate = immediate, !.lead = lead]
  /\ parent' # parent
  /\ Change /\ UNCHANGED <<recurrence, guild, revised>>

SetEnabled ==
  /\ guild' = [guild EXCEPT !.enabled = ~@]
  /\ Change /\ UNCHANGED <<recurrence, parent, revised>>

\* The guild loses or regains an event type, an audience, its channel or a preset.
SetNeeds ==
  /\ \E n \in Needs :
       guild' = [guild EXCEPT !.lacks = IF n \in @ THEN @ \ {n} ELSE @ \cup {n}]
  /\ Change /\ UNCHANGED <<recurrence, parent, revised>>

-----------------------------------------------------------------------------
(* Time and faults.                                                        *)

Punctual == ~Due /\ \A w \in Workers : worker[w].pc = "idle"

\* Time that passes while a sweep is due or under way is a fault.
Tick ==
  /\ now < MaxTime /\ now' = now + 1
  /\ IF Punctual THEN UNCHANGED sweepFaults
     ELSE sweepFaults < MaxSweepFaults /\ sweepFaults' = sweepFaults + 1
  /\ UNCHANGED <<sweepSource, created, worker, changes, since, revised>>

\* The process is lost, and its claim with it.
LoseProcess(w) ==
  /\ worker[w].pc # "idle"
  /\ sweepFaults < MaxSweepFaults /\ now + StaleAfter < MaxTime
  /\ IdleWorker(w) /\ sweepFaults' = sweepFaults + 1
  /\ UNCHANGED <<now, sweepSource, created, changes, since, revised>>

\* A statement of the horizon throws: the rest of this sweep is given up.
SweepThrows(w) ==
  /\ worker[w].pc \in {"read", "slots"}
  /\ sweepFaults < MaxSweepFaults /\ sweepFaults' = sweepFaults + 1
  /\ Concludes(w, "failure")
  /\ UNCHANGED <<now, sweepSource, created, changes, since, revised>>

Sweeps(w) ==
  \/ Discover(w) \/ Claim(w) \/ CheckEligibility(w) \/ ReadHorizon(w)
  \/ GenerateSlot(w) \/ FinishSlots(w) \/ Complete(w)

SweepNext ==
  \/ Tick
  \/ \E w \in Workers : Sweeps(w) \/ LoseProcess(w) \/ SweepThrows(w)
  \/ EditRecurrence \/ SetRecurrenceActive \/ SetTemplateActive \/ EditParent
  \/ SetEnabled \/ SetNeeds

SweepSpec == SweepInit /\ [][SweepNext]_sweepVars

\* Both processes poll and a started sweep goes on; the clock moves.
SweepFairness == WF_sweepVars(Tick) /\ \A w \in Workers : WF_sweepVars(Sweeps(w))

FairSweepSpec == SweepSpec /\ SweepFairness

-----------------------------------------------------------------------------
(* Properties.                                                             *)

Outcomes == {"none", "success", "partial_failure", "failure", "skipped"}

Steps == {"idle", "claim", "check", "read", "slots", "complete"}

Series == [active : BOOLEAN, rule : Rules, next : 0 .. MaxTime + 1,
           token : Workers \cup {NoOne}, started : {Never} \cup (0 .. MaxTime),
           outcome : Outcomes]

Sweep == [pc : Steps, clock : 0 .. MaxTime, outcome : Outcomes, change : 0 .. MaxChanges,
          slots : SUBSET CalendarSlots, todo : SUBSET CalendarSlots, bad : SUBSET CalendarSlots]

\* What a sweep knows is of the past, a slot is failed once it is done, and
\* nothing is left of an earlier sweep.
SweepOK(r) ==
  /\ r.clock <= now /\ r.change <= changes
  /\ r.todo \subseteq r.slots /\ r.bad \subseteq r.slots \ r.todo
  /\ r.pc = "idle" => r = IdleSweep
  /\ r.pc \in {"claim", "check", "read"} => r.slots = {}

\* Shape of the state; no event is created in a gap of the clock.
SweepTypeOK ==
  /\ now \in 0 .. MaxTime /\ since \in 0 .. now
  /\ recurrence \in Series /\ recurrence.started <= now
  /\ parent \in [active : BOOLEAN, immediate : BOOLEAN, lead : Leads]
  /\ guild \in [enabled : BOOLEAN, lacks : SUBSET Needs]
  /\ created \subseteq CalendarSlots \ Nonexistent
  /\ changes \in 0 .. MaxChanges /\ revised \in 0 .. changes
  /\ sweepFaults \in 0 .. MaxSweepFaults
  /\ worker \in [Workers -> Sweep]
  /\ \A w \in Workers : SweepOK(worker[w])

\* The longest a series can wait for a sweep: its next one, and a lease to run
\* out for every fault.
Slack == 2 + StaleAfter * sweepFaults

\* Nothing keeps the events of the series from being generated.
Productive == Eligible /\ guild.lacks = {}

\* "A ten-day horizon gives the longest supported lead time headroom": a series
\* that has been unchanged, eligible and provided for long enough has an event for
\* every slot of its rule in the rest of the horizon whose sign-ups are still to
\* close, through lost processes, takeovers of their leases, failed sweeps and
\* stalls, and whatever its sweeps skipped or failed to generate before.
SlotsMaterialise ==
  Productive /\ since + Slack <= now
    => \A d \in recurrence.rule \ Nonexistent :
         d - parent.lead > now /\ d < now + Horizon - Slack => d \in created

\* A recorded outcome is that of a sweep claimed after the last edit or change
\* of lifecycle of the series: neither a sweep of the previous rule nor one
\* whose lease another process took over may record its own.
RecordedOutcomeIsCurrent ==
  [][\A w \in Workers :
       worker[w].pc = "complete" /\ worker'[w].pc = "idle" /\ recurrence' # recurrence
         => worker[w].change >= revised /\ worker[w].clock = recurrence.started]_sweepVars

\* An active series never generates events that are to be published at once:
\* neither resuming a series nor editing its template brings the two together.
NeverImmediate == recurrence.active => ~parent.immediate

\* A changed series is swept again, unless it becomes ineligible first: no lost
\* process, lost race or lost claim leaves its lease held for good.
ChangedSeriesIsSwept ==
  (recurrence.outcome = "none") ~> (recurrence.outcome # "none" \/ ~Eligible)
=============================================================================
