----------------------------- MODULE Templates -----------------------------
(***************************************************************************)
(* One event template: its administration                                  *)
(* (src/templates/event-template-admin-service.ts), its recurrence row     *)
(* (event-template-recurrence-service.ts), and the events generated from   *)
(* it, by /template generate or for a slot of the series                   *)
(* (event-template-generation-service.ts,                                  *)
(* event-template-recurrence-generation-service.ts), while the organiser   *)
(* feature and the preset of the template are switched on and off.         *)
(*                                                                         *)
(* A transaction is split at its statements and pc tells which row locks   *)
(* it holds.  What a generation has written and not yet committed is its   *)
(* draft: a savepoint or a rollback takes it back.                         *)
(***************************************************************************)
EXTENDS Integers, Sequences

CONSTANTS
  Sessions,    \* database sessions in use at once
  Times,       \* local start times
  PingRoles,   \* Discord roles an event may ping
  Reminders,   \* rows of reminder definitions
  Dates,       \* slots of the recurrence rule
  Offsets,     \* minutes before the start
  Edits,       \* what /template edit may be asked to change
  Seeds,       \* templates to begin with
  NoTime, NoDate,
  MaxOps,      \* bound: operations issued
  MaxFaults    \* bound: transactions lost

Modes == {"manual", "scheduled", "immediate"}
Kinds == {"event_start", "signup_close"}
Slots == {"primary", "backup"}
NoOffset == 0

Columns == {"active", "roles", "preset", "time", "signups", "closes", "mode", "lead"}

\* The columns of event_templates that are compared or copied, and the child
\* rows.  roles: the event type offers role requests.  preset: there is one.
\* lead: publish_minutes_before_start.  closes: attendance_close_minutes_before.
Template ==
  [active : BOOLEAN, roles : BOOLEAN, preset : BOOLEAN, time : Times \cup {NoTime},
   signups : BOOLEAN, closes : Offsets, mode : Modes, lead : Offsets \cup {NoOffset},
   pings : SUBSET PingRoles, organisers : SUBSET Slots,
   reminders : [Reminders -> Kinds \cup {"none"}]]

Of(t, kind) == {r \in Reminders : t.reminders[r] = kind}

\* What normaliseEventTemplateConfiguration accepts.
\* The mutant lets publication coincide with the end of sign-ups.
AcceptableLoosely(t) ==
  /\ (t.mode = "scheduled") = (t.lead # NoOffset)
  /\ t.signups /\ t.mode = "scheduled" => t.lead >= t.closes
Acceptable(t) ==
  /\ (t.mode = "scheduled") = (t.lead # NoOffset)
  /\ t.signups /\ t.mode = "scheduled" => t.lead > t.closes

\* What the checks of generation accept, in the rows they have read so far:
\* those of the template row, then those of its children.
RowIsSound(t) ==
  /\ t.mode = "scheduled" => t.lead # NoOffset /\ t.lead > 0
  /\ t.mode # "scheduled" => t.lead = NoOffset
  /\ t.mode = "scheduled" /\ t.signups => t.lead > t.closes
ChildrenAreSound(t) ==
  /\ "backup" \in t.organisers => "primary" \in t.organisers
  /\ Of(t, "signup_close") # {} => t.signups

\* The columns a template has after the edit e.
Merge(t, e) == [c \in DOMAIN t |-> IF c \in DOMAIN e THEN e[c] ELSE t[c]]

\* What /template edit may be asked for: one value for each column it names,
\* which may be none where the column is nullable.  "active" has a command of
\* its own.
EditRequest(e) == /\ DOMAIN e \subseteq Columns \ {"active"}
                  /\ \A t \in Template : Merge(t, e) \in Template

ASSUME EditsAssumption == \A e \in Edits : EditRequest(e)
ASSUME SeedsAssumption ==
  \A t \in Seeds : /\ t \in Template
                   /\ Acceptable(t) /\ ChildrenAreSound(t)
                   /\ t.preset => t.roles
ASSUME OffsetsAssumption == Offsets \subseteq Nat \ {NoOffset}
ASSUME NothingAssumption == NoTime \notin Times /\ NoDate \notin Dates
ASSUME BoundsAssumption == MaxOps \in Nat /\ MaxFaults \in Nat

VARIABLES
  template,   \* event_templates and its child rows
  revision,   \* updated_at
  series,     \* event_template_recurrences
  events,     \* the events generated so far, in the order of their commits
  slots,      \* event_recurrence_occurrences: the date of each recorded slot
  organisersEnabled,  \* guild_settings.organisers_enabled
  preset,     \* what an application would make of the preset now
  tx,         \* the transaction of each session
  source,     \* history: the template as it was at each revision
  issued, faults

stored == <<template, revision, series, events, slots, organisersEnabled, preset, source>>
vars == <<stored, tx, issued, faults>>

\* An event keeps what it was generated with.  start: the local time its start
\* was computed from.  chosen: by the time option of the command.
Event ==
  [rev : Nat, start : Times, chosen : BOOLEAN, date : Dates \cup {NoDate},
   signups : BOOLEAN, closes : Offsets, mode : Modes, lead : Offsets \cup {NoOffset},
   pings : SUBSET PingRoles, organisers : SUBSET Slots,
   reminders : [Reminders -> Kinds \cup {"none"}], applied : BOOLEAN, published : BOOLEAN]

Mutations == {"edit", "pings", "organisers", "addReminder", "editReminder", "removeReminder",
              "replaceReminders", "active"}
SeriesOps == {"createSeries", "setSeries"}
Generations == {"generate", "slot"}
Ops == Mutations \cup SeriesOps \cup Generations \cup {"feature", "preset"}

PresetStates == {"usable", "incomplete", "inactive"}

\* What an operation holds of the rows it has read: seen.  For an edit: the row
\* it is going to write, input the columns that the command named.
\* wrote: what the draft of a generation contains.
Transaction ==
  [op : Ops \cup {"none"},
   pc : {"idle", "lock", "series", "reminders", "relations", "write", "inspect", "template",
         "settings", "pings", "organisers", "insert", "apply", "slot", "commit", "publish"},
   seen : Template, input : SUBSET Columns, rev : Nat, start : Times \cup {NoTime},
   chosen : BOOLEAN, date : Dates \cup {NoDate}, snapshot : BOOLEAN,
   wrote : SUBSET {"event", "preset", "slot"}, event : Nat]

NoReminders == [r \in Reminders |-> "none"]
Childless(t) == [t EXCEPT !.pings = {}, !.organisers = {}, !.reminders = NoReminders]

Idle == [op |-> "none", pc |-> "idle", seen |-> Childless(CHOOSE t \in Seeds : TRUE),
         input |-> {}, rev |-> 0, start |-> NoTime, chosen |-> FALSE, date |-> NoDate,
         snapshot |-> FALSE, wrote |-> {}, event |-> 0]

\* A template as administration may have left it, with or without a series.
Init ==
  /\ template \in Seeds /\ revision = 1
  /\ source = [r \in {1} |-> template]
  /\ series \in {"none", "active"}
  /\ series = "active" => template.time # NoTime /\ template.mode # "immediate"
  /\ events = << >> /\ slots = {}
  /\ organisersEnabled = TRUE /\ preset = "usable"
  /\ tx = [s \in Sessions |-> Idle]
  /\ issued = 0 /\ faults = 0

At(s, op, pc) == tx[s].op = op /\ tx[s].pc = pc
Goto(s, pc) == tx' = [tx EXCEPT ![s].pc = pc]
End(s) == tx' = [tx EXCEPT ![s] = Idle]
Counted == UNCHANGED <<issued, faults>>

-----------------------------------------------------------------------------
(* Row locks.                                                              *)

Drafting == {"settings", "pings", "organisers", "reminders", "insert", "apply", "slot", "commit"}

OwnsTemplate(s) ==
  tx[s].op \in Mutations \cup SeriesOps /\ tx[s].pc \in {"series", "reminders", "relations", "write"}
\* The mutant generates without a lock on the template.
SharesNothing(s) == FALSE
SharesTemplate(s) ==
  \/ tx[s].op \in Generations /\ tx[s].pc \in Drafting
  \/ tx[s].op = "slot" /\ tx[s].pc \in {"series", "lock"}
OwnsSeries(s) == \/ At(s, "setSeries", "write")
                 \/ tx[s].op = "slot" /\ tx[s].pc \in Drafting \cup {"lock"}
SharesSettings(s) == tx[s].op \in Generations /\ tx[s].pc \in Drafting \ {"settings"}
OwnsSettings(s) == At(s, "feature", "write")
SharesPreset(s) == \/ tx[s].op \in Generations /\ "preset" \in tx[s].wrote
                   \/ At(s, "edit", "write") /\ "preset" \in tx[s].input /\ tx[s].seen.preset
OwnsPreset(s) == At(s, "preset", "write")

Others(s) == Sessions \ {s}
\* The mutant does not wait.
Unlocked(s) == TRUE
TemplateIsFree(s) == \A u \in Others(s) : ~OwnsTemplate(u) /\ ~SharesTemplate(u)
TemplateIsShared(s) == \A u \in Others(s) : ~OwnsTemplate(u)
SeriesIsFree(s) == \A u \in Others(s) : ~OwnsSeries(u)
SettingsAreFree(s) == \A u \in Others(s) : ~OwnsSettings(u) /\ ~SharesSettings(u)
SettingsAreShared(s) == \A u \in Others(s) : ~OwnsSettings(u)
PresetIsFree(s) == \A u \in Others(s) : ~OwnsPreset(u) /\ ~SharesPreset(u)
PresetIsShared(s) == \A u \in Others(s) : ~OwnsPreset(u)

Begin(s) ==
  /\ tx[s].pc = "idle" /\ issued < MaxOps /\ issued' = issued + 1
  /\ \E op \in Ops :
       tx' = [tx EXCEPT ![s].op = op,
                        ![s].pc = CASE op = "generate" -> "inspect"
                                    [] op = "slot" -> "template"
                                    [] OTHER -> "lock"]
  /\ UNCHANGED <<stored, faults>>

\* The process is lost or a statement fails.  A transaction rolls back; an event
\* that was to be published at once stays a draft.
Abandon(s) ==
  /\ tx[s].pc # "idle"
  /\ faults < MaxFaults /\ faults' = faults + 1
  /\ End(s) /\ UNCHANGED <<stored, issued>>

-----------------------------------------------------------------------------
(* Administration of the template.                                         *)

\* Everything that is decided on the row alone is decided here.
EditLock(s) ==
  /\ At(s, "edit", "lock") /\ TemplateIsFree(s)
  /\ \E e \in Edits :
       IF Acceptable(Merge(template, e))
       THEN tx' = [tx EXCEPT ![s].pc = "series", ![s].seen = Merge(template, e),
                             ![s].input = DOMAIN e]
       ELSE End(s)
  /\ Counted /\ UNCHANGED stored

\* The mutant asks only about a series that is active.
EditSuitsActiveSeries(s) ==
  series = "active" => tx[s].seen.time # NoTime /\ tx[s].seen.mode # "immediate"
EditSuitsSeries(s) ==
  /\ "time" \in tx[s].input /\ series # "none" => tx[s].seen.time # NoTime
  /\ "mode" \in tx[s].input /\ series = "active" => tx[s].seen.mode # "immediate"

EditSeries(s) ==
  /\ At(s, "edit", "series")
  /\ IF EditSuitsSeries(s) THEN Goto(s, "reminders") ELSE End(s)
  /\ Counted /\ UNCHANGED stored

\* The mutant compares with the sign-ups the template had.
EditSuitsOldReminders(s) == Of(template, "signup_close") # {} => template.signups
EditSuitsReminders(s) ==
  "signups" \in tx[s].input /\ ~tx[s].seen.signups => Of(template, "signup_close") = {}

EditReminders(s) ==
  /\ At(s, "edit", "reminders")
  /\ IF EditSuitsReminders(s) THEN Goto(s, "relations") ELSE End(s)
  /\ Counted /\ UNCHANGED stored

\* Only a preset that the command names must be active.
EditRelations(s) ==
  /\ At(s, "edit", "relations") /\ PresetIsShared(s)
  /\ IF /\ "preset" \in tx[s].input /\ tx[s].seen.preset => preset # "inactive"
        /\ {"roles", "preset"} \cap tx[s].input # {} /\ tx[s].seen.preset => tx[s].seen.roles
     THEN Goto(s, "write")
     ELSE End(s)
  /\ Counted /\ UNCHANGED stored

\* A mutation that changes nothing leaves updated_at alone.  That is the clock of
\* the process in milliseconds; here it is a counter, which always grows.
\* The mutant never writes it.
SaveQuietly(s, t) ==
  /\ template' = t /\ UNCHANGED <<revision, source>>
  /\ End(s) /\ Counted /\ UNCHANGED <<series, events, slots, organisersEnabled, preset>>
Save(s, t) ==
  /\ template' = t
  /\ IF t = template
     THEN UNCHANGED <<revision, source>>
     ELSE /\ revision' = revision + 1
          /\ source' = [r \in 1 .. revision + 1 |-> IF r = revision + 1 THEN t ELSE source[r]]
  /\ End(s) /\ Counted /\ UNCHANGED <<series, events, slots, organisersEnabled, preset>>

EditWrite(s) ==
  /\ At(s, "edit", "write")
  /\ Save(s, [c \in DOMAIN template |->
                IF c \in tx[s].input THEN tx[s].seen[c] ELSE template[c]])

\* The other mutations read what they need of the row with the lock on it.
MutationLock(s) ==
  /\ tx[s].op \in Mutations \ {"edit"} /\ tx[s].pc = "lock" /\ TemplateIsFree(s)
  /\ tx' = [tx EXCEPT ![s].pc = "write", ![s].seen = Childless(template)]
  /\ Counted /\ UNCHANGED stored

ReplacePings(s) ==
  /\ At(s, "pings", "write")
  /\ \E roles \in SUBSET PingRoles : Save(s, [template EXCEPT !.pings = roles])

\* /template organisers: one member for each slot, and no backup alone.
OrganiserRequests == {o \in SUBSET Slots : "backup" \in o => "primary" \in o}

ReplaceOrganisers(s) ==
  /\ At(s, "organisers", "write")
  /\ \E organisers \in OrganiserRequests :
       Save(s, [template EXCEPT !.organisers = organisers])

\* A definition relative to the end of sign-ups needs sign-ups.
\* The mutant forgets it.
AnyKind(s, kind) == TRUE
MayUse(s, kind) == kind = "signup_close" => tx[s].seen.signups

AddReminder(s) ==
  /\ At(s, "addReminder", "write")
  /\ \E r \in Of(template, "none"), kind \in Kinds :
       MayUse(s, kind) /\ Save(s, [template EXCEPT !.reminders[r] = kind])

EditReminder(s) ==
  /\ At(s, "editReminder", "write")
  /\ \E r \in Reminders \ Of(template, "none"), kind \in Kinds :
       MayUse(s, kind) /\ Save(s, [template EXCEPT !.reminders[r] = kind])

RemoveReminder(s) ==
  /\ At(s, "removeReminder", "write")
  /\ \E r \in Reminders \ Of(template, "none") :
       Save(s, [template EXCEPT !.reminders[r] = "none"])

ReplaceReminders(s) ==
  /\ At(s, "replaceReminders", "write")
  /\ \E reminders \in [Reminders -> Kinds \cup {"none"}] :
       /\ \A r \in Reminders : MayUse(s, reminders[r])
       /\ Save(s, [template EXCEPT !.reminders = reminders])

SetActive(s) ==
  /\ At(s, "active", "write")
  /\ \E active \in BOOLEAN : Save(s, [template EXCEPT !.active = active])

\* The input is refused, or names a row that is gone.
MutationRefused(s) ==
  /\ tx[s].op \in Mutations /\ tx[s].pc = "write"
  /\ End(s) /\ Counted /\ UNCHANGED stored

-----------------------------------------------------------------------------
(* Administration of the series.                                           *)

SeriesLock(s) ==
  /\ tx[s].op \in SeriesOps /\ tx[s].pc = "lock" /\ TemplateIsFree(s)
  /\ tx' = [tx EXCEPT ![s].pc = IF tx[s].op = "createSeries" THEN "write" ELSE "series",
                      ![s].seen = Childless(template)]
  /\ Counted /\ UNCHANGED stored

SeriesIsGenerable(t) == t.time # NoTime /\ t.mode # "immediate"

WriteSeries(s, state) ==
  /\ series' = state /\ End(s) /\ Counted
  /\ UNCHANGED <<template, revision, events, slots, organisersEnabled, preset, source>>

CreateSeries(s) ==
  /\ At(s, "createSeries", "write")
  /\ WriteSeries(s, IF SeriesIsGenerable(tx[s].seen) /\ series = "none" THEN "active" ELSE series)

SetSeriesLock(s) ==
  /\ At(s, "setSeries", "series") /\ SeriesIsFree(s)
  /\ IF series = "none" THEN End(s) ELSE Goto(s, "write")
  /\ Counted /\ UNCHANGED stored

SetSeriesActive(s) ==
  /\ At(s, "setSeries", "write")
  /\ \E state \in {"active", "paused"} :
       WriteSeries(s, IF state = "active" /\ ~SeriesIsGenerable(tx[s].seen) THEN series ELSE state)

-----------------------------------------------------------------------------
(* Generation.                                                             *)

\* The time option of the command, or the time of the template.
StartFrom(given) == IF given # NoTime THEN given ELSE template.time

\* /template generate reads the template in a transaction of its own to compute
\* the start.
Inspect(s) ==
  /\ At(s, "generate", "inspect") /\ TemplateIsShared(s)
  /\ \E given \in Times \cup {NoTime} :
       IF template.active /\ StartFrom(given) # NoTime
       THEN tx' = [tx EXCEPT ![s].pc = "lock", ![s].rev = revision,
                             ![s].start = StartFrom(given), ![s].chosen = given # NoTime]
       ELSE End(s)
  /\ Counted /\ UNCHANGED stored

\* A sweep generates a slot.
SlotTemplate(s) ==
  /\ At(s, "slot", "template") /\ TemplateIsShared(s)
  /\ IF template.mode = "immediate"
     THEN End(s)
     ELSE \E d \in Dates :
            tx' = [tx EXCEPT ![s].pc = "series", ![s].seen = Childless(template),
                             ![s].rev = revision, ![s].date = d]
  /\ Counted /\ UNCHANGED stored

SlotSeries(s) ==
  /\ At(s, "slot", "series") /\ SeriesIsFree(s)
  /\ IF series = "active" /\ tx[s].seen.time # NoTime /\ tx[s].date \notin slots
     THEN tx' = [tx EXCEPT ![s].pc = "lock", ![s].start = tx[s].seen.time]
     ELSE End(s)
  /\ Counted /\ UNCHANGED stored

\* The mutant does not compare the revision.
AnyRevision(s) == TRUE
SameRevision(s) == tx[s].rev = revision

\* A refusal before anything is written ends the transaction, also that of a slot.
GenerationLock(s) ==
  /\ tx[s].op \in Generations /\ tx[s].pc = "lock" /\ TemplateIsShared(s)
  /\ IF SameRevision(s) /\ template.active
     THEN tx' = [tx EXCEPT ![s].pc = "settings", ![s].seen = Childless(template),
                           ![s].rev = revision]
     ELSE End(s)
  /\ Counted /\ UNCHANGED stored

\* Event type and audience are locked before the settings; only /setup rewrites
\* them, and only back to active with role requests.
\* The mutant does not look at the feature.
Always(s) == TRUE
FeatureIsOn(s) == organisersEnabled
GenerationSettings(s) ==
  /\ tx[s].op \in Generations /\ tx[s].pc = "settings" /\ SettingsAreShared(s)
  /\ IF RowIsSound(tx[s].seen)
     THEN tx' = [tx EXCEPT ![s].pc = "pings", ![s].snapshot = FeatureIsOn(s)]
     ELSE End(s)
  /\ Counted /\ UNCHANGED stored

\* The start or the end of sign-ups has passed, or no channel is configured.
GenerationRefused(s) ==
  /\ tx[s].op \in Generations /\ tx[s].pc \in {"settings", "pings"}
  /\ End(s) /\ Counted /\ UNCHANGED stored

ReadPings(s) ==
  /\ tx[s].op \in Generations /\ tx[s].pc = "pings"
  /\ tx' = [tx EXCEPT ![s].pc = "organisers", ![s].seen.pings = template.pings]
  /\ Counted /\ UNCHANGED stored

ReadOrganisers(s) ==
  /\ tx[s].op \in Generations /\ tx[s].pc = "organisers"
  /\ tx' = [tx EXCEPT ![s].pc = "reminders", ![s].seen.organisers = template.organisers]
  /\ Counted /\ UNCHANGED stored

ReadReminders(s) ==
  /\ tx[s].op \in Generations /\ tx[s].pc = "reminders"
  /\ tx' = [tx EXCEPT ![s].pc = "insert", ![s].seen.reminders = template.reminders]
  /\ Counted /\ UNCHANGED stored

\* The event, its reminders and their actions.
InsertEvent(s) ==
  /\ tx[s].op \in Generations /\ tx[s].pc = "insert"
  /\ IF ChildrenAreSound(tx[s].seen)
     THEN tx' = [tx EXCEPT ![s].pc = IF tx[s].seen.preset THEN "apply"
                                     ELSE IF tx[s].op = "slot" THEN "slot" ELSE "commit",
                           ![s].wrote = {"event"}]
     ELSE End(s)
  /\ Counted /\ UNCHANGED stored

\* An application that fails throws, which takes the whole event back.
\* The mutant returns: what was written stays.
LeaveEvent(s) == Goto(s, IF tx[s].op = "slot" THEN "slot" ELSE "commit")
TakeBackEvent(s) == End(s)

ApplyPreset(s) ==
  /\ tx[s].op \in Generations /\ tx[s].pc = "apply" /\ PresetIsShared(s)
  /\ IF preset = "usable" /\ tx[s].seen.roles
     THEN tx' = [tx EXCEPT ![s].pc = IF tx[s].op = "slot" THEN "slot" ELSE "commit",
                           ![s].wrote = @ \cup {"preset"}]
     ELSE TakeBackEvent(s)
  /\ Counted /\ UNCHANGED stored

RecordSlot(s) ==
  /\ At(s, "slot", "slot")
  /\ IF tx[s].date \in slots
     THEN End(s)
     ELSE tx' = [tx EXCEPT ![s].pc = "commit", ![s].wrote = @ \cup {"slot"}]
  /\ Counted /\ UNCHANGED stored

Draft(s) ==
  LET t == tx[s].seen
  IN [rev |-> tx[s].rev, start |-> tx[s].start, chosen |-> tx[s].chosen, date |-> tx[s].date,
      signups |-> t.signups, closes |-> t.closes, mode |-> t.mode, lead |-> t.lead,
      pings |-> t.pings, organisers |-> IF tx[s].snapshot THEN t.organisers ELSE {},
      reminders |-> t.reminders, applied |-> "preset" \in tx[s].wrote, published |-> FALSE]

\* Immediate publication begins when the event is stored.
Commit(s) ==
  /\ tx[s].op \in Generations /\ tx[s].pc = "commit"
  /\ events' = Append(events, Draft(s))
  /\ slots' = IF "slot" \in tx[s].wrote THEN slots \cup {tx[s].date} ELSE slots
  /\ IF tx[s].op = "generate" /\ tx[s].seen.mode = "immediate"
     THEN tx' = [tx EXCEPT ![s].pc = "publish", ![s].event = Len(events) + 1]
     ELSE End(s)
  /\ Counted /\ UNCHANGED <<template, revision, series, organisersEnabled, preset, source>>

\* Discord refuses, or publishStoredEvent finds nothing to publish.
Publish(s) ==
  /\ At(s, "generate", "publish")
  /\ \E published \in BOOLEAN : events' = [events EXCEPT ![tx[s].event].published = published]
  /\ End(s) /\ Counted
  /\ UNCHANGED <<template, revision, series, slots, organisersEnabled, preset, source>>

-----------------------------------------------------------------------------
(* The organiser feature and the preset.                                   *)

FeatureLock(s) ==
  /\ At(s, "feature", "lock") /\ SettingsAreFree(s)
  /\ Goto(s, "write") /\ Counted /\ UNCHANGED stored

\* Disabling removes the current assignments of every event.
SetFeature(s) ==
  /\ At(s, "feature", "write")
  /\ \E enabled \in BOOLEAN :
       /\ organisersEnabled' = enabled
       /\ events' = IF enabled THEN events
                    ELSE [i \in DOMAIN events |-> [events[i] EXCEPT !.organisers = {}]]
  /\ End(s) /\ Counted /\ UNCHANGED <<template, revision, series, slots, preset, source>>

PresetLock(s) ==
  /\ At(s, "preset", "lock") /\ PresetIsFree(s)
  /\ Goto(s, "write") /\ Counted /\ UNCHANGED stored

SetPreset(s) ==
  /\ At(s, "preset", "write")
  /\ preset' \in PresetStates
  /\ End(s) /\ Counted
  /\ UNCHANGED <<template, revision, series, events, slots, organisersEnabled, source>>

-----------------------------------------------------------------------------

Administer(s) ==
  \/ EditLock(s) \/ EditSeries(s) \/ EditReminders(s) \/ EditRelations(s) \/ EditWrite(s)
  \/ MutationLock(s) \/ MutationRefused(s)
  \/ ReplacePings(s) \/ ReplaceOrganisers(s) \/ SetActive(s)
  \/ AddReminder(s) \/ EditReminder(s) \/ RemoveReminder(s) \/ ReplaceReminders(s)
  \/ SeriesLock(s) \/ CreateSeries(s) \/ SetSeriesLock(s) \/ SetSeriesActive(s)
  \/ FeatureLock(s) \/ SetFeature(s) \/ PresetLock(s) \/ SetPreset(s)

Generate(s) ==
  \/ Inspect(s) \/ SlotTemplate(s) \/ SlotSeries(s)
  \/ GenerationLock(s) \/ GenerationSettings(s) \/ GenerationRefused(s)
  \/ ReadPings(s) \/ ReadOrganisers(s) \/ ReadReminders(s)
  \/ InsertEvent(s) \/ ApplyPreset(s) \/ RecordSlot(s) \/ Commit(s) \/ Publish(s)

Step(s) == Administer(s) \/ Generate(s)

Next == \E s \in Sessions : Begin(s) \/ Abandon(s) \/ Step(s)

Spec == Init /\ [][Next]_vars

-----------------------------------------------------------------------------
(* Properties.                                                             *)

TypeOK ==
  /\ template \in Template /\ revision \in Nat \ {0}
  /\ series \in {"none", "active", "paused"}
  /\ events \in Seq(Event) /\ slots \subseteq Dates
  /\ organisersEnabled \in BOOLEAN /\ preset \in PresetStates
  /\ tx \in [Sessions -> Transaction]
  /\ source \in [1 .. revision -> Template]
  /\ issued \in Nat /\ faults \in Nat

\* The template, its child rows and its series agree, although different
\* commands write them and each checks only what it changes: a series has a
\* local start time, and while it is active no immediate publication; a reminder
\* relative to the end of sign-ups has sign-ups; publication precedes that end;
\* a preset belongs to an event type with role requests
\* (event-template-admin-service.ts:920-1016, 1123-1134, 1604-1613).
TemplateIsConsistent ==
  /\ Acceptable(template) /\ ChildrenAreSound(template)
  /\ template.preset => template.roles
  /\ series # "none" => template.time # NoTime
  /\ series = "active" => template.mode # "immediate"

\* Generation validates again what administration has checked
\* (event-template-generation-service.ts:380-484, 569-665); it never finds
\* anything, because it reads parent and children under one lock.
NeverInvalid ==
  \A s \in Sessions :
    /\ tx[s].op \in Generations /\ tx[s].pc = "settings" => RowIsSound(tx[s].seen)
    /\ tx[s].op \in Generations /\ tx[s].pc = "insert" => ChildrenAreSound(tx[s].seen)
    /\ At(s, "slot", "series") /\ series # "none" => tx[s].seen.time # NoTime

Copies(e, t) ==
  /\ e.signups = t.signups /\ e.closes = t.closes /\ e.mode = t.mode /\ e.lead = t.lead
  /\ e.pings = t.pings /\ e.reminders = t.reminders
  /\ e.organisers \in {t.organisers, {}}

\* An event is a copy of the template as it was at one revision, the one stored
\* with it; so is the time its start comes from, although /template generate
\* reads it in an earlier transaction ("a concurrent template mutation cannot
\* silently combine old occurrence timing with a new source snapshot",
\* src/commands/template.ts:606-608).
GeneratedFromOneRevision ==
  \A i \in DOMAIN events : LET e == events[i] IN
    /\ e.rev \in DOMAIN source
    /\ Copies(e, source[e.rev])
    /\ e.chosen \/ e.start = source[e.rev].time

\* An event listed as generated from the current revision
\* (templateRevisionState) is what the template would give now: every mutation,
\* also one of child rows only, moves updated_at.
IsCurrent(e) == e.rev = revision
CurrentMeansUnchanged ==
  \A i \in DOMAIN events : LET e == events[i] IN
    IsCurrent(e) => /\ Copies(e, template)
                    /\ e.chosen \/ e.start = template.time

\* A generated event is there with everything that belongs to it or not at all:
\* its preset is applied, and a slot is recorded for each event of the series
\* and for no other, once ("Returning here would commit the event and any
\* reminder snapshots already created above",
\* event-template-generation-service.ts:808-815).
AllOrNothing ==
  /\ \A i \in DOMAIN events : LET e == events[i] IN e.applied = source[e.rev].preset
  /\ slots = {events[i].date : i \in DOMAIN events} \ {NoDate}
  /\ \A i, j \in DOMAIN events :
       events[i].date # NoDate /\ events[i].date = events[j].date => i = j

\* Nobody is nominated for an event of a guild whose organiser feature is off,
\* also by a generation that was under way when it was switched off
\* (event-template-generation-service.ts:682-688).
NoNomineesWhileDisabled ==
  ~organisersEnabled => \A i \in DOMAIN events : events[i].organisers = {}
=============================================================================
