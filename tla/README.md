# Verification of the event sign-up bot

TLA+ models, TLC instances and TLAPS proofs for the Holdfast event bot: a Discord bot
that keeps events, organisers, role requests and recurring series in PostgreSQL and
drives them with a durable scheduler. Paths below are relative to the repository root.

The hard part of the program is the same everywhere: a handler reads rows, calls
Discord (or runs another statement), and then writes on the strength of what it read,
while other handlers, the scheduler of this process and that of another process do the
same. The code answers with row locks, conditional UPDATEs, unique keys, claim tokens and
attempt numbers. The models keep every one of these guards, split every handler at its
statements and Discord calls, and ask which promises survive all the interleavings.

## 1. Inventory

| Component | State | Operations | What is hard |
|---|---|---|---|
| Durable scheduler (`src/scheduler/event-scheduler.ts`, `action-maintenance.ts`) | `scheduled_actions`: status, due time, attempt count, lock | tick, stale recovery, exhausted rows, batch selection, claim, settle, retry with backoff; scheduling, resetting and retiring of rows by services | two processes, a process lost between claim and settlement, a worker that stalls and comes back, a row rewritten while it runs |
| Event lifecycle and publication (`src/events/event-creation-service.ts`, `event-publication.ts`, `attendance-refresh.ts`, `src/commands/event.ts`, `event-edit.ts`, `event-publish.ts`) | `events`, its three action rows, `event_messages`, the message on Discord | publish (scheduled, manual), edit, close, reopen, cancel, refresh, complete; refresh and recovery of the message | Discord calls between reads and writes, status decided before it is written, actions scheduled after the status |
| Organiser ownership (`src/organisers/*`, `src/interactions/organiser-button.ts`, `src/events/organiser-cover-reconciliation.ts`) | `event_organiser_assignments`, the timeout, cover and safety rows, cover messages, the feature flag | assign, remove, confirm, decline, time out, activate the backup, ask for cover, claim cover, safety deadline, alert at the start, disable | two paths to every decision (button and scheduler), transactions with different lock sets, escalation after the commit it follows from |
| Template recurrence (`src/templates/event-template-recurrence-*.ts`, `event-recurrence-rule.ts`, `src/scheduler/recurrence-scheduler.ts`) | `event_template_recurrences` (rule, lease), `event_recurrence_occurrences` | discovery, claim of a lease, horizon, one transaction per slot, fenced completion; edit, pause, resume | leases that run out, source changes under a sweep, slots that fail on their own |
| Answers and role requests of members (`src/interactions/attendance-button.ts`, `role-request-button.ts`) | `attendance_responses`, `role_requests` | answer, request a role, withdraw | a guard that reads one table in a statement snapshot while another statement writes it |
| Role-request groups (`src/role-requests/role-request-group-publication.ts`, `-message.ts`, `-scheduling.ts`, `src/commands/event-role-requests.ts`) | `role_request_groups`, their messages and open/close rows | open, publish, close, reschedule, refresh, recover | as for events, with several messages per event |
| Reminders (`src/reminders/*`, `src/commands/event-reminders.ts`) | `event_reminders` and one row each | create, edit, remove, reschedule, release at publication, send, park, miss | read-then-loop rescheduling, rows reset while they are executed, send before record |
| Presets (`src/role-requests/role-request-preset-*.ts`) | preset tables | administration, display, snapshot application | four statements read one definition; lock order |
| Templates and generation (`src/templates/event-template-admin-service.ts`, `-recurrence-service.ts`, `-generation-service.ts`, `-recurrence-generation-service.ts`) | template, its child rows, its series, the events generated from it | edit, child rows, series, activation; inspection, generation by command and for a slot, savepoint | one rule over several tables, each command checks only what it changes; stale source revision; an event that exists without what belongs to it |
| Order of row locks (all services that lock rows) | none of its own | every transaction that locks more than one row | two transactions wait for each other |
| Reporting, audit, time, commands, process (`src/commands/*`, `src/audit`, `src/attendance`, `src/time`, `src/db`, `src/index.ts`) | none of their own, or append-only | queries, formatting, routing, start-up and shutdown | little: no decision of another component depends on them |

How they interact: commands and buttons call services; services write domain rows and
the action rows that carry the future of those rows, in one transaction or, where that
matters here, in several; the scheduler claims action rows and runs executors, which
re-read the domain rows, talk to Discord and write back. Every component shares the
scheduler and the `events` row; PostgreSQL is the only shared state between processes.

What makes each correct, in one line each:

- scheduler: bounded retries, no lost work, settled rows stay settled, a worker that lost
  its claim cannot settle the next one;
- events: final statuses are final, an event that has not ended has a live completion, every
  event ends, an open event has a live close action, there is one public message and it shows the stored event;
- organisers: one active organiser, who does not come back after an end, history is final, nobody comes to own a finished event
  or one of a guild without the feature, every awaited nominee is watched, a failure
  escalates, and an event that starts is covered or alerts;
- recurrence: the horizon fills with what can be generated, recorded outcomes belong to the current source and lease,
  automatic generation never meets immediate publication;
- members: what is stored was allowed by the rows as they were when it was stored, an event
  that is over is frozen, a request keeps its time, and no answer escapes the refreshes;
- groups: one message per group, an opening is never lost and a closing time follows the
  event, every planned group closes;
- reminders: the schedule follows the event, a reminder is sent once but for a fault, and
  none is forgotten;
- templates: the template, its child rows and its series agree; what is generated is a whole
  copy of one revision, or is not there;
- row locks: no transactions wait for each other in a circle.

`PROJECT.json` lists the hazards with their source lines, covered or not.

## 2. Plan

| Step | Modules | Runs and theorems | State |
|---|---|---|---|
| 1 | `ScheduledActions`, refining the abstract `DurableJobs` | races and liveness, the fence across resets; all safety and the refinement proved | done |
| 2 | `Organisers`, refining the abstract `Ownership` | services, start, two owners; all safety and the refinement proved, four properties for the commands they hold with | done |
| 3 | `EventLifecycle` | lifecycle; type, one public message, finality, the close and the completion action proved | done |
| 4 | `Recurrence` | one run; type, publication rule, fence and horizon proved | done |
| 5 | `RoleGroups`: group publication, posting, closing, rescheduling and messages | one run; type, messages, openings and closings proved | done |
| 6 | `Presets`: administration, display and application of a preset under row locks | one run; all safety proved | done |
| 7 | `EventResponses`: answers, requests, withdrawals, statement snapshots and row locks, coalesced refreshes | one run; all safety proved | done |
| 8 | `Templates`: administration of a template and its series, generation by command and for a slot | one run; all properties proved | done |
| 9 | `RowLocks`: the order in which the transactions of all services lock rows | the lock cycle as a divergence; the ordered programs proved free of cycles | done |
| 10 | `Reminders`: the row of a reminder against the commands and the executor | one run; all properties proved | done |
| 11 | abstract specifications `DurableJobs` and `Ownership` | refinements as properties of runs, proved; of the status of an event only the step property `FinalStatusIsFinal` is stated, and proved | done |
| 12 | `OrganisersProofs` | theorems | done |
| 13 | `RoleGroupsProofs` | theorems | done |

Composition: `Organisers`, `EventLifecycle`, `RoleGroups` and `Reminders` each contain the rows of
`scheduled_actions` of their own kinds and a scheduler reduced to what `DurableJobs`
promises of them: a row is queued, run, handed back after a loss, done, or rescheduled.
`ScheduledActions` is proved to implement `DurableJobs`; this is what lets the domain
modules leave out batches, attempts and locks (`RoleGroups` and `Reminders` keep the attempt
number, because their executors park their own rows). `Recurrence` has a scheduler and a lease of
its own, as in the code, and shares nothing with the others but the guild and the
template. `Templates` contains one slot of a series as the transaction that `Recurrence`
calls `GenerateSlot`, and of a preset only whether it can be applied, which is what
`Presets` shows of it. `RowLocks` goes across all of them: it keeps of every transaction
only the rows it locks.

## 3. The modules and the code

### ScheduledActions and DurableJobs

A row is (`status`, `attempt`, `due`, `lock`); time is reduced to the two comparisons the
code makes, *is it due* and *is the lock older than the stale interval*. A worker is one
process, whose ticks never overlap (`schedulerTickPromise`), and its program counter
follows the tick: `recover` and `revive` (the two UPDATEs of `recoverStaleActions`), `exhaust`,
`select`, `claim`, `run`, then `complete` or `fail`. Every step is one SQL statement or one return of an executor.
`Reschedule` and `Retire` are the writers of `action-maintenance.ts` and of the services,
possible at any time. `LoseTick` is a process that dies or a statement of the tick that
throws. `history` is ghost state: how often the row was reset, how often it was run since,
who claimed it last. `DurableJobs` is the promise: a job is queued, running or done, runs
at most `Budget` times per schedule, and a done job returns only when scheduled again.

### EventLifecycle

One event with its three action rows, the linked public message and what it shows, any
number of handlers and the scheduler. `Command` is the reading and validating prefix of
each command or click; `Write`, `Rows`, `Retire`, `RefreshRead`, `RefreshEdit`,
`RefreshSwap`, `PublishRead`, `PublishSend`, `PublishLink` and `PublishUnschedule` are the
later statements and Discord calls in the order of each handler, and `seen` is what the
handler read and still believes. `CloseLoad`/`CloseWrite` and
`CompleteLoad`/`CompleteWrite`/`CompleteRetire` are the executors. `Lost` is a process that
dies or a statement that fails; `DeleteMessage` is a moderator who deletes the message,
which a later refresh replaces. Times are small numbers: the event starts at `FirstStart`
unless moved, is published `Lead` before, lasts one unit. The text of messages, channels,
audit writes and pings are left out.

### RoleGroups

The groups of one event with their open and close rows, their messages, and of the event
only what groups look at: is it over, published, held (no publication schedule), and when
does it start. A group opens `OpenLead` before the start and closes at the start; a
scheduled publication is `Lead` before it. `OpenLoad`, `OpenCheck` (before and after the
Discord look-ups, and after losing), `OpenSend`, `OpenLink`, `OpenRequeue` are
`executeRoleRequestGroupOpen` with `publishRoleRequestGroup`; `Obstacle` is
`classifyUnpublishableState`. `CloseLoad`/`CloseWrite` are the closing executor,
`RefreshNext`/`RefreshEdit`/`RefreshSwap` the refresh and recovery of messages, `MoveGroups`
the rescheduling after an edit of the start, `Publish` the part of a publication that wakes
parked openings, `Post...` and `Close...` the commands of administrators. A lost process
`Dies`, `Throws` or, when it was posting, tidies up (`PostUndone`). `torn` is history: a
command died before it had scheduled the rows it owed. The destination channel is always
there; roles, notifications and texts are left out.

### Presets

One preset under administration, and one event to which it may be applied, whose start is
moved, which is ended, and to which role options are added by command. Everything here is
ordered by row locks, so a transaction is split at its statements and its step says which
locks it holds: `FOR UPDATE` of an edit and `FOR SHARE` of a reader on the preset
(`PresetIsFree`, `PresetIsShared`); `FOR UPDATE` of an application on the event against an
`UPDATE` and against the key share lock of a foreign key (`EventIsFree`, `EventIsShared`).
Edits read (`EditRead`) and then write what they computed (`SetActive` ... `SetGroupActive`);
`ReadOptions`, `ReadQualifications`, `ReadGroups`, `ReadMappings` are the four statements of
a reader; `ApplyCheck` and `ApplyInsert` finish an application, whose copy is `CopyOf`. The
command that adds a role option looks up the event and then the key (`OptionValidate`,
`OptionKey`); its INSERT (`OptionInsert`) is followed by its foreign key check (`OptionShare`); `BreakDeadlock` is the deadlock detection of PostgreSQL. Only what the
validation of one table needs of another is kept of the data: whether options are
restricted, whether they have qualification roles, when groups open, close, and what they
show. Generation from a template applies presets to an event made in the same transaction,
which nobody else sees; it needs no model of its own here. A move is two transactions: `Move`
commits the new start, `RescheduleSelect` and `Reschedule` bring the groups after it, and a
process can be lost, or a statement of the upserts in between can throw, at either place
(`Abandon`). `torn` is a ghost: the groups that a move lost there left on the old start and no
later move has reached yet. All groups here are still planned, as those that have opened are
the subject of RoleGroups.

### EventResponses

The answers and requests of members, as guarded statements. PostgreSQL evaluates the guard
of `INSERT ... SELECT ... FOR UPDATE` in the snapshot of the statement and again on every
locked row that has changed since; tables that are not locked stay as the snapshot saw them.
Each write is therefore a snapshot (`AnswerSnapshot`, `AddSnapshot`, `WithdrawSnapshot`) and
a locked write (`AnswerWrite`, `AddWrite`, `WithdrawWrite`), preceded by the early checks of
the handler (`AnswerRead`, `AnswerClose`, `AddRead`, `AddSignup`, `WithdrawRead`). `saw` is the
answer in the snapshot, `at` the time the handler compares deadlines with, `id` the request a
DELETE has found. `TakesRequest` is what the INSERT checks of locked rows, `Allows` what it
checks of the answer. `AnswerReply` schedules the shared refresh timer, `Fire` and
`TimerReads` are that timer and the refreshes it begins, `HandlerReads` the refresh a request
waits for; of a refresh only what it has read is kept (`unseen`). The event and its groups are
changed by `Open`, `Close`, `End`, `Move`, `CloseGroup` and `MoveGroups`, which EventLifecycle
and RoleGroups model in full. `tentative` counts as `attending`; whether a restriction
excludes a member from an option (`Barred`) is fixed, since no command changes an option of
an event; groups have a message and so have opened. What a handler reads only to explain a
refusal changes nothing and ends it.

### Organisers and Ownership

One published event with numbered assignments. Transactions whose conflicts are ordered by
row locks are one action; `assignEventOrganiser`, which shares no exclusive lock with the
others, is split into its read, its UPDATEs (`AssignReplace`, `AssignUnschedule`) and its
INSERT with COMMIT, with the rows it has updated locked (`Locked`). The scheduler, the
confirm/decline button, the cover button, the assign command and the other administrator
commands are processes of their own, and each Discord call separates two of their steps.
The clock is four phases: before the cover deadline, before the start, before the end,
after. Warnings and direct messages are left out: they change no ownership.

`Ownership` is what all of this promises, without rows, timeouts or messages: the nominations
that own the event (`owners`), those of them that have `confirmed`, those whose time is `past`,
and whether the event is `over`. Somebody is asked or volunteers only while nobody owns the event,
so there is no hand-over in one step; who has left never owns it again; and nobody comes to own
or confirms an event that is over. `Organisers` maps to it by `ActiveIds`, their `confirmed`
members, `FormerIds` and `event # "active"` (`ImplementsOwnership`).

### Recurrence

One series. A unit of time is a sweep interval and slot *d* starts at time *d*; the rule is
the set of slots it yields (`event-recurrence-rule.ts` is its enumeration), and
`Nonexistent` are slots whose local start time falls in a gap of the clock. `lead` is how long
before the start the template closes sign-ups: a slot whose sign-ups would have closed is skipped
(`signup_close_not_future`), and the sweep completes without it. `guild.lacks` is what generation
needs and does not find: an active event type and audience (`source`), a publication channel and
a preset that can be applied (`target`); such a slot fails, the sweep completes with a failure,
and the next one tries again. `SlotFails` and `SlotGenerates` keep the order of these checks. A
process goes through `Discover` (which reads the clock of the whole run), `Claim`, `CheckEligibility`,
`ReadHorizon`, `GenerateSlot` (one transaction for each slot), `FinishSlots`, `Complete`.
A claim token is the name of the process that drew it: a process has one claim at a time.
Administration is one transaction per command, since each locks the template row first.
The guild flag is written by an operator, in no command; it is modelled as external.
`changes`, `since` and `revised` are ghosts. Its definitions have names of their own
(`recurrence` and `parent` are the rows of the series and of its template), because
`TemplatesProofs` extends it beside `Templates`.

### Templates

One template with its child rows (pings, organisers, reminder definitions), its series and
the events generated from it. A transaction is a program counter and what it has read
(`seen`, `rev`, `start`); `OwnsTemplate`, `SharesTemplate`, `OwnsSeries`, `SharesSettings`
and their like say which row locks a session holds at its place. `EditLock`, `EditSeries`,
`EditReminders`, `EditRelations` and `EditWrite` are `editEventTemplate`: it reads the row
under its lock, asks the series, the reminders and the preset about what it changes, and
writes the named columns. The other mutations lock and write in two steps (`MutationLock`,
then `ReplacePings` ... `SetActive`), as do those of the series. `Inspect` is the earlier
transaction in which `/template generate` computes the start; `SlotTemplate` and
`SlotSeries` are what a sweep does instead; `GenerationLock` ... `RecordSlot` are the
statements of `generateEventFromTemplateCoreInTransaction`, whose draft (`wrote`) is stored by
`Commit` and taken back by the savepoint or the rollback (`TakeBackEvent`). `SetFeature` is
the organiser feature switched on or off, which also removes the nominees of stored events.
Columns that are copied without a condition (names, texts, durations, channels) are left out;
so are event types and audiences but for the one flag that a preset needs. `source` is
history: the template as it was at each `updated_at`.

### RowLocks

Thirty-three transactions, each reduced to the rows it locks and the mode, in the order of its
statements; what a transaction decides is in the other modules. `Conflicting` is the conflict
table of PostgreSQL's row locks, `Circle` a set of sessions that wait for each other,
`BreakDeadlock` its deadlock detection. `Rank` is the order the code keeps, and `OutOfOrder`
the three programs that do not keep it. Rows that a transaction has made itself, rows of
`scheduled_actions` (which are claimed one at a time by a conditional UPDATE) and key share
locks on rows that nobody locks `FOR UPDATE` are left out.

### Reminders

The reminders of one event with their rows, the executor, and the commands that change the
event or a reminder. The scheduler is one worker (`Claim`, `Read` with its `Outcome`, `Miss`,
`Park`, `Send`, `Record`, `Settle`), a command a handler between two of its transactions:
`Write`, then `Reload`, `List` and one `Rewrite` for each reminder are
`reschedulePendingEventReminders` after an edit, a close or a reopening (an edit moves the start,
the end of sign-ups or both: `Move`); `Stamp` and
`PublishCommit` a publication that releases the rows that have fallen due (`Resumed`);
`Insert`, `Update` and `Delete` the commands on one reminder. A lost process or a statement
that throws is `WorkerLost` or `HandlerLost`. Minutes are ticks of the clock. `stale` is a
ghost: set when commands overlap, a command is lost, or time passes between a publication and
its stamp, and cleared by a rescheduling that was alone. The destination, the text and the
one-off announcement are left out.

`ScheduledActionsProofs`, `EventLifecycleProofs`, `RoleGroupsProofs`, `PresetsProofs`,
`EventResponsesProofs`, `TemplatesProofs` (which also proves what is proved of `Recurrence`),
`RemindersProofs` and `OrganisersProofs` (which also proves what is proved of `RowLocks`) hold
the theorems; the `MC...` modules only name sets for the configurations.

## 4. Runs

| Run | Instance | Shows |
|---|---|---|
| `MCScheduler` | 2 rows, 2 processes, batch of 1, 2 attempts, 1 reset, 1 loss | retry budget, claims identified by reset and attempt, refinement of `DurableJobs`, every live row is eventually settled |
| `MCOrgServices` | 2 assignments, any 2 administrator commands | no ownership while disabled, finished events frozen |
| `MCOrgStart` | 3 assignments, no commands, 1 fault | one active organiser, refinement of `Ownership`, awaited nominees watched, final history, a started event is covered or alerts, "already requested" is true |
| `MCOrgTwoOwners` | 3 assignments, 1 assignment command | violation: a primary assigned beside a cover claim |
| `MCEventLifecycle` | 1 handler and the scheduler, 2 commands of any kind but refresh, 1 fault, time to 5 | one public message, an open event has its close action, an event that has not ended its completion, final statuses, every event ends |
| `MCRoleGroups` | 1 group (planned or posted), 1 scheduler, 1 handler, 2 commands of any kind but scheduling a publication, 1 fault, time to 4 | one message per group, openings not lost, closings follow the start, planned groups close |
| `MCPresets` | 2 sessions, 3 operations of any kind, an empty and a ready preset, 2 options, 1 group, 1 lost transaction | definitions and copies stay usable, readers see one definition, an application copies it whole, groups follow the start but for those a lost move left behind, every operation ends |
| `MCEventResponses` | 1 member, 1 option, 1 group, 3 presses of which 2 at once, 1 command, 1 fault | nothing written is forgotten by the refreshes, late clicks change nothing, accepted requests come through open groups and are listed |
| `MCRecurrence` | 2 processes, 2 rules, 1 gap, sign-ups that close 2 before the start or none, 2 changes of any kind, 1 fault, time to 5 | the slots in the horizon that can still be signed up for have their events while nothing is lacking, fenced completion, a changed series is swept |
| `MCTemplates` | 2 sessions, 3 operations of any kind, a full and a bare template, every column changed to every value, 1 slot, 1 lost transaction | the template stays consistent, generation finds nothing invalid, events are whole copies of one revision, no nominee without the feature |
| `MCReminders` | 1 reminder, the scheduler, 1 handler with any command and 1 that reopens, 3 commands or faults, 2 attempts, time to 4 | the row follows the event, one message, none forgotten |
| `MCLockCycle` | 2 sessions, the programs that lock assignments | violation: a response and a timeout lock the same two rows in opposite order |

**Bounds and why they suffice.** Two processes and one reset are what the scheduler races need:
a third process adds another loser of the same conditional UPDATE, and the proofs cover every
number. Two attempts separate *first*, *retry* and *last*. Three assignments are a primary, a
backup and a volunteer (or a replacement); two commands allow any pair, which is what every
race known in the code takes. In `EventLifecycle` a handler and the scheduler give the
interleavings of two actors, and two commands let the second undo the first; time 5 lets a
moved event be published, closed and completed. Groups share nothing but the event, so one is
enough; that it may be planned or posted is a choice of the initial state. Several schedulers
on one group are left to the remark in section 5. In `Presets` two sessions are the two sides
of every lock conflict, and three operations let a third one find what the first two left. In
`EventResponses` every race is between presses of the same member or between a press and the
event or group, so one member and one group suffice; the third press finds what two overlapping
ones left, or withdraws what they stored. Presses are interchangeable, hence the symmetry. In
`Templates` two sessions again are the two sides of a lock, and the third operation is the
generation that finds what two commands left; the proofs cover every number. The two seeds are
a template that uses everything and one that uses nothing, and each edit changes one column, or
two where one rule joins them. In `Reminders` every race is between one row, its executor and
the commands, since rescheduling treats the rows one by one; the second handler reopens, which
is the command that makes a row useful again. One fault per run is enough to cut any handler at
any point once. In `Recurrence` the stale interval is shortened from three sweep intervals to
two and the horizon from ten days to seven intervals, so that a takeover and the sweep after it lie
within the clock. The two rules share slot 6, so that an edit meets an event it already has, and
slot 4, which is the gap. A lead of 2 makes slots skipped that a lead of 0 generates, and two
changes let something be lacking and be provided again, or a lead be taken up and given back. Every bounded
counter is a guard of the action it bounds and is declared as such.

`CHECK_DEADLOCK FALSE` is used where the system may stop: the event has ended, no command
is left and the clock has reached its bound.

**Fairness.** The scheduler runs: `setInterval` keeps both schedulers polling, each step is a
statement or a Discord call that returns or throws, and time passes. Started handlers go on.
Commands, clicks, answers and faults are never obliged to happen. In `Organisers` the clock is
fair only up to the start of the event. In `Presets` a transaction goes on while its locks are
free, and a deadlock is broken. `EventResponses` states no liveness: its handlers are straight
lines, and what they owe each other is the invariant `UnseenIsAwaited`. Nor do `Templates` and
`Reminders`: a reminder that is never claimed again is caught by the invariant
`NoReminderForgotten`, which speaks about the states where nothing is left to do. No strong
fairness is assumed anywhere.

## 5. What the runs show

Properties that hold are stated, with the sentence of the documentation they come from,
above each definition. The disagreements:

- **Two active organisers** (`MCOrgTwoOwners`). A primary assignment whose UPDATE saw no
  backup or cover commits beside the claim or activation that happened in between.
- **A lock cycle** (`MCLockCycle`). A response locks the event and then its assignment; a
  timeout, the safety deadline and a replacing assignment lock the assignment first. PostgreSQL
  aborts one of the two, so a click at the deadline fails or the timeout waits for its retry.

Seen while model checking the same modules with other constants, without a run:

- The attempt number is not a fence across resets: `markActionCompleted` and
  `handleActionFailure` compare status and `attemptCount`, and the services that reschedule a
  row set `attemptCount` back to 0. A worker that stalled on attempt 1 of the old schedule
  settles attempt 1 of the new one (`ScheduledActions` with one row and one reset). Within one
  schedule the fence is sound (theorem `FenceIsSound`).
- An escalation can be lost: timeout and decline commit first and escalate afterwards; the
  retry of a timeout finds nothing pending, and a decline has no retry. A process lost in
  between leaves the backup unasked. The start alert still covers the event (`StartIsCovered`).
- The overdue close of `/event refresh` is unconditional: with `Ops <- Refreshes` and no fault it
  writes `closed` over a final status, against `FinalStatusIsFinal`. Followed by a reopening it
  also breaks `OpenHasCloser` (`Ops` {move, refresh, reopen}, three commands, `MaxTime` 7): it
  overwrites the status of a completion that has not yet retired the rows, the reopening arms
  the close action, and the completion then retires it while the event is open.
- Other lock cycles (`RowLocks` with other programs): a group posted by command against a role
  request, and a role option added by command against the application of a preset.
- A publication takes its time before its transaction. A reminder that falls due in between
  is parked by the executor, which still sees the event unpublished, and is not released by
  the publication, whose time is earlier: it is found at its reference time and marked missed.
- An executor marks a reminder missed that a command has just moved later: it decides on the
  one SELECT it made, and only `sent` and `missed` are compared again. The same happens to a
  signup_close reminder when `/event close` sets the end of sign-ups to now: an executor
  between that write and the rescheduling marks it missed, and a reopening does not send it.
- Commands that overlap leave the schedule of the older one: a close that began before a
  reopening cancels the row of the reopened event's reminder, and an addition computed before a
  move keeps the old time. So does a command lost between its write and its rescheduling.
  `ScheduleFollowsEvent` excludes these by the ghost `stale`.
- A published event can return to `scheduled`, against "Published events are never implicitly
  reopened" (`event-edit.ts:602`): an edit writes the status it derived from the event it read,
  and its UPDATE compares the status only. An edit that read the event closed and unpublished
  finds it closed again after another edit, a publication and the deadline (`Reminders` with
  four commands). The executor drops the signup_close reminders of such an event, so `CanBeSent`
  excludes it.
- An edit of a reminder that is being sent is confirmed, although its text is never sent.
- With assignment commands `HistoryIsFinal` fails: the assignment read before the
  transaction is overwritten as replaced although it was confirmed, declined or timed out
  meanwhile; a start alert may then be missing for a confirmed organiser who is gone.
- With assignment commands `AlreadyRequestedMeansOpen` fails: a cover request delivered for
  an earlier vacancy counts as open. The same happens when the feature is turned off and on
  again: the message of the request goes, its completed row still counts. With
  three rows and an assignment of a primary `AwaitingIsWatched` fails: the cancellation of
  action rows by assign takes the timeout of a backup activated meanwhile.
- An assign that tidies late resolves an alert posted after its commit.
- The safety deadline and a decline in flight can each post a cover request, since the
  former writes no `cover_request` row.
- `/event close` retires the close action at its very end: a reopening in between loses its
  new one. `OpenHasCloser` is therefore stated for one command at a time.
- A stale public message: an edit decides whether to refresh by the `publishedAt` it read, and
  a publication in flight links a message with the old start (`MessageIsCurrent`, with one
  `move` issued, is violated).
- A member who is marked "not attending" can get a new request: the INSERT waits for the
  event, which the member's own answer holds locked without changing it, and the answer is
  not read again (`src/interactions/role-request-button.ts:346`).
  `docs/ADMIN-GUIDE.md:2085` says that such a member cannot add one. It takes two presses of
  one member at once; `AcceptedIsAvailable` states what does hold.
- A reply that fails skips the refresh of an answer that is already stored, since the timer
  is set after the reply (`src/interactions/attendance-button.ts:203`); the next press repairs
  it. Requests refresh before they reply.
- An exception after the commit of a publication deletes the message just linked; refresh
  then replaces it.
- Executors recheck the status of an event, and of a group, but not their schedule: a row
  claimed before an edit publishes, closes or completes by the old one, and a group closed
  that way stays closed.
- With two schedulers an opening can be lost without any fault: the executor that parks its
  row resets the attempt number, a moved start makes the row due, the other scheduler claims
  it as attempt 1, and the first one then settles attempt 1. `MCRoleGroups` has one
  scheduler; the cause is the fence across resets above.
- With two commands at once a post overwrites the close row that a move has just set
  (`GroupsAreWatched` is stated for one command at a time). A process lost in a post leaves a
  group without a message or without a close row; nothing but a moved start repairs it.
- An opening that fell due while the event was held is parked at the closing time. Giving
  the event a publication schedule allows the group to open again, but does not wake it; only
  a publication or a moved start does. `MCRoleGroups` leaves this command out.
- Rescheduling after a move also re-arms the rows of groups whose event was cancelled in
  between; their executors then find the event cancelled and do nothing.
- An application of a preset and a new role option with one of its keys deadlock: the option
  is in before its foreign key waits for the event, and the application, which holds the
  event, waits for the option. PostgreSQL rolls one of them back, so one user sees an error.
  The conflict that `applyRoleRequestPresetToEvent` means to report by rolling back
  (`RoleOptionConflictError`) cannot arise (theorem `KeysHold`).
- A stalled recurrence run works with the clock it read at its start, so it may generate a
  slot whose start has passed, and its lease is stale as soon as it is taken.
- A guild disabled after the eligibility check is still generated for until the sweep ends.
- A sweep can complete and leave a slot of its horizon without an event. If the sign-ups of the
  slot would have closed already it is skipped for good, as no later sweep is earlier. If the event
  type, the audience, the channel or the preset is not available it is recorded as failed, and
  generated by the first sweep after the repair. `SlotsMaterialise` speaks of the other slots.
- A move that is lost, or throws, between the commit of the new start
  (`src/commands/event-edit.ts:604`-`677`) and the rescheduling of the groups (`:729`) leaves
  planned groups opening and closing by the old start. No retry follows; the next edit that names a
  start, be it the same one, repairs it (`hasStartChange` asks whether the option was given,
  `:264`). `GroupsFollowStart` excludes such groups by the ghost `torn`, and shows that
  they keep one single earlier start.

Where the models are coarser than the code:

- `Organisers`: the safety deadline selects the assignments `FOR UPDATE`, then locks the event and
  decides on the earlier list; `SafetyTransaction` is one step. The SELECT and the UPDATE of
  the claim's verification are one step too (`VerifyClaim`), and an interrupted executor is
  retried without counting attempts (`ExecutorInterrupted`), so a run has more retries than the
  scheduler would grant.
- `EventLifecycle`: the three upserts of an edit are one step (`Rows`), although each is a
  statement of its own.
- `Templates`: `updated_at` is the clock of the process in milliseconds; `Save` takes it for a
  counter that always grows. Two edits within a millisecond, or of two processes whose clocks
  disagree, could leave a preview looking current that is not.
- `Reminders`: the backoff of a row handed back is shorter than a tick of the clock (`GivenBack`).
- `RowLocks`: the primary is taken for the older of the nominees. The safety deadline locks the
  current assignments in the order of their ids, and an assignment of a primary locks the primary
  before whoever was activated in its stead: where the backup has the lower id, as when the
  primary was assigned anew, these two could wait for each other as well.

## 6. Proofs

**`ScheduledActionsProofs`**, for any rows, workers, attempt limit, resets and losses. The
assumptions are those named in `ScheduledActions`. `TypeOK` is not enough: that only the
latest claimant can match the current reset and attempt needs the order of claims. The
inductive invariant `IInv` is `TypeOK` with

- `AttemptCountsRuns`: the column counts the runs since the last reset;
- `ClaimOrder`: a holder's reset and attempt are at most those of the row, and equal only
  for the latest claimant;
- `EpochBound`.

From it follow `TypeCorrect`, `BudgetHolds`, `ClaimsAreUnique`, `FenceIsSound` (the fence of
the code proves ownership when no reset happens), and, as step properties, `TerminalHolds`
and `FailureHolds`. `Refinement` shows that initial states map to initial states of
`DurableJobs` and every step to one of its steps or a stutter: claim to `Start`, stale
recovery to `Recover`, settling to `End` or `Recover`, a reset to `Schedule`.

**`EventLifecycleProofs`**, for any finite set of handlers, any commands, clock and faults.
`IInv` is `TypeOK` and `OnePublicMessage` with

- `LinkKnown`: a refresh under way knows a link that is or was the current one, and if it
  has sent a replacement for the link that is still current, that message is gone. Without
  it a swap could replace a message that is there, and a publication could link its message
  beside a refresh of a link that does not exist;
- `WriterKnown`: a handler about to write validated a status that was not final.

`OneMessage` is a count: `Counting` says that a step of one process changes the number of
sent but unlinked messages by what it does to its own step, and each action is then checked
to change the messages on Discord by the same. `Finality` assumes that `/event refresh` is
not issued, because its UPDATE is unconditional (section 5), and shows that every other writer's
condition excludes a final status.

`EndWatched` (`EndIsWatched`) has that hypothesis too, since a refresh can reopen an event whose
completion row is settled, and restricts neither handlers nor faults. Its first half, that an
event without an end has a live completion row, is `EndsSound`: whoever gives that row up, a
cancellation or an executor past its decision (`Decided`), has ended the event by then, and
`FinalStays` says that it stays ended. Its second half, that the row is due at the end of the
event, holds for one command at a time without faults: `EndsOnTime` adds that only a move changes
the start and that it is then on its way to set the row again. TLC checked both with two handlers
first.

`OpenCloses` has the same hypothesis, for the same reason; that commands do not overlap and nothing
is lost is part of `OpenHasCloser`. The property only speaks of an event at rest; its inductive
invariant `Closers`, which TLC checked first, says in addition who is still going to set the row:

- `NeedsCloser`: the event is open, or a publication may still open it (one is allowed to, or has
  read an event with sign-ups and is under way);
- `CloserWatched`: then a command is on its way to set the row (`Arming`), or the row is live and
  due at the stored deadline, and no executor is about to complete it (`Settling`): an executor
  that went past its decision has closed the event;
- `CommandSound`: what a command has in mind agrees with the event it read, as nobody but the
  scheduler and the clock can have changed it (`Alone`);
- `RowsSound`: only a published event with sign-ups is open, a claimed row has fallen due, and a
  completion retires the rows of an event that has ended. The last part is what refresh breaks.

**`RoleGroupsProofs`**, for any groups, workers, handlers, commands, clock and faults; the
assumptions are those named in `RoleGroups`. There are three invariants.

- `Sound` is the type with `WellFormed` (which steps belong to which operation, and that workers
  run rows and handlers commands), `Knows` (what a process relies on: a poster has its group to
  itself, a refresh knows a link that is or was the current one, and has sent a replacement only
  for a message that is gone), `GroupSound` and `PostersAlone`. `OneMessage` is a count, as in
  `EventLifecycleProofs`: each action is a `Turn` of one process, which changes the messages that
  are neither linked nor left behind by exactly what it does to its own hands (`Balanced`), or a
  step of the `World`, which does not. It has no hypothesis.
- `Closing`, for one command at a time (`OneHandler`). `CloseWatched` is what `ClosingIsWatched`
  says when nothing is under way, and otherwise who is still going to see to it: a move, which
  has changed the start and not yet the groups, or the post of this group. `ClosersSound` says
  that an executor past its write leaves a group behind that is shut, `HandlerSound` that a post
  uses the closing time of the start it read. Most steps are `Calm` and keep all of it; what
  remains are the post, the move, and the stale recovery of a row.
- `Openings`, for one scheduler (`OneWorker`) and without the command `schedule`. A group that is
  `Waiting` has a row that is due or parked for something that will wake it (`Parkable`: its own
  opening time, or a publication that is still to come), or a worker runs it with the attempt
  number the row has, and so will notice when it is overtaken (`OpenRuns`).

The hypotheses are where the code stops keeping the property (section 5): two commands at once
lose a close row, two schedulers settle each other's attempt, and a held event that gets a
publication schedule does not wake its groups. Each of the three makes TLC find a state without
the row, so none can be dropped; faults, groups, commands and the clock are unrestricted.

**`PresetsProofs`**, for any sessions, keys, groups, offsets, start times and usable first
definitions. All safety properties of the module are proved. The argument is the one the
comments of the code make for its locks: `LocksExclude` (an exclusive lock excludes every
other) and `Current` (what a transaction has read under a lock is what is stored, what it has
checked still holds) are inductive together. A step is either quiet, and whoever it moves
claims to know nothing (`UnawareIsCurrent`), or it reads (`LearningStep`), or it writes, and
then the others hold no lock on what it writes (`LocksOfWriters`, `LockedIsCurrent`). The rest
of `IInv`: `KeysAreOwn` (uncommitted options have keys nobody has), `LateGroupsAreListed` (a
group out of step with the start is on the list of a move under way, or a lost move left it
there), `WindowsAreOrdered` (both ends of a window are counted from one start), and
`GroupsComeApplied`. `GroupsHold` follows without a hypothesis on faults: what makes a group
`torn` is the loss of a move that has it still to do, and only a completed rescheduling of it takes
that back (`TornStays`, `MoversMove`). `EditsAreUsable` shows for each edit that it leaves a usable definition.

**`EventResponsesProofs`**, for any members, options, groups, presses and bounds. All
properties of the module are proved. `IInv` is `TypeOK`, `AllNamed` (a handler knows its
member, option and group) and `Weighed`: an INSERT past its snapshot saw an answer that its
guard allows. `Weighed` is stable because the kind of an event or of a group never changes
(`SameKind`), and it is the reason why the guard of the INSERT and the list of the message
agree. `Writers` reduces each action property to the three statements that write.
`NothingForgotten` is inductive beside `IInv`: a step that stores something is itself at a
place that leads to a refresh (`WaitsAwaits`), and one that reads nothing leaves the others
there (`OtherClicksWait`).

**`TemplatesProofs`**, for any sessions, edits, child rows, dates, offsets and bounds; the
assumptions are those named in `Templates`: the templates to begin with are acceptable and an
edit gives a column a value of its type. All properties of the module are proved. `IInv` joins
the properties with

- `Exclusive`: who holds the lock of the template, the series or the settings excludes the
  others, as the modes of the locks say;
- `EditIsSound`: what an edit under way has read still is stored where it does not change it,
  and each question it has asked is still answered the same. Without it the rules that join
  two tables are not inductive: an edit asks about the series at one statement and writes at
  another;
- `RowIsSeen`, `StartIsSound`, `DraftIsSound`: what a generation has read under the lock is the
  template as it is, and its draft contains what the template asks for at that place.

A step either writes nothing (`QuietStep`), or it writes the template (`SaveStep`) or the series
(`WriteSeriesStep`) and then nobody else holds the lock (`UnlockedKeep`), or it stores or
changes events (`CommitStep`, `EventsStep`). `ConsistencyHolds` is the rule over the tables,
`CopiesOneRevision` and `CurrentIsUnchanged` need that every revision is kept in `source`.

The last part is about `Recurrence`, for any number of processes, rules, gaps and horizon, under
the assumptions named there. `SweepInv` is its type, `NeverImmediate` and `ClaimCurrent`: a
process beyond its claim whose token the series still carries started it last and has seen every
revision of it. Edits, pauses and resumptions clear the token and so falsify the premise; a
takeover replaces it; every other step leaves it. `CompletionIsFenced` follows because only the
owner's completion changes the series in a step that returns a process to rest. `NeverImmediate`
is inductive on its own beside the type; it stands on the two guards being evaluated under the
same lock. It is the last part of `TemplateIsConsistent`, which the run `MCTemplates` checks.

`HorizonIsFull` shows `SlotsMaterialise`, for any number of processes and faults. The property
speaks of what has been generated after enough time; its invariant `HorizonInv` says who is still
going to generate it. `CanWait(x)` is that everything that had to exist by *x*, less the slack, is
there. A series with nobody's lease can wait until its next sweep; one whose owner sweeps is
taken care of by that owner (`Sweeping`): every slot that is not still on its list has its event
or is too late for sign-ups (`Passed`), as long as nothing is lacking (`Productive`); one whose owner has given up or died, which takes a
fault, can wait until its lease is stale (`LeaseWatched`). Each fault adds a lease to the slack,
and any change to the series, its template or what the guild provides starts the wait anew, so the
premise is that the series has been productive since. TLC checked it before it was proved.

**`OrganisersProofs`**, for any number of assignment rows, faults and commands. The invariants
form a chain, each inductive beside the ones before it, and each theorem uses the first that
implies it:

- `Base`: the types, and what the rows say about each other. A timeout belongs to one
  assignment, a process names a row that exists, and what an executor, a click or a command has
  read is what it says. It holds whatever administrators issue, and with it `TypeCorrect`,
  `DisabledRetiresAll` and `TerminalEventKept`. `RowsMove` reads off each action how it may
  move the rows (answered, timed out, activated, nominated, claimed, ended), and everything
  that follows argues about these moves and no longer about actions.
- `Owned` adds `UniqueOwner` (two active rows are one), `TimeoutSettled` (a timeout row that has
  ended leaves nobody waiting) and `AwaitingIsWatched`. A row becomes active where the code finds
  no other (`CanActivate`, `CanClaim`, both under the lock of the event), or is inserted active by the
  assignment of a primary. `OwnershipRefinement` stands on it: `RowsMove` says how the rows may
  move, `OneMember` what that means for one assignment, and `OwnershipStep` that every such move
  is a step of `Ownership` or a stutter.
- `Unassigned` adds `NobodyAssigned` (no assignment is under way) and `ClaimStands` (the row
  that a claim inserted stays current and confirmed unless the feature retires every row). An ended row then never moves (`EndedStays`).
- `InTurn` adds `OneEscalation` (only one process is about to escalate, and nobody is active
  then) and `CoverIsLast` (a cover request is queued when no backup is left to ask).
- `Watching` adds `RequestsAreOpen`: a request that counts as made can be claimed or will be
  delivered, unless somebody is responsible, is being asked, or the event has ended. A command
  that tidies late is the delicate case (`AdminTidiesLate`).

The hypotheses on `AdminOps` are where the code stops keeping the property, not where the proof
stops. With an assignment of a primary TLC violates `OneActiveOrganiser` (the run
`MCOrgTwoOwners`), `AwaitingIsWatched`, `HistoryIsFinal` and `AlreadyRequestedMeansOpen`; with
one of a backup the last two; with the feature disabled and enabled again the last. All other
commands are covered: `OneOwner`, `WaitIsWatched` and `OwnershipRefinement` allow every command but `primary`,
`HistoryKept` every one but assignments, `AlreadyRequested` removal, cancellation and the
switch in one direction. `Owned` and `Watching` were model-checked with those commands, three
rows, one fault and two commands before they were proved.

The last part proves `OrderedNeverDeadlock` of `RowLocks`, for any number of sessions and any of
the programs in order. `OrderedAscend` reads off that they lock rows by ascending rank. A session
then waits only for one that holds a row of the rank it asks for and itself asks for one above
(`WaitsFor`), so of a circle the one that asks for the highest rank waits for nobody.

**`RemindersProofs`**, for any reminders, handlers, commands, attempts, clock and faults. `IInv`
is `TypeOK` with

- `SendIsCounted`: while a stored reminder counts as unsent and the executor is not between its
  message and its record, there are no more messages than faults. This is what a reset of the
  row cannot change, because it writes the row and not the reminder;
- `AbsentIsUntouched` and `HandlerIsSound`: only the addition of a reminder makes it exist, and
  nobody else can be about to write or send it;
- `ParkIsLater`: a row is parked at a time that exists.

The schedule has an inductive invariant of its own, `SInv`, on top of `IInv`. `Kept` is what is
true of one reminder: if it is useful it has its row, the executor does not hold a claim with
which it would settle that row, and a row it is about to park waits for the right time. `Kept`
is not true of every reminder at all times, and `Watched` says where: on a schedule that is not
stale everywhere but for the rows that a rescheduling in flight still has to rewrite, on a stale
one for the rows that a rescheduling has rewritten that is alone. `Lone` makes that meaningful
(who is alone is the only one, and without such a command the schedule is stale), and `Knows`
says what a command that is alone may rely on, of which `IsRecent` is the delicate part: the
event it has read keeps its times, and if it found a reminder useless then it still is. A step of
the scheduler has to show `Kept` for its own row (`RowKeeps`), a step of a command for the rows
it leaves watched (`HandlerKeeps`). All three properties of the module are proved.

Each theorem has the layout *initial states, one step per action, temporal conclusion by
PTL*.

Every safety property of the passing runs is proved, under the hypotheses named above. Only
model-checked is liveness (`EveryActionSettles`, `EventEnds`, `GroupsClose`, `OperationsEnd`,
`StartIsCovered`, `ChangedSeriesIsSwept`), since fairness and ENABLED are beyond the prover.
Nothing is proved by induction over data, and no module with theorems has a recursive operator.

## 7. Not modelled

- **Reminders**: the listing and the one-off announcement (`/event announce`), and the
  destination a reminder is posted to.
- **Templates**: creation (an INSERT validated like an edit), the listings, the conversion of
  local times (`src/time`) and the columns without a rule of their own.
- **Row locks** of `scheduled_actions` and of rows that only one transaction can reach.
- **Messages and wording, audit, reporting, routing, validation of options, time zones,
  database start-up**: they decide nothing that the models tell apart, or are plain input
  and output.
- **Discord and PostgreSQL** are modelled by how the code uses them: a call succeeds or
  throws, a message can be deleted by hand, a transaction is atomic, locks its rows and
  re-evaluates its conditions after waiting.
