------------------------------ MODULE RowLocks ------------------------------
(***************************************************************************)
(* The order in which the transactions of the bot lock rows they share.    *)
(* Every transaction is reduced to the row locks it asks for, in order; it *)
(* keeps them until it ends.  The other modules say what a transaction     *)
(* does; this one asks whether some of them can wait for each other in a   *)
(* circle, which PostgreSQL ends by throwing one of them out.              *)
(*                                                                         *)
(* Rows made by the transaction itself have no other owner and are left    *)
(* out; so are rows locked a second time, rows of scheduled_actions, and   *)
(* the key share locks of foreign keys to rows that nobody locks FOR       *)
(* UPDATE, which never wait.  A program takes its longest path.            *)
(***************************************************************************)
EXTENDS Naturals, Sequences

CONSTANTS
  Sessions,   \* database sessions
  Issued      \* the programs that are run

\* One guild, one template with its series and preset, one event with one
\* nominee of each kind, one open group and one of its role options.  failed:
\* an assignment that timed out or was declined.  nominee: a primary that is not
\* activated.  key: the unique key of a role option.  The primary is the older of
\* the nominees: who locks both by id locks it first.
Rows == {"guild", "template", "series", "type", "audience", "settings", "failed",
         "assignment", "backup", "group", "option", "event", "nominee", "preset", "key"}

\* The order that the transactions respect, except those of OutOfOrder.
Rank == [guild |-> 1, template |-> 2, series |-> 3, type |-> 4, audience |-> 5, settings |-> 6,
         failed |-> 7, assignment |-> 8, backup |-> 9, group |-> 10, option |-> 11,
         event |-> 12, nominee |-> 13, preset |-> 14, key |-> 15]

\* Row locks of PostgreSQL: what a foreign key takes on the row it refers to,
\* FOR SHARE, an UPDATE that leaves keys alone, and FOR UPDATE.
Modes == {"keyShare", "share", "noKeyUpdate", "update"}
Conflicting(m, n) ==
  \/ "update" \in {m, n}
  \/ "noKeyUpdate" \in {m, n} /\ {m, n} \subseteq {"share", "noKeyUpdate"} /\ {m, n} # {"share"}

Lock(row, mode) == [row |-> row, mode |-> mode]
KeyShare(row) == Lock(row, "keyShare")
Share(row) == Lock(row, "share")
Update(row) == Lock(row, "noKeyUpdate")
ForUpdate(row) == Lock(row, "update")

-----------------------------------------------------------------------------
(* Organisers.                                                             *)

\* recordOrganiserResponse, for the nominee who has been asked.
Respond == <<Share("settings"), ForUpdate("event"), Update("assignment")>>
\* executeOrganiserTimeout
TimeOut == <<Share("settings"), Update("assignment"), ForUpdate("event")>>
\* escalateAfterFailedOrganiserAssignment: the backup, or general cover.
ActivateBackup == <<Share("settings"), ForUpdate("backup"), ForUpdate("event")>>
QueueCover == <<Share("settings"), ForUpdate("failed"), ForUpdate("event")>>
\* The safety deadline locks every current assignment, in the order of ids.
RetireNominees ==
  <<Share("settings"), ForUpdate("assignment"), ForUpdate("backup"), ForUpdate("event")>>
ClaimCover == <<Share("settings"), ForUpdate("event")>>
\* assignEventOrganiser replaces what is there, for a primary also whoever was
\* activated in its stead, and inserts a row of the event.
AssignPrimary ==
  <<Share("settings"), Update("assignment"), Update("backup"), KeyShare("event")>>
AssignBackup == <<Share("settings"), Update("backup"), KeyShare("event")>>
Remove == <<Share("settings"), Update("assignment")>>
Disable == <<ForUpdate("settings"), Update("assignment"), Update("backup"), Update("nominee")>>
RescheduleSafety == <<Share("settings"), Share("event")>>

-----------------------------------------------------------------------------
(* Events, answers, role requests.                                         *)

CreateEvent == <<Share("settings")>>
\* The nominee is locked by nobody who also needs more than a key share of the
\* event, which the UPDATE of the event grants.
PublishEvent == <<Share("settings"), Update("event"), Update("nominee")>>
EditEvent == <<Update("event")>>
Answer == <<ForUpdate("event")>>
RequestRole == <<ForUpdate("group"), ForUpdate("option"), ForUpdate("event")>>
\* The rows of a group refer to the event, those of its options to the options.
PostGroup == <<KeyShare("event"), KeyShare("option")>>
LinkGroup == <<Update("group"), ForUpdate("event")>>
CloseGroup == <<Update("group"), ForUpdate("event")>>
MoveGroups == <<ForUpdate("group"), Share("event")>>
\* The key is in before the foreign key waits for the event.
AddOption == <<ForUpdate("key"), KeyShare("event")>>
ApplyPreset == <<ForUpdate("event"), Share("preset"), ForUpdate("key")>>
EditPreset == <<ForUpdate("preset")>>

-----------------------------------------------------------------------------
(* Templates and the guild.                                                *)

CreateTemplate == <<Share("guild"), Share("type"), Share("audience"), Share("preset")>>
EditTemplate == <<ForUpdate("template"), Share("type"), Share("audience"), Share("preset")>>
EditChildren == <<ForUpdate("template")>>
EditSeries == <<ForUpdate("template"), ForUpdate("series")>>
ReadSeries == <<Share("template"), Share("series")>>
ClaimSeries == <<Update("series")>>
Generate ==
  <<Share("template"), Share("type"), Share("audience"), Share("settings"), Share("preset")>>
GenerateSlot ==
  <<Share("template"), ForUpdate("series"), Share("type"), Share("audience"), Share("settings"),
    Share("preset")>>
SetUp == <<Update("guild"), Update("type")>>
SetUpAudiences == <<Update("audience")>>

Locks ==
  [respond |-> Respond, timeOut |-> TimeOut, activateBackup |-> ActivateBackup,
   queueCover |-> QueueCover, retireNominees |-> RetireNominees, claimCover |-> ClaimCover,
   assignPrimary |-> AssignPrimary, assignBackup |-> AssignBackup, remove |-> Remove,
   disable |-> Disable, rescheduleSafety |-> RescheduleSafety,
   createEvent |-> CreateEvent, publishEvent |-> PublishEvent, editEvent |-> EditEvent,
   answer |-> Answer, requestRole |-> RequestRole, postGroup |-> PostGroup,
   linkGroup |-> LinkGroup, closeGroup |-> CloseGroup, moveGroups |-> MoveGroups,
   addOption |-> AddOption, applyPreset |-> ApplyPreset, editPreset |-> EditPreset,
   createTemplate |-> CreateTemplate, editTemplate |-> EditTemplate,
   editChildren |-> EditChildren, editSeries |-> EditSeries, readSeries |-> ReadSeries,
   claimSeries |-> ClaimSeries, generate |-> Generate, generateSlot |-> GenerateSlot,
   setUp |-> SetUp, setUpAudiences |-> SetUpAudiences]
Programs == DOMAIN Locks
OutOfOrder == {"respond", "postGroup", "addOption"}

VARIABLES
  program,  \* what a session runs
  at        \* the lock it asks for next: it holds those before

vars == <<program, at>>

Init ==
  /\ program = [s \in Sessions |-> "none"]
  /\ at = [s \in Sessions |-> 1]

Wants(s) == program[s] # "none" /\ at[s] <= Len(Locks[program[s]])

\* The lock s asks for conflicts with one that t holds.
WaitsFor(s, t) ==
  /\ s # t /\ Wants(s) /\ program[t] # "none"
  /\ \E i \in 1 .. at[t] - 1 :
       /\ Locks[program[t]][i].row = Locks[program[s]][at[s]].row
       /\ Conflicting(Locks[program[t]][i].mode, Locks[program[s]][at[s]].mode)

\* Everyone in S waits for someone in S.
Circle(S) == S # {} /\ \A s \in S : \E t \in S : WaitsFor(s, t)

End(s) == program' = [program EXCEPT ![s] = "none"] /\ at' = [at EXCEPT ![s] = 1]

Begin(s) ==
  /\ program[s] = "none"
  /\ \E p \in Issued : program' = [program EXCEPT ![s] = p]
  /\ UNCHANGED at

TakeLock(s) ==
  /\ Wants(s) /\ \A t \in Sessions : ~WaitsFor(s, t)
  /\ at' = [at EXCEPT ![s] = @ + 1]
  /\ UNCHANGED program

\* COMMIT, a rollback where a check fails, or a statement that throws.
Finish(s) == program[s] # "none" /\ ~(\E t \in Sessions : WaitsFor(s, t)) /\ End(s)

\* PostgreSQL throws one of a circle out.
BreakDeadlock(s) == (\E S \in SUBSET Sessions : s \in S /\ Circle(S)) /\ End(s)

Next == \E s \in Sessions : Begin(s) \/ TakeLock(s) \/ Finish(s) \/ BreakDeadlock(s)

Spec == Init /\ [][Next]_vars

-----------------------------------------------------------------------------
(* Properties.                                                             *)

TypeOK ==
  /\ program \in [Sessions -> Issued \cup {"none"}]
  /\ at \in [Sessions -> Nat \ {0}]

\* No transactions wait for each other in a circle ("retaining that ordering
\* avoids creating an assignment-vs-event lock inversion",
\* organiser-safety-service.ts:134-136).
NoLockCycle == \A S \in SUBSET Sessions : ~Circle(S)
=============================================================================
