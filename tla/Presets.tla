------------------------------ MODULE Presets -------------------------------
(***************************************************************************)
(* A role-request preset under administration, and its application to an   *)
(* event (src/role-requests/role-request-preset-admin-service.ts,          *)
(* role-request-preset-service.ts and role-request-preset-query-service.ts *)
(* ), with the commands that add role options to the event, move its start *)
(* or end it meanwhile.                                                    *)
(*                                                                         *)
(* What orders all these transactions is row locks, so a transaction is    *)
(* split at its statements and pc tells the locks it holds.  Nobody sees   *)
(* what a transaction writes before it commits, so the writes of one are a *)
(* single step.                                                            *)
(***************************************************************************)
EXTENDS Integers

CONSTANTS
  Sessions,    \* database sessions in use at once
  Keys,        \* keys of role options
  Groups,      \* request groups of the preset
  Offsets,     \* minutes before the start at which a group opens or closes
  Starts,      \* start times the event is moved to
  Seeds,       \* definitions of the preset to begin with
  MaxOps,      \* bound: operations issued
  MaxFaults    \* bound: transactions lost

Edits == {"metadata", "active", "addOption", "editOption", "qualifications", "optionActive",
          "addGroup", "editGroup", "groupOptions", "groupActive"}
Reads == {"apply", "show"}
Ops == Edits \cup Reads \cup {"option", "move", "end"}

FirstStart == 2   \* bound: when the event starts if it is not moved

VARIABLES
  preset,   \* the definition: role_request_presets with its options and groups
  event,    \* the columns of events that matter here
  copy,     \* event_role_options, role_request_groups, preset applications
  tx,       \* the transaction of each session
  torn,     \* for the properties only: groups that a lost move left behind
  issued, faults

vars == <<preset, event, copy, tx, torn, issued, faults>>

States == {"absent", "active", "inactive"}

\* restricted: only members with a qualification role may request it.
\* qualified: there is such a role.
Option == [state : States, restricted : BOOLEAN, qualified : BOOLEAN]
NoOption == [state |-> "absent", restricted |-> FALSE, qualified |-> FALSE]

\* signup: only for members who have signed up.
Group == [state : States, opens : Int, closes : Int, signup : BOOLEAN, options : SUBSET Keys]
NoGroup == [state |-> "absent", opens |-> 0, closes |-> 0, signup |-> FALSE, options |-> {}]

Preset == [active : BOOLEAN, options : [Keys -> Option], groups : [Groups -> Group]]
Fresh == [active |-> TRUE, options |-> [k \in Keys |-> NoOption],
          groups |-> [g \in Groups |-> NoGroup]]

Event == [ended : BOOLEAN, starts : Int, signups : BOOLEAN]

\* What the event owns.  opensAt and closesAt are the times the offsets came to.
EventOption == [from : {"none", "preset", "command"}, restricted : BOOLEAN, qualified : BOOLEAN]
EventGroup == [kept : BOOLEAN, opens : Int, closes : Int, opensAt : Int, closesAt : Int,
               signup : BOOLEAN, options : SUBSET Keys]
Copy == [applied : BOOLEAN, options : [Keys -> EventOption], groups : [Groups -> EventGroup]]
NoCopy == [applied |-> FALSE,
           options |-> [k \in Keys |-> [from |-> "none", restricted |-> FALSE,
                                        qualified |-> FALSE]],
           groups |-> [g \in Groups |-> [kept |-> FALSE, opens |-> 0, closes |-> 0,
                                         opensAt |-> 0, closesAt |-> 0,
                                         signup |-> FALSE, options |-> {}]]]

Present(d, k) == d.options[k].state # "absent"
ActiveOptions(d) == {k \in Keys : d.options[k].state = "active"}
ActiveGroups(d) == {g \in Groups : d.groups[g].state = "active"}

\* What every definition that administration leaves behind promises.
Usable(d) ==
  /\ \A k \in Keys : d.options[k].restricted => d.options[k].qualified
  /\ \A g \in Groups : d.groups[g].state # "absent" =>
       /\ d.groups[g].opens > d.groups[g].closes
       /\ d.groups[g].options # {}
       /\ \A k \in d.groups[g].options : Present(d, k)

ASSUME SeedsAssumption == \A d \in Seeds : d \in Preset /\ Usable(d)
ASSUME TimesAssumption == Offsets \subseteq Int /\ Starts \subseteq Int
ASSUME BoundsAssumption == MaxOps \in Nat /\ MaxFaults \in Nat

Transaction == [op : Ops \cup {"none"},
                pc : {"idle", "lock", "read", "write", "event", "preset", "options",
                      "qualifications", "groups", "mappings", "check", "insert",
                      "validate", "key", "share", "commit", "update", "select",
                      "reschedule"},
                seen : Preset, starts : Int, key : SUBSET Keys, todo : SUBSET Groups]
Idle == [op |-> "none", pc |-> "idle", seen |-> Fresh, starts |-> 0, key |-> {}, todo |-> {}]

\* The definition may have been made in any of these ways; the event is new.
Init ==
  /\ preset \in Seeds \cup {Fresh}
  /\ event \in [ended : {FALSE}, starts : {FirstStart}, signups : BOOLEAN]
  /\ copy = NoCopy
  /\ tx = [t \in Sessions |-> Idle]
  /\ torn = {} /\ issued = 0 /\ faults = 0

At(t, op, pc) == tx[t].op = op /\ tx[t].pc = pc
Goto(t, pc) == tx' = [tx EXCEPT ![t].pc = pc]
End(t) == tx' = [tx EXCEPT ![t] = Idle]
Stored == UNCHANGED <<preset, event, copy>>
Counted == UNCHANGED <<torn, issued, faults>>

-----------------------------------------------------------------------------
(* Row locks.                                                              *)

Reading == {"options", "qualifications", "groups", "mappings", "check", "insert"}
OwnsPreset(t) == tx[t].op \in Edits /\ tx[t].pc \in {"read", "write"}
SharesPreset(t) == tx[t].op \in Reads /\ tx[t].pc \in Reading
\* The mutant reads the event without a lock.
OwnsNoEvent(t) == FALSE
OwnsEvent(t) == tx[t].op = "apply" /\ tx[t].pc \in Reading \cup {"preset"}
RefersToEvent(t) == At(t, "option", "commit")

\* The mutant does not wait.
Unlocked(t) == TRUE

\* SELECT ... FOR UPDATE and FOR SHARE on the preset.
PresetIsFree(t) == \A u \in Sessions \ {t} : ~OwnsPreset(u) /\ ~SharesPreset(u)
PresetIsShared(t) == \A u \in Sessions \ {t} : ~OwnsPreset(u)

\* FOR UPDATE on the event conflicts with the key share lock of a foreign key,
\* an UPDATE that leaves the key alone does not.
EventIsFree(t) == \A u \in Sessions \ {t} : ~OwnsEvent(u) /\ ~RefersToEvent(u)
EventIsShared(t) == \A u \in Sessions \ {t} : ~OwnsEvent(u)

Begin(t) ==
  /\ tx[t].pc = "idle" /\ issued < MaxOps /\ issued' = issued + 1
  /\ \E op \in Ops :
       tx' = [tx EXCEPT ![t].op = op,
                        ![t].pc = CASE op \in Edits \cup {"show"} -> "lock"
                                    [] op = "apply" -> "event"
                                    [] op = "option" -> "validate"
                                    [] OTHER -> "update"]
  /\ UNCHANGED <<torn, faults>> /\ Stored

FollowsStart(g) ==
  /\ copy.groups[g].opensAt = event.starts - copy.groups[g].opens
  /\ copy.groups[g].closesAt = event.starts - copy.groups[g].closes

\* Groups that only t was about to bring back to the start.
Deserted(t) ==
  {g \in Groups : /\ At(t, "move", "select") \/ (At(t, "move", "reschedule") /\ g \in tx[t].todo)
                  /\ copy.groups[g].kept /\ ~FollowsStart(g)}

\* The process is lost, a statement fails, or a check refuses on data the model
\* leaves out: the transaction rolls back.  A move has committed its new start
\* before it gets to the groups: lost in between, it leaves them where they were.
Abandon(t) ==
  /\ tx[t].pc # "idle"
  /\ faults < MaxFaults /\ faults' = faults + 1
  /\ torn' = torn \cup Deserted(t)
  /\ End(t) /\ UNCHANGED issued /\ Stored

-----------------------------------------------------------------------------
(* Administration of the preset.                                           *)

EditLock(t) ==
  /\ tx[t].op \in Edits /\ tx[t].pc = "lock" /\ PresetIsFree(t)
  /\ Goto(t, "read") /\ Counted /\ Stored

\* The row of the option or group that is edited; the mutation computes the new
\* row from it, and validates with what later statements read.
EditRead(t) ==
  /\ tx[t].op \in Edits /\ tx[t].pc = "read"
  /\ tx' = [tx EXCEPT ![t].pc = "write", ![t].seen = preset]
  /\ Counted /\ Stored

\* The input is refused, changes nothing, or changes only names and texts.
EditRefuse(t) ==
  /\ tx[t].op \in Edits /\ tx[t].pc = "write"
  /\ End(t) /\ Counted /\ Stored

Write(t, op, d) ==
  /\ At(t, op, "write") /\ preset' = d
  /\ End(t) /\ Counted /\ UNCHANGED <<event, copy>>

SetActive(t) ==
  Write(t, "active", [preset EXCEPT !.active = ~tx[t].seen.active])

AddOption(t) == \E k \in Keys, restricted, qualified \in BOOLEAN :
  /\ restricted => qualified
  /\ ~Present(preset, k)
  /\ Write(t, "addOption",
           [preset EXCEPT !.options[k] = [state |-> "active", restricted |-> restricted,
                                          qualified |-> qualified]])

MayRestrict(d, old, k) == old.options[k].restricted \/ d.options[k].qualified

EditOption(t) == \E k \in Keys, restricted \in BOOLEAN :
  /\ Present(tx[t].seen, k)
  /\ restricted => MayRestrict(preset, tx[t].seen, k)
  /\ Write(t, "editOption", [preset EXCEPT !.options[k].restricted = restricted])

ReplaceQualifications(t) == \E k \in Keys, qualified \in BOOLEAN :
  /\ Present(tx[t].seen, k)
  /\ tx[t].seen.options[k].restricted => qualified
  /\ Write(t, "qualifications", [preset EXCEPT !.options[k].qualified = qualified])

Flipped(state) == IF state = "active" THEN "inactive" ELSE "active"

\* Groups may lose their last active option.
SetOptionActive(t) == \E k \in Keys :
  /\ Present(tx[t].seen, k)
  /\ Write(t, "optionActive",
           [preset EXCEPT !.options[k].state = Flipped(tx[t].seen.options[k].state)])

AddGroup(t) == \E g \in Groups, opens, closes \in Offsets, signup \in BOOLEAN,
                  options \in SUBSET ActiveOptions(preset) :
  /\ preset.groups[g].state = "absent"
  /\ opens > closes /\ options # {}
  /\ Write(t, "addGroup",
           [preset EXCEPT !.groups[g] = [state |-> "active", opens |-> opens, closes |-> closes,
                                         signup |-> signup, options |-> options]])

EditGroup(t) == \E g \in Groups, opens, closes \in Offsets, signup \in BOOLEAN :
  /\ tx[t].seen.groups[g].state # "absent" /\ opens > closes
  /\ Write(t, "editGroup",
           [preset EXCEPT !.groups[g].opens = opens, !.groups[g].closes = closes,
                          !.groups[g].signup = signup])

\* Inactive options may be mapped.
ReplaceGroupOptions(t) == \E g \in Groups, options \in SUBSET Keys :
  /\ tx[t].seen.groups[g].state # "absent"
  /\ options # {} /\ \A k \in options : Present(preset, k)
  /\ Write(t, "groupOptions", [preset EXCEPT !.groups[g].options = options])

SetGroupActive(t) == \E g \in Groups :
  /\ tx[t].seen.groups[g].state # "absent"
  /\ Write(t, "groupActive",
           [preset EXCEPT !.groups[g].state = Flipped(tx[t].seen.groups[g].state)])

Administer(t) ==
  \/ EditLock(t) \/ EditRead(t) \/ EditRefuse(t)
  \/ SetActive(t)
  \/ AddOption(t) \/ EditOption(t) \/ ReplaceQualifications(t) \/ SetOptionActive(t)
  \/ AddGroup(t) \/ EditGroup(t) \/ ReplaceGroupOptions(t) \/ SetGroupActive(t)

-----------------------------------------------------------------------------
(* Reading the preset: to apply it, or to show it to an administrator.     *)

\* The event is locked first; what the rest needs of it is read here.
ApplyLockEvent(t) ==
  /\ At(t, "apply", "event") /\ EventIsFree(t)
  /\ IF event.ended
     THEN End(t)
     ELSE tx' = [tx EXCEPT ![t].pc = "preset", ![t].starts = event.starts]
  /\ Counted /\ Stored

ReadLock(t) ==
  /\ tx[t].op \in Reads /\ tx[t].pc \in {"lock", "preset"} /\ PresetIsShared(t)
  /\ IF tx[t].op = "apply" /\ (~preset.active \/ copy.applied)
     THEN End(t)
     ELSE tx' = [tx EXCEPT ![t].pc = "options", ![t].seen.active = preset.active]
  /\ Counted /\ Stored

\* The four statements that read the definition.
ReadOptions(t) ==
  /\ tx[t].op \in Reads /\ tx[t].pc = "options"
  /\ tx' = [tx EXCEPT ![t].pc = "qualifications",
                      ![t].seen.options =
                         [k \in Keys |-> [preset.options[k] EXCEPT !.qualified = FALSE]]]
  /\ Counted /\ Stored

ReadQualifications(t) ==
  /\ tx[t].op \in Reads /\ tx[t].pc = "qualifications"
  /\ tx' = [tx EXCEPT ![t].pc = "groups",
                      ![t].seen.options =
                         [k \in Keys |-> [@[k] EXCEPT !.qualified = preset.options[k].qualified]]]
  /\ Counted /\ Stored

ReadGroups(t) ==
  /\ tx[t].op \in Reads /\ tx[t].pc = "groups"
  /\ tx' = [tx EXCEPT ![t].pc = "mappings",
                      ![t].seen.groups =
                         [g \in Groups |-> [preset.groups[g] EXCEPT !.options = {}]]]
  /\ Counted /\ Stored

ReadMappings(t) ==
  /\ tx[t].op \in Reads /\ tx[t].pc = "mappings"
  /\ tx' = [tx EXCEPT ![t].pc = "check",
                      ![t].seen.groups =
                         [g \in Groups |-> [@[g] EXCEPT !.options = preset.groups[g].options]]]
  /\ Counted /\ Stored

Show(t) == At(t, "show", "check") /\ End(t) /\ Counted /\ Stored

-----------------------------------------------------------------------------
(* The application of the preset to the event.                             *)

\* Which mappings the event gets of those of a group.
Mapped(d, g) == d.groups[g].options \cap ActiveOptions(d)

CompleteGroup(d, g) == Mapped(d, g) # {} /\ d.groups[g].opens > d.groups[g].closes

\* Only what is active must be valid.
Applicable(d) ==
  /\ ActiveOptions(d) # {} /\ ActiveGroups(d) # {}
  /\ \A k \in ActiveOptions(d) : d.options[k].restricted => d.options[k].qualified
  /\ \A g \in ActiveGroups(d) :
       CompleteGroup(d, g) /\ (d.groups[g].signup => event.signups)

Taken(k) == copy.options[k].from # "none"

\* The mutant waits for the definition to become applicable.
ApplyCheckWaits(t) ==
  /\ At(t, "apply", "check")
  /\ Applicable(tx[t].seen) /\ \A k \in ActiveOptions(tx[t].seen) : ~Taken(k)
  /\ Goto(t, "insert") /\ Counted /\ Stored

ApplyCheck(t) ==
  /\ At(t, "apply", "check")
  /\ IF Applicable(tx[t].seen) /\ \A k \in ActiveOptions(tx[t].seen) : ~Taken(k)
     THEN Goto(t, "insert")
     ELSE End(t)
  /\ Counted /\ Stored

\* The copy of definition d in an event that starts then.
CopyOf(d, starts) ==
  [applied |-> TRUE,
   options |->
     [k \in Keys |->
        IF k \in ActiveOptions(d)
        THEN [from |-> "preset", restricted |-> d.options[k].restricted,
              qualified |-> d.options[k].qualified]
        ELSE copy.options[k]],
   groups |->
     [g \in Groups |->
        IF g \in ActiveGroups(d)
        THEN [kept |-> TRUE, opens |-> d.groups[g].opens, closes |-> d.groups[g].closes,
              opensAt |-> starts - d.groups[g].opens, closesAt |-> starts - d.groups[g].closes,
              signup |-> d.groups[g].signup, options |-> Mapped(d, g)]
        ELSE copy.groups[g]]]

\* Sessions whose uncommitted option has a key that t is to insert.
InTheWay(t) == {u \in Sessions : /\ tx[u].op = "option" /\ tx[u].pc \in {"share", "commit"}
                                 /\ tx[u].key \subseteq ActiveOptions(tx[t].seen)}

\* INSERT ... ON CONFLICT DO NOTHING waits for uncommitted rows with its keys.
\* A key that was taken after all rolls everything back.
ApplyInsert(t) ==
  /\ At(t, "apply", "insert") /\ InTheWay(t) = {}
  /\ IF \E k \in ActiveOptions(tx[t].seen) : Taken(k)
     THEN UNCHANGED copy
     ELSE copy' = CopyOf(tx[t].seen, tx[t].starts)
  /\ End(t) /\ Counted /\ UNCHANGED <<preset, event>>

Apply(t) ==
  \/ ApplyLockEvent(t) \/ ReadLock(t)
  \/ ReadOptions(t) \/ ReadQualifications(t) \/ ReadGroups(t) \/ ReadMappings(t)
  \/ Show(t) \/ ApplyCheck(t) \/ ApplyInsert(t)

-----------------------------------------------------------------------------
(* Role options added to the event by command.                             *)

\* The event is looked up first, then its key.
OptionValidate(t) ==
  /\ At(t, "option", "validate")
  /\ IF event.ended THEN End(t) ELSE Goto(t, "key")
  /\ Counted /\ Stored

OptionKey(t) == \E k \in Keys :
  /\ At(t, "option", "key")
  /\ IF Taken(k) THEN End(t)
     ELSE tx' = [tx EXCEPT ![t].pc = "insert", ![t].key = {k}]
  /\ Counted /\ Stored

\* The row goes in before its foreign key is checked.  A key that is taken fails
\* the statement, one that somebody else is inserting makes it wait.
OptionInsert(t) ==
  /\ At(t, "option", "insert")
  /\ \A u \in Sessions : tx[u].op = "option" /\ tx[u].pc \in {"share", "commit"}
                            => tx[u].key # tx[t].key
  /\ IF \E k \in tx[t].key : Taken(k) THEN End(t) ELSE Goto(t, "share")
  /\ Counted /\ Stored

\* The foreign key takes a key share lock on the event.
OptionShare(t) ==
  /\ At(t, "option", "share") /\ EventIsShared(t)
  /\ Goto(t, "commit") /\ Counted /\ Stored

OptionCommit(t) == \E restricted, qualified \in BOOLEAN :
  /\ At(t, "option", "commit")
  /\ restricted => qualified
  /\ copy' = [copy EXCEPT !.options = [k \in Keys |->
                IF k \in tx[t].key
                THEN [from |-> "command", restricted |-> restricted, qualified |-> qualified]
                ELSE @[k]]]
  /\ End(t) /\ Counted /\ UNCHANGED <<preset, event>>

\* The application waits for the option, the option for the event: the database
\* rolls one of them back.
BreakDeadlock(t) == \E u \in InTheWay(t) :
  /\ At(t, "apply", "insert") /\ tx[u].pc = "share"
  /\ End(t) \/ End(u)
  /\ Counted /\ Stored

-----------------------------------------------------------------------------
(* The event is moved or ended.                                            *)

\* editEvent, when it changes the start, and cancelEvent.  Other edits and the
\* completion of the event do nothing else to its groups.  Their action rows are
\* left to RoleGroups, and so are groups that have opened or closed: here all are
\* still planned.
Move(t) == \E starts \in Starts :
  /\ At(t, "move", "update") /\ EventIsShared(t)
  /\ IF event.ended
     THEN End(t) /\ UNCHANGED event
     ELSE event' = [event EXCEPT !.starts = starts] /\ Goto(t, "select")
  /\ Counted /\ UNCHANGED <<preset, copy>>

\* The groups are read and locked before the event is.  The mutant forgets
\* groups that nobody opened: here, all.
RescheduleNone(t) == At(t, "move", "select") /\ End(t) /\ Counted /\ Stored

RescheduleSelect(t) ==
  /\ At(t, "move", "select")
  /\ tx' = [tx EXCEPT ![t].pc = "reschedule",
                      ![t].todo = {g \in Groups : copy.groups[g].kept}]
  /\ Counted /\ Stored

Reschedule(t) ==
  /\ At(t, "move", "reschedule") /\ EventIsShared(t)
  /\ copy' = [copy EXCEPT !.groups = [g \in Groups |->
       LET group == copy.groups[g] IN
       IF g \in tx[t].todo
       THEN [group EXCEPT !.opensAt = event.starts - group.opens,
                          !.closesAt = event.starts - group.closes]
       ELSE group]]
  /\ torn' = torn \ tx[t].todo
  /\ End(t) /\ UNCHANGED <<preset, event, issued, faults>>

Cancel(t) ==
  /\ At(t, "end", "update") /\ EventIsShared(t)
  /\ event' = [event EXCEPT !.ended = TRUE]
  /\ End(t) /\ Counted /\ UNCHANGED <<preset, copy>>

Step(t) ==
  \/ Administer(t)
  \/ Apply(t)
  \/ OptionValidate(t) \/ OptionKey(t)
  \/ OptionInsert(t) \/ OptionShare(t) \/ OptionCommit(t)
  \/ BreakDeadlock(t)
  \/ Move(t) \/ RescheduleSelect(t) \/ Reschedule(t)
  \/ Cancel(t)

Next == \E t \in Sessions : Begin(t) \/ Abandon(t) \/ Step(t)
Spec == Init /\ [][Next]_vars

\* A transaction runs while its locks are free, and deadlocks are broken.
FairSpec == Spec /\ \A t \in Sessions : WF_vars(Step(t))

-----------------------------------------------------------------------------
(* Properties.                                                             *)

\* Every variable keeps its type.
TypeOK ==
  /\ preset \in Preset /\ event \in Event /\ copy \in Copy
  /\ tx \in [Sessions -> Transaction]
  /\ torn \subseteq Groups /\ issued \in 0 .. MaxOps /\ faults \in 0 .. MaxFaults

\* However administrators edit options, qualifications, groups and mappings at
\* the same time, a restricted option has qualification roles, a group opens
\* before it closes and shows options of the preset
\* (role-request-preset-admin-service.ts checks one against the other).
DefinitionIsUsable == Usable(preset)

\* Who has read the whole definition in its four statements has read one
\* definition, the one that is stored: no edit falls between the statements
\* (FOR SHARE against FOR UPDATE on the preset).
ReadersSeeOneDefinition == \A t \in Sessions :
  tx[t].op \in Reads /\ tx[t].pc \in {"check", "insert"} => tx[t].seen = preset

\* What an event got from a preset works by itself, whatever becomes of the
\* preset: restricted options have qualification roles, groups open before they
\* close, show options of the event, and ask for signups only where there are
\* signups (applyRoleRequestPresetToEventInTransaction).
CopyIsUsable ==
  /\ \A k \in Keys : copy.options[k].restricted => copy.options[k].qualified
  /\ \A g \in Groups : copy.groups[g].kept =>
       /\ copy.groups[g].opensAt < copy.groups[g].closesAt
       /\ copy.groups[g].options # {}
       /\ \A k \in copy.groups[g].options : copy.options[k].from = "preset"
       /\ copy.groups[g].signup => event.signups

\* No interleaving of edits, applications, new options and moves leaves a preset
\* or an event with groups or options that cannot be used.
AlwaysUsable == DefinitionIsUsable /\ CopyIsUsable

\* A preset is applied once, while it is active and the event is not over, and
\* the event gets its active groups as they are then (the locks on both).
ApplicationIsCurrent ==
  [][copy'.applied /\ ~copy.applied
       => /\ preset.active /\ ~event.ended
          /\ \A g \in Groups : copy'.groups[g].kept <=> preset.groups[g].state = "active"
          /\ \A g \in ActiveGroups(preset) :
               /\ copy'.groups[g].opens = preset.groups[g].opens
               /\ copy'.groups[g].options = Mapped(preset, g)]_vars

\* When nobody is moving the event its planned groups open and close by its start, though
\* the application that made them may have run during the move, unless a move was
\* lost after its new start had committed (event-edit.ts:604-677) and before
\* rescheduleRoleRequestGroupsForEventStart, a transaction of its own, had (:729).
\* The groups it left keep an earlier start until a later move gets that far, and
\* even theirs, opening and closing alike, is one single start.
GroupsFollowStart ==
  \A g \in Groups : copy.groups[g].kept =>
    /\ (\A t \in Sessions : tx[t].op # "move") /\ g \notin torn => FollowsStart(g)
    /\ copy.groups[g].opensAt + copy.groups[g].opens
         = copy.groups[g].closesAt + copy.groups[g].closes

\* Once an application has checked that the keys are free, nobody commits one of
\* them before it is done: the rollback of role-request-preset-service.ts:771 is
\* never needed, since the foreign key of the other row waits for the event.
CheckedKeysStayFree == \A t \in Sessions :
  At(t, "apply", "insert") => \A k \in ActiveOptions(tx[t].seen) : ~Taken(k)

\* Every operation ends: whatever locks it waits for are given up, and the
\* deadlock of an application with a new option is broken by the database.
OperationsEnd == \A t \in Sessions : tx[t].pc # "idle" ~> tx[t].pc = "idle"
=============================================================================
