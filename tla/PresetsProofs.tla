---------------------------- MODULE PresetsProofs ---------------------------
(***************************************************************************)
(* Proofs about Presets, for every set of sessions, keys, groups, offsets  *)
(* and start times.                                                        *)
(***************************************************************************)
EXTENDS Presets, TLAPS

USE TimesAssumption, BoundsAssumption

-----------------------------------------------------------------------------
(* The inductive invariant.                                                *)

\* Exclusive locks exclude every other lock.
LocksExclude == \A t, u \in Sessions : t # u =>
  /\ OwnsPreset(t) => ~OwnsPreset(u) /\ ~SharesPreset(u)
  /\ OwnsEvent(t) => ~OwnsEvent(u) /\ ~RefersToEvent(u)

\* What transaction t has read of the preset is what is stored.
EditorIsCurrent(t) == tx[t].op \in Edits /\ tx[t].pc = "write" => tx[t].seen = preset

ReaderIsCurrent(t) == tx[t].op \in Reads =>
  /\ tx[t].pc \in Reading =>
       tx[t].seen.active = preset.active /\ (tx[t].op = "apply" => preset.active)
  /\ tx[t].pc = "qualifications" =>
       tx[t].seen.options = [k \in Keys |-> [preset.options[k] EXCEPT !.qualified = FALSE]]
  /\ tx[t].pc \in {"groups", "mappings", "check", "insert"} =>
       tx[t].seen.options = preset.options
  /\ tx[t].pc = "mappings" =>
       tx[t].seen.groups = [g \in Groups |-> [preset.groups[g] EXCEPT !.options = {}]]
  /\ tx[t].pc \in {"check", "insert"} => tx[t].seen.groups = preset.groups

\* What an application knows of the event is true, and so is what it has checked.
StartIsCurrent(t) == tx[t].op = "apply" =>
  /\ tx[t].pc # "lock"
  /\ OwnsEvent(t) => tx[t].starts = event.starts /\ ~event.ended
CheckIsCurrent(t) == At(t, "apply", "insert") =>
  Applicable(tx[t].seen) /\ \A k \in ActiveOptions(tx[t].seen) : ~Taken(k)

Current(t) ==
  EditorIsCurrent(t) /\ ReaderIsCurrent(t) /\ StartIsCurrent(t) /\ CheckIsCurrent(t)

\* Uncommitted options have keys of their own.
Adding(t) == tx[t].op = "option" /\ tx[t].pc \in {"share", "commit"}
KeysAreOwn ==
  /\ \A t \in Sessions : At(t, "option", "insert") \/ Adding(t) => \E k \in Keys : tx[t].key = {k}
  /\ \A t \in Sessions : Adding(t) => \A k \in tx[t].key : ~Taken(k)
  /\ \A t, u \in Sessions : t # u /\ Adding(t) /\ Adding(u) => tx[t].key # tx[u].key

\* A group that is out of step with the event is on somebody's list, unless a
\* lost move left it behind.
OnTheList(g) == \E t \in Sessions :
  At(t, "move", "select") \/ (At(t, "move", "reschedule") /\ g \in tx[t].todo)
LateGroupsAreListed == \A g \in Groups :
  copy.groups[g].kept => FollowsStart(g) \/ OnTheList(g) \/ g \in torn

\* A window opens before it closes, and both times come from one start.
WindowsAreOrdered == \A g \in Groups : copy.groups[g].kept =>
  /\ copy.groups[g].opens > copy.groups[g].closes
  /\ copy.groups[g].opensAt + copy.groups[g].opens
       = copy.groups[g].closesAt + copy.groups[g].closes

\* Before the preset is applied the event has no groups.
GroupsComeApplied == copy.applied \/ \A g \in Groups : ~copy.groups[g].kept

IInv ==
  /\ TypeOK /\ DefinitionIsUsable
  /\ LocksExclude /\ \A t \in Sessions : Current(t)
  /\ KeysAreOwn /\ CopyIsUsable /\ WindowsAreOrdered /\ LateGroupsAreListed
  /\ GroupsComeApplied

-----------------------------------------------------------------------------
(* Types.                                                                  *)

LEMMA NothingTyped ==
  /\ NoOption \in Option /\ NoGroup \in Group /\ Fresh \in Preset
  /\ NoCopy \in Copy /\ Idle \in Transaction
<1>1. NoOption \in Option
  BY DEF NoOption, Option, States
<1>2. NoGroup \in Group
  BY DEF NoGroup, Group, States
<1>3. Fresh \in Preset
  BY <1>1, <1>2 DEF Fresh, Preset
<1>4. NoCopy \in Copy
  BY DEF NoCopy, Copy, EventOption, EventGroup
<1>5. Idle \in Transaction
  BY <1>3 DEF Idle, Transaction
<1> QED
  BY <1>1, <1>2, <1>3, <1>4, <1>5

\* Transactions that change only themselves, or end.
LEMMA TypeOfTransactions ==
  ASSUME TypeOK, NEW t \in Sessions, Stored,
         \/ Begin(t) \/ Abandon(t) \/ EditLock(t) \/ EditRead(t) \/ EditRefuse(t)
         \/ ApplyLockEvent(t) \/ ReadLock(t)
         \/ Show(t) \/ ApplyCheck(t) \/ OptionValidate(t) \/ OptionKey(t)
         \/ OptionInsert(t) \/ OptionShare(t) \/ BreakDeadlock(t) \/ RescheduleSelect(t)
  PROVE  TypeOK'
<1> USE NothingTyped DEF TypeOK, Stored, Counted, End, Goto
<1>1. CASE Begin(t)
  BY <1>1 DEF Begin, Transaction, Ops, Edits, Reads
<1>2. CASE Abandon(t)
  BY <1>2 DEF Abandon, Deserted
<1>3. CASE EditLock(t)
  BY <1>3 DEF EditLock, Transaction
<1>4. CASE EditRead(t)
  BY <1>4 DEF EditRead, Transaction
<1>5. CASE EditRefuse(t)
  BY <1>5 DEF EditRefuse
<1>6. CASE ApplyLockEvent(t)
  BY <1>6 DEF ApplyLockEvent, Transaction, Event
<1>7. CASE ReadLock(t)
  <2>1. [tx[t].seen EXCEPT !.active = preset.active] \in Preset
    BY DEF Preset, Transaction
  <2>2. CASE tx'[t] = Idle
    BY <1>7, <2>2 DEF ReadLock
  <2>3. CASE tx' = [tx EXCEPT ![t].pc = "options", ![t].seen.active = preset.active]
    BY <1>7, <2>1, <2>3 DEF ReadLock, Transaction
  <2> QED
    BY <1>7, <2>2, <2>3 DEF ReadLock
<1>8. CASE Show(t)
  BY <1>8 DEF Show
<1>9. CASE ApplyCheck(t)
  BY <1>9 DEF ApplyCheck, Transaction
<1>10. CASE OptionValidate(t)
  BY <1>10 DEF OptionValidate, Transaction
<1>11. CASE OptionInsert(t)
  BY <1>11 DEF OptionInsert, Transaction
<1>12. CASE OptionShare(t)
  BY <1>12 DEF OptionShare, Transaction
<1>13. CASE BreakDeadlock(t)
  BY <1>13 DEF BreakDeadlock, InTheWay
<1>14. CASE RescheduleSelect(t)
  BY <1>14 DEF RescheduleSelect, Transaction
<1>15. CASE OptionKey(t)
  BY <1>15 DEF OptionKey, Transaction
<1> QED
  BY <1>1, <1>2, <1>3, <1>4, <1>5, <1>6, <1>7, <1>8, <1>9, <1>10, <1>11, <1>12, <1>13, <1>14,
     <1>15

LEMMA TypeOfReading ==
  ASSUME TypeOK, NEW t \in Sessions, Stored,
         ReadOptions(t) \/ ReadQualifications(t) \/ ReadGroups(t) \/ ReadMappings(t)
  PROVE  TypeOK'
<1> USE DEF TypeOK, Stored, Counted
<1> tx[t] \in Transaction /\ tx[t].seen \in Preset
  BY DEF Transaction
<1>1. CASE ReadOptions(t)
  <2> DEFINE options == [k \in Keys |-> [preset.options[k] EXCEPT !.qualified = FALSE]]
  <2>1. options \in [Keys -> Option]
    BY DEF Preset, Option
  <2>2. [tx[t].seen EXCEPT !.options = options] \in Preset
    BY <2>1 DEF Preset
  <2> QED
    BY <1>1, <2>1, <2>2 DEF ReadOptions, Transaction, Preset
<1>2. CASE ReadQualifications(t)
  <2> DEFINE options == [k \in Keys |-> [tx[t].seen.options[k]
                                          EXCEPT !.qualified = preset.options[k].qualified]]
  <2>1. options \in [Keys -> Option]
    BY DEF Preset, Option
  <2> QED
    BY <1>2, <2>1 DEF ReadQualifications, Transaction, Preset
<1>3. CASE ReadGroups(t)
  <2> DEFINE groups == [g \in Groups |-> [preset.groups[g] EXCEPT !.options = {}]]
  <2>1. groups \in [Groups -> Group]
    BY DEF Preset, Group
  <2> QED
    BY <1>3, <2>1 DEF ReadGroups, Transaction, Preset
<1>4. CASE ReadMappings(t)
  <2> DEFINE groups == [g \in Groups |-> [tx[t].seen.groups[g]
                                           EXCEPT !.options = preset.groups[g].options]]
  <2>1. groups \in [Groups -> Group]
    BY DEF Preset, Group
  <2> QED
    BY <1>4, <2>1 DEF ReadMappings, Transaction, Preset
<1> QED
  BY <1>1, <1>2, <1>3, <1>4

\* The writes of administrators.
EditWrites(t) ==
  \/ SetActive(t) \/ AddOption(t) \/ EditOption(t) \/ ReplaceQualifications(t)
  \/ SetOptionActive(t) \/ AddGroup(t) \/ EditGroup(t) \/ ReplaceGroupOptions(t)
  \/ SetGroupActive(t)

\* A definition stays usable when one option or one group becomes another.
LEMMA OptionPut ==
  ASSUME NEW d \in Preset, Usable(d), NEW k \in Keys, NEW o \in Option,
         o.restricted => o.qualified, o.state # "absent"
  PROVE  [d EXCEPT !.options[k] = o] \in Preset /\ Usable([d EXCEPT !.options[k] = o])
<1> DEFINE new == [d EXCEPT !.options[k] = o]
<1>1. /\ new.options = [d.options EXCEPT ![k] = o] /\ new.groups = d.groups
      /\ new.active = d.active /\ d.options \in [Keys -> Option]
      /\ d.groups \in [Groups -> Group]
  BY DEF Preset
<1>2. new \in Preset
  BY <1>1 DEF Preset
<1>3. \A i \in Keys : new.options[i] = IF i = k THEN o ELSE d.options[i]
  BY <1>1
<1>4. Usable(new)
  BY <1>1, <1>3 DEF Usable, Present, Group
<1> QED
  BY <1>2, <1>4

\* Its restriction and its qualification roles may change one at a time.
LEMMA OptionRestricted ==
  ASSUME NEW d \in Preset, Usable(d), NEW k \in Keys, Present(d, k),
         NEW restricted \in BOOLEAN, restricted => MayRestrict(d, d, k)
  PROVE  /\ [d EXCEPT !.options[k].restricted = restricted] \in Preset
         /\ Usable([d EXCEPT !.options[k].restricted = restricted])
<1> DEFINE o == [d.options[k] EXCEPT !.restricted = restricted]
<1>1. d.options[k] \in Option /\ d.options[k].state # "absent"
  BY DEF Preset, Present
<1>2. o \in Option /\ o.state # "absent"
  BY <1>1 DEF Option
<1>3. o.restricted = restricted /\ o.qualified = d.options[k].qualified
  BY <1>1 DEF Option
<1>4. d.options[k].restricted => d.options[k].qualified
  BY DEF Usable
<1>5. restricted => d.options[k].restricted \/ d.options[k].qualified
  BY Zenon DEF MayRestrict
<1>6. restricted => d.options[k].qualified
  BY <1>4, <1>5, Zenon
<1>7. o.restricted => o.qualified
  BY <1>3, <1>6, Zenon
<1>8. [d EXCEPT !.options[k] = o] \in Preset /\ Usable([d EXCEPT !.options[k] = o])
  BY <1>2, <1>7, OptionPut, Zenon
<1> QED
  BY <1>8

LEMMA OptionQualified ==
  ASSUME NEW d \in Preset, Usable(d), NEW k \in Keys, Present(d, k),
         NEW qualified \in BOOLEAN, d.options[k].restricted => qualified
  PROVE  /\ [d EXCEPT !.options[k].qualified = qualified] \in Preset
         /\ Usable([d EXCEPT !.options[k].qualified = qualified])
<1> DEFINE o == [d.options[k] EXCEPT !.qualified = qualified]
<1>1. d.options[k] \in Option /\ d.options[k].state # "absent"
  BY DEF Preset, Present
<1>2. o \in Option /\ o.state # "absent"
  BY <1>1 DEF Option
<1>3. o.restricted = d.options[k].restricted /\ o.qualified = qualified
  BY <1>1 DEF Option
<1>4. o.restricted => o.qualified
  BY <1>3, Zenon
<1>5. [d EXCEPT !.options[k] = o] \in Preset /\ Usable([d EXCEPT !.options[k] = o])
  BY <1>2, <1>4, OptionPut, Zenon
<1> QED
  BY <1>5

LEMMA GroupPut ==
  ASSUME NEW d \in Preset, Usable(d), NEW g \in Groups, NEW r \in Group,
         r.opens > r.closes, r.options # {}, \A k \in r.options : Present(d, k)
  PROVE  [d EXCEPT !.groups[g] = r] \in Preset /\ Usable([d EXCEPT !.groups[g] = r])
<1> DEFINE new == [d EXCEPT !.groups[g] = r]
<1>1. /\ new.groups = [d.groups EXCEPT ![g] = r] /\ new.options = d.options
      /\ new.active = d.active /\ d.options \in [Keys -> Option]
      /\ d.groups \in [Groups -> Group]
  BY DEF Preset
<1>2. new \in Preset
  BY <1>1 DEF Preset
<1>3. \A i \in Groups : new.groups[i] = IF i = g THEN r ELSE d.groups[i]
  BY <1>1
<1>4. Usable(new)
  BY <1>1, <1>3 DEF Usable, Present
<1> QED
  BY <1>2, <1>4

\* What a new group is written as.
LEMMA AddGroupWrites ==
  ASSUME NEW t, AddGroup(t)
  PROVE  \E g \in Groups, opens, closes \in Offsets, signup \in BOOLEAN,
            options \in SUBSET ActiveOptions(preset) :
           /\ opens > closes /\ options # {}
           /\ preset' = [preset EXCEPT !.groups[g] =
                 [state |-> "active", opens |-> opens, closes |-> closes,
                  signup |-> signup, options |-> options]]
  BY Zenon DEF AddGroup, Write

\* A write turns one usable definition into another.
LEMMA EditsAreUsable ==
  ASSUME TypeOK, DefinitionIsUsable, NEW t \in Sessions, EditorIsCurrent(t), EditWrites(t)
  PROVE  /\ preset' \in Preset /\ Usable(preset')
         /\ End(t) /\ UNCHANGED <<event, copy, torn, issued, faults>>
         /\ tx[t].op \in Edits /\ tx[t].pc = "write"
<1> USE DEF Write, At, Counted, Edits
<1>15. tx[t].op \in Edits /\ tx[t].pc = "write"
  BY DEF EditWrites, SetActive, AddOption, EditOption, ReplaceQualifications,
         SetOptionActive, AddGroup, EditGroup, ReplaceGroupOptions, SetGroupActive
<1>1. tx[t].op \in Edits /\ tx[t].pc = "write" /\ tx[t].seen = preset
  BY <1>15 DEF EditorIsCurrent
<1>2. preset \in Preset /\ Usable(preset)
  BY DEF TypeOK, DefinitionIsUsable
<1>3. \A state : Flipped(state) \in States \ {"absent"}
  BY DEF Flipped, States
<1>13. \A k \in Keys : /\ preset.options[k] \in Option
                       /\ preset.options[k].restricted => preset.options[k].qualified
  BY <1>2 DEF Preset, Usable
<1>14. \A g \in Groups : /\ preset.groups[g] \in Group
                         /\ preset.groups[g].state # "absent" =>
                              /\ preset.groups[g].opens > preset.groups[g].closes
                              /\ preset.groups[g].options # {}
                              /\ \A k \in preset.groups[g].options : Present(preset, k)
  BY <1>2 DEF Preset, Usable
<1> SUFFICES preset' \in Preset /\ Usable(preset')
  BY <1>1 DEF EditWrites, SetActive, AddOption, EditOption, ReplaceQualifications,
         SetOptionActive, AddGroup, EditGroup, ReplaceGroupOptions, SetGroupActive
<1>4. CASE SetActive(t)
  <2>1. preset' = [preset EXCEPT !.active = ~preset.active]
    BY <1>1, <1>4 DEF SetActive
  <2>2. preset' \in Preset
    BY <1>2, <2>1 DEF Preset
  <2>3. preset'.options = preset.options /\ preset'.groups = preset.groups
    BY <1>2, <2>1 DEF Preset
  <2> QED
    BY <1>2, <2>2, <2>3 DEF Usable, Present
<1>5. CASE AddOption(t)
  <2>1. PICK k \in Keys, restricted, qualified \in BOOLEAN :
          /\ restricted => qualified
          /\ preset' = [preset EXCEPT !.options[k] =
                [state |-> "active", restricted |-> restricted, qualified |-> qualified]]
    BY <1>5 DEF AddOption
  <2> DEFINE o == [state |-> "active", restricted |-> restricted, qualified |-> qualified]
  <2>2. o \in Option /\ (o.restricted => o.qualified) /\ o.state # "absent"
    BY <2>1 DEF Option, States
  <2> QED
    BY <1>2, <2>1, <2>2, OptionPut
<1>6. CASE EditOption(t)
  <2>1. PICK k \in Keys, restricted \in BOOLEAN :
          /\ Present(preset, k)
          /\ restricted => MayRestrict(preset, preset, k)
          /\ preset' = [preset EXCEPT !.options[k].restricted = restricted]
    BY <1>1, <1>6 DEF EditOption
  <2>2. /\ [preset EXCEPT !.options[k].restricted = restricted] \in Preset
        /\ Usable([preset EXCEPT !.options[k].restricted = restricted])
    BY <1>2, <2>1, OptionRestricted, Zenon
  <2> QED
    BY <2>1, <2>2, Zenon
<1>7. CASE ReplaceQualifications(t)
  <2>1. PICK k \in Keys, qualified \in BOOLEAN :
          /\ Present(preset, k)
          /\ preset.options[k].restricted => qualified
          /\ preset' = [preset EXCEPT !.options[k].qualified = qualified]
    BY <1>1, <1>7 DEF ReplaceQualifications
  <2>2. /\ [preset EXCEPT !.options[k].qualified = qualified] \in Preset
        /\ Usable([preset EXCEPT !.options[k].qualified = qualified])
    BY <1>2, <2>1, OptionQualified, Zenon
  <2> QED
    BY <2>1, <2>2, Zenon
<1>8. CASE SetOptionActive(t)
  <2>1. PICK k \in Keys :
          preset' = [preset EXCEPT !.options[k].state = Flipped(preset.options[k].state)]
    BY <1>1, <1>8 DEF SetOptionActive
  <2> DEFINE o == [preset.options[k] EXCEPT !.state = Flipped(preset.options[k].state)]
  <2>2. o \in Option /\ (o.restricted => o.qualified) /\ o.state # "absent"
    <3>1. o \in Option
      BY <1>13, <1>3 DEF Option
    <3>2. /\ o.restricted = preset.options[k].restricted
          /\ o.qualified = preset.options[k].qualified
          /\ o.state = Flipped(preset.options[k].state)
      BY <1>13 DEF Option
    <3> QED
      BY <1>13, <1>3, <3>1, <3>2
  <2>3. preset' = [preset EXCEPT !.options[k] = o]
    BY <2>1
  <2> QED
    BY <1>2, <2>2, <2>3, OptionPut
<1>9. CASE AddGroup(t)
  <2>1. PICK g \in Groups, opens, closes \in Offsets, signup \in BOOLEAN,
             options \in SUBSET ActiveOptions(preset) :
          /\ opens > closes /\ options # {}
          /\ preset' = [preset EXCEPT !.groups[g] =
                [state |-> "active", opens |-> opens, closes |-> closes,
                 signup |-> signup, options |-> options]]
    BY <1>9, AddGroupWrites
  <2> DEFINE r == [state |-> "active", opens |-> opens, closes |-> closes,
                   signup |-> signup, options |-> options]
  <2>2. r \in Group
    BY <2>1 DEF Group, States, ActiveOptions
  <2>3. r.opens > r.closes /\ r.options # {} /\ \A k \in r.options : Present(preset, k)
    BY <2>1 DEF ActiveOptions, Present
  <2> QED
    BY <1>2, <2>1, <2>2, <2>3, GroupPut
<1>10. CASE EditGroup(t)
  <2>1. PICK g \in Groups, opens, closes \in Offsets, signup \in BOOLEAN :
          /\ tx[t].seen.groups[g].state # "absent" /\ opens > closes
          /\ Write(t, "editGroup",
               [preset EXCEPT !.groups[g].opens = opens, !.groups[g].closes = closes,
                              !.groups[g].signup = signup])
    BY <1>10, Zenon DEF EditGroup
  <2>5. preset.groups[g].state # "absent"
    BY <1>1, <2>1
  <2> DEFINE r == [preset.groups[g] EXCEPT !.opens = opens, !.closes = closes,
                                           !.signup = signup]
  <2>2. r \in Group /\ r.opens = opens /\ r.closes = closes
        /\ r.options = preset.groups[g].options
    BY <1>14, <2>1 DEF Group
  <2>3. preset' = [preset EXCEPT !.groups[g] = r]
    BY <1>2, <2>1 DEF Preset
  <2>4. r.opens > r.closes /\ r.options # {} /\ \A k \in r.options : Present(preset, k)
    BY <1>14, <2>1, <2>2, <2>5
  <2> QED
    BY <1>2, <2>2, <2>3, <2>4, GroupPut
<1>11. CASE ReplaceGroupOptions(t)
  <2>1. PICK g \in Groups, options \in SUBSET Keys :
          /\ preset.groups[g].state # "absent"
          /\ options # {} /\ \A k \in options : Present(preset, k)
          /\ preset' = [preset EXCEPT !.groups[g].options = options]
    BY <1>1, <1>11 DEF ReplaceGroupOptions
  <2> DEFINE r == [preset.groups[g] EXCEPT !.options = options]
  <2>2. r \in Group /\ r.options = options /\ r.opens = preset.groups[g].opens
        /\ r.closes = preset.groups[g].closes
    BY <1>14, <2>1 DEF Group
  <2>3. preset' = [preset EXCEPT !.groups[g] = r]
    BY <2>1
  <2>4. r.opens > r.closes /\ r.options # {} /\ \A k \in r.options : Present(preset, k)
    BY <1>14, <2>1, <2>2
  <2> QED
    BY <1>2, <2>2, <2>3, <2>4, GroupPut
<1>12. CASE SetGroupActive(t)
  <2>1. PICK g \in Groups :
          /\ preset.groups[g].state # "absent"
          /\ preset' = [preset EXCEPT !.groups[g].state = Flipped(preset.groups[g].state)]
    BY <1>1, <1>12 DEF SetGroupActive
  <2> DEFINE r == [preset.groups[g] EXCEPT !.state = Flipped(preset.groups[g].state)]
  <2>2. r \in Group /\ r.options = preset.groups[g].options
        /\ r.opens = preset.groups[g].opens /\ r.closes = preset.groups[g].closes
    BY <1>14, <1>3 DEF Group
  <2>3. preset' = [preset EXCEPT !.groups[g] = r]
    BY <2>1
  <2>4. r.opens > r.closes /\ r.options # {} /\ \A k \in r.options : Present(preset, k)
    BY <1>14, <2>1, <2>2
  <2> QED
    BY <1>2, <2>2, <2>3, <2>4, GroupPut
<1> QED
  BY <1>4, <1>5, <1>6, <1>7, <1>8, <1>9, <1>10, <1>11, <1>12 DEF EditWrites

LEMMA TypeOfCopies ==
  ASSUME TypeOK, NEW t \in Sessions,
         ApplyInsert(t) \/ OptionCommit(t) \/ Move(t) \/ Reschedule(t) \/ Cancel(t)
  PROVE  TypeOK'
<1> USE NothingTyped DEF TypeOK, Counted, End, Goto
<1> tx[t] \in Transaction /\ tx[t].seen \in Preset /\ tx[t].starts \in Int
  BY DEF Transaction
<1>1. CASE ApplyInsert(t)
  <2>1. CopyOf(tx[t].seen, tx[t].starts) \in Copy
    <3> DEFINE d == tx[t].seen
    <3>1. \A g \in Groups : d.groups[g] \in Group
      BY DEF Preset
    <3>2. \A k \in Keys : d.options[k] \in Option
      BY DEF Preset
    <3> QED
      BY <3>1, <3>2 DEF CopyOf, Copy, EventOption, EventGroup, Group, Option, Mapped
  <2> QED
    BY <1>1, <2>1 DEF ApplyInsert
<1>2. CASE OptionCommit(t)
  BY <1>2 DEF OptionCommit, Copy, EventOption
<1>3. CASE Move(t)
  BY <1>3 DEF Move, Event, Transaction
<1>4. CASE Reschedule(t)
  <2>1. copy' \in Copy
    <3> DEFINE after(group) == [group EXCEPT !.opensAt = event.starts - group.opens,
                                             !.closesAt = event.starts - group.closes]
    <3>4. event.starts \in Int
      BY DEF Event
    <3>1. ASSUME NEW group \in EventGroup PROVE after(group) \in EventGroup
      <4>1. group.opens \in Int /\ group.closes \in Int
        BY DEF EventGroup
      <4>2. event.starts - group.opens \in Int /\ event.starts - group.closes \in Int
        BY <3>4, <4>1
      <4> QED
        BY <4>2 DEF EventGroup
    <3> DEFINE groups == [g \in Groups |-> IF g \in tx[t].todo THEN after(copy.groups[g])
                                                              ELSE copy.groups[g]]
    <3>2. groups \in [Groups -> EventGroup]
      BY <3>1 DEF Copy
    <3>3. copy' = [copy EXCEPT !.groups = groups]
      BY <1>4, Zenon DEF Reschedule
    <3> QED
      BY <3>2, <3>3 DEF Copy
  <2> QED
    BY <1>4, <2>1 DEF Reschedule
<1>5. CASE Cancel(t)
  BY <1>5 DEF Cancel, Event
<1> QED
  BY <1>1, <1>2, <1>3, <1>4, <1>5

-----------------------------------------------------------------------------
(* What a step does to transactions.                                       *)

\* Steps that leave the tables alone, those that read the preset or the event
\* apart.
Quiet(t) ==
  \/ Begin(t) \/ Abandon(t) \/ EditLock(t) \/ EditRefuse(t) \/ Show(t)
  \/ OptionValidate(t) \/ OptionKey(t) \/ OptionInsert(t) \/ OptionShare(t)
  \/ BreakDeadlock(t) \/ RescheduleSelect(t)
Learning(t) ==
  \/ EditRead(t) \/ ApplyLockEvent(t) \/ ReadLock(t) \/ ReadOptions(t)
  \/ ReadQualifications(t) \/ ReadGroups(t) \/ ReadMappings(t) \/ ApplyCheck(t)
Writing(t) ==
  EditWrites(t) \/ ApplyInsert(t) \/ OptionCommit(t) \/ Move(t) \/ Reschedule(t) \/ Cancel(t)

LEMMA StepKinds ==
  ASSUME NEW t, Begin(t) \/ Abandon(t) \/ Step(t)
  PROVE  \/ Quiet(t) /\ Stored
         \/ Learning(t) /\ Stored
         \/ Writing(t)
<1>1. Quiet(t) \/ Learning(t) \/ Writing(t)
  BY Zenon DEF Step, Administer, Apply, Quiet, Learning, Writing, EditWrites
<1>2. Quiet(t) => Stored
  BY Zenon DEF Quiet, Begin, Abandon, EditLock, EditRefuse, Show, OptionValidate, OptionKey,
     OptionInsert, OptionShare, BreakDeadlock, RescheduleSelect
<1>3. Learning(t) => Stored
  BY Zenon DEF Learning, EditRead, ApplyLockEvent, ReadLock, ReadOptions, ReadQualifications,
     ReadGroups, ReadMappings, ApplyCheck
<1> QED
  BY <1>1, <1>2, <1>3

\* At these steps a transaction claims to know nothing.
Unaware(x) ==
  \/ x.pc \in {"idle", "read", "event", "validate", "key", "share", "commit", "update",
               "select", "reschedule"}
  \/ x.pc = "lock" /\ x.op # "apply"
  \/ x.pc = "insert" /\ x.op = "option"

\* At these it holds no locks.
Lockless(x) == Unaware(x) /\ x.pc \notin {"read", "commit"}

LEMMA UnawareIsCurrent ==
  ASSUME NEW t, Unaware(tx'[t])
  PROVE  Current(t)'
<1>1. EditorIsCurrent(t)'
  BY DEF EditorIsCurrent, Unaware, Edits
<1>2. ReaderIsCurrent(t)'
  BY DEF ReaderIsCurrent, Unaware, Reads, Reading
<1>3. StartIsCurrent(t)'
  BY DEF StartIsCurrent, OwnsEvent, Unaware, Reading
<1>4. CheckIsCurrent(t)'
  BY DEF CheckIsCurrent, At, Unaware
<1> QED
  BY <1>1, <1>2, <1>3, <1>4 DEF Current

\* Of a quiet step somebody comes out unaware; the others do not notice.
LEMMA QuietStep ==
  ASSUME TypeOK, NEW t \in Sessions, Quiet(t)
  PROVE  \E s \in Sessions :
           /\ \A u \in Sessions \ {s} : tx'[u] = tx[u]
           /\ Unaware(tx'[s])
           /\ Lockless(tx'[s]) \/ (s = t /\ (EditLock(t) \/ OptionShare(t)))
<1> USE DEF TypeOK, Transaction, Unaware, Lockless, End, Goto, Idle
<1>1. CASE Begin(t)
  BY <1>1 DEF Begin, Edits
<1>2. CASE Abandon(t)
  BY <1>2 DEF Abandon
<1>3. CASE EditLock(t)
  BY <1>3 DEF EditLock
<1>4. CASE EditRefuse(t)
  BY <1>4 DEF EditRefuse
<1>5. CASE Show(t)
  BY <1>5 DEF Show
<1>6. CASE OptionValidate(t)
  BY <1>6 DEF OptionValidate, At
<1>7. CASE OptionInsert(t)
  BY <1>7 DEF OptionInsert
<1>8. CASE OptionShare(t)
  BY <1>8 DEF OptionShare
<1>9. CASE BreakDeadlock(t)
  BY <1>9 DEF BreakDeadlock, InTheWay
<1>10. CASE RescheduleSelect(t)
  BY <1>10 DEF RescheduleSelect
<1>11. CASE OptionKey(t)
  BY <1>11 DEF OptionKey, At
<1> QED
  BY <1>1, <1>2, <1>3, <1>4, <1>5, <1>6, <1>7, <1>8, <1>9, <1>10, <1>11 DEF Quiet

\* What a transaction need not know.
LEMMA Elsewhere ==
  ASSUME NEW t
  PROVE  /\ tx'[t].op \notin Edits => EditorIsCurrent(t)'
         /\ tx'[t].op \notin Reads \/ tx'[t].pc \notin Reading => ReaderIsCurrent(t)'
         /\ tx'[t].op # "apply" => StartIsCurrent(t)'
         /\ tx'[t].op # "apply" \/ tx'[t].pc # "insert" => CheckIsCurrent(t)'
<1>1. tx'[t].op \notin Edits => EditorIsCurrent(t)'
  BY DEF EditorIsCurrent
<1>2. tx'[t].op \notin Reads \/ tx'[t].pc \notin Reading => ReaderIsCurrent(t)'
  BY DEF ReaderIsCurrent, Reading
<1>3. tx'[t].op # "apply" => StartIsCurrent(t)'
  BY DEF StartIsCurrent, OwnsEvent
<1>4. tx'[t].op # "apply" \/ tx'[t].pc # "insert" => CheckIsCurrent(t)'
  BY DEF CheckIsCurrent, At
<1> QED
  BY <1>1, <1>2, <1>3, <1>4

LEMMA LearningStep ==
  ASSUME TypeOK, NEW t \in Sessions, Current(t), Learning(t), Stored
  PROVE  /\ \A u \in Sessions \ {t} : tx'[u] = tx[u]
         /\ Current(t)'
<1> USE DEF Stored
<1>0. tx \in [Sessions -> Transaction] /\ tx[t] \in Transaction /\ tx[t].seen \in Preset
      /\ preset \in Preset
  BY DEF TypeOK, Transaction
<1>1. \A u \in Sessions \ {t} : tx'[u] = tx[u]
  BY <1>0 DEF Learning, EditRead, ApplyLockEvent, ReadLock, ReadOptions, ReadQualifications,
     ReadGroups, ReadMappings, ApplyCheck, End, Goto
<1> SUFFICES Current(t)'
  BY <1>1
<1>2. CASE tx'[t] = Idle
  <2>1. Unaware(tx'[t])
    BY <1>2 DEF Idle, Unaware
  <2> QED
    BY <2>1, UnawareIsCurrent
<1>3. CASE EditRead(t)
  <2>1. tx'[t].op \in Edits /\ tx'[t].pc = "write" /\ tx'[t].seen = preset
    BY <1>0, <1>3 DEF EditRead, Transaction
  <2>2. EditorIsCurrent(t)'
    BY <2>1 DEF EditorIsCurrent
  <2>3. tx'[t].op \notin Reads /\ tx'[t].op # "apply"
    BY <2>1 DEF Edits, Reads
  <2> QED
    BY <2>2, <2>3, Elsewhere DEF Current
<1>4. CASE ApplyLockEvent(t) /\ tx'[t] # Idle
  <2>1. /\ tx'[t].op = "apply" /\ tx'[t].pc = "preset" /\ tx'[t].starts = event.starts
        /\ ~event.ended
    BY <1>0, <1>4 DEF ApplyLockEvent, Transaction, End, At
  <2>2. StartIsCurrent(t)'
    BY <2>1 DEF StartIsCurrent
  <2>3. tx'[t].op \notin Edits /\ tx'[t].pc \notin Reading /\ tx'[t].pc # "insert"
    BY <2>1 DEF Edits, Reading
  <2> QED
    BY <2>2, <2>3, Elsewhere DEF Current
<1>5. CASE ReadLock(t) /\ tx'[t] # Idle
  <2>5. tx' = [tx EXCEPT ![t].pc = "options", ![t].seen.active = preset.active]
    BY <1>0, <1>5 DEF ReadLock, End
  <2>1. /\ tx'[t].op = tx[t].op /\ tx'[t].op \in Reads /\ tx'[t].pc = "options"
        /\ tx'[t].seen.active = preset.active /\ tx'[t].starts = tx[t].starts
    BY <1>0, <1>5, <2>5 DEF ReadLock, Transaction, Preset
  <2>7. tx'[t].op = "apply" => preset.active
    BY <1>0, <1>5, <2>1, Zenon DEF ReadLock, End
  <2>2. tx'[t].op = "apply" => OwnsEvent(t)
    BY <1>0, <1>5, <2>1 DEF ReadLock, OwnsEvent, Reading, Current, StartIsCurrent
  <2>3. ReaderIsCurrent(t)'
    BY <2>1, <2>7 DEF ReaderIsCurrent, Current, Reading
  <2>4. StartIsCurrent(t)'
    BY <2>1, <2>2 DEF StartIsCurrent, OwnsEvent, Current
  <2>6. tx'[t].op \notin Edits /\ tx'[t].pc # "insert"
    BY <2>1 DEF Edits, Reads
  <2> QED
    BY <2>3, <2>4, <2>6, Elsewhere DEF Current
<1>6. ASSUME ReadOptions(t) \/ ReadQualifications(t) \/ ReadGroups(t) \/ ReadMappings(t)
             \/ (ApplyCheck(t) /\ tx'[t] # Idle),
             ReaderIsCurrent(t)', CheckIsCurrent(t)'
      PROVE  Current(t)'
  <2>1. /\ tx[t].op \in Reads /\ tx[t].pc \in Reading
        /\ tx'[t].op = tx[t].op /\ tx'[t].pc \in Reading /\ tx'[t].starts = tx[t].starts
    BY <1>0, <1>6 DEF ReadOptions, ReadQualifications, ReadGroups, ReadMappings, ApplyCheck,
       Transaction, End, Goto, Reading, Reads, At
  <2>2. StartIsCurrent(t)'
    BY <2>1 DEF StartIsCurrent, OwnsEvent, Current, Reading
  <2>3. tx'[t].op \notin Edits
    BY <2>1 DEF Edits, Reads
  <2> QED
    BY <1>6, <2>2, <2>3, Elsewhere DEF Current
<1>7. CASE ReadOptions(t)
  <2>1. /\ tx'[t].pc = "qualifications" /\ tx[t].pc = "options" /\ tx'[t].op = tx[t].op
        /\ tx'[t].seen.active = tx[t].seen.active
        /\ tx'[t].seen.options =
             [k \in Keys |-> [preset.options[k] EXCEPT !.qualified = FALSE]]
    BY <1>0, <1>7 DEF ReadOptions, Transaction, Preset
  <2>2. ReaderIsCurrent(t)'
    BY <2>1 DEF ReaderIsCurrent, Current, Reading
  <2> QED
    BY <1>6, <1>7, <2>1, <2>2, Elsewhere
<1>8. CASE ReadQualifications(t)
  <2>1. /\ tx'[t].pc = "groups" /\ tx[t].pc = "qualifications" /\ tx'[t].op = tx[t].op
        /\ tx'[t].seen.active = tx[t].seen.active
        /\ tx'[t].seen.options =
             [k \in Keys |-> [tx[t].seen.options[k]
                                EXCEPT !.qualified = preset.options[k].qualified]]
    BY <1>0, <1>8 DEF ReadQualifications, Transaction, Preset
  <2>2. /\ tx[t].op \in Reads
        /\ tx[t].seen.options = [k \in Keys |-> [preset.options[k] EXCEPT !.qualified = FALSE]]
    BY <1>8, <2>1 DEF ReadQualifications, ReaderIsCurrent, Current
  <2>3. tx'[t].seen.options = preset.options
    <3>1. preset.options \in [Keys -> Option]
      BY <1>0 DEF Preset
    <3>2. \A r \in Option : [[r EXCEPT !.qualified = FALSE] EXCEPT !.qualified = r.qualified] = r
      BY DEF Option
    <3> DEFINE blank == [k \in Keys |-> [preset.options[k] EXCEPT !.qualified = FALSE]]
    <3>3. tx'[t].seen.options =
            [k \in Keys |-> [blank[k] EXCEPT !.qualified = preset.options[k].qualified]]
      BY <2>1, <2>2, Zenon
    <3>4. \A k \in Keys :
            [blank[k] EXCEPT !.qualified = preset.options[k].qualified] = preset.options[k]
      BY <3>1, <3>2
    <3> HIDE DEF blank
    <3> QED
      BY <3>1, <3>3, <3>4
  <2>4. ReaderIsCurrent(t)'
    BY <2>1, <2>3 DEF ReaderIsCurrent, Current, Reading
  <2> QED
    BY <1>6, <1>8, <2>1, <2>4, Elsewhere
<1>9. CASE ReadGroups(t)
  <2>1. /\ tx'[t].pc = "mappings" /\ tx[t].pc = "groups" /\ tx'[t].op = tx[t].op
        /\ tx'[t].seen.active = tx[t].seen.active
        /\ tx'[t].seen.options = tx[t].seen.options
        /\ tx'[t].seen.groups =
             [g \in Groups |-> [preset.groups[g] EXCEPT !.options = {}]]
    BY <1>0, <1>9 DEF ReadGroups, Transaction, Preset
  <2>2. ReaderIsCurrent(t)'
    BY <2>1 DEF ReaderIsCurrent, Current, Reading
  <2> QED
    BY <1>6, <1>9, <2>1, <2>2, Elsewhere
<1>10. CASE ReadMappings(t)
  <2>1. /\ tx'[t].pc = "check" /\ tx[t].pc = "mappings" /\ tx'[t].op = tx[t].op
        /\ tx'[t].seen.active = tx[t].seen.active
        /\ tx'[t].seen.options = tx[t].seen.options
        /\ tx'[t].seen.groups =
             [g \in Groups |-> [tx[t].seen.groups[g] EXCEPT !.options = preset.groups[g].options]]
    BY <1>0, <1>10 DEF ReadMappings, Transaction, Preset
  <2>2. /\ tx[t].op \in Reads
        /\ tx[t].seen.groups = [g \in Groups |-> [preset.groups[g] EXCEPT !.options = {}]]
    BY <1>10, <2>1 DEF ReadMappings, ReaderIsCurrent, Current
  <2>3. tx'[t].seen.groups = preset.groups
    <3>1. preset.groups \in [Groups -> Group]
      BY <1>0 DEF Preset
    <3>2. \A r \in Group : [[r EXCEPT !.options = {}] EXCEPT !.options = r.options] = r
      BY DEF Group
    <3> DEFINE blank == [g \in Groups |-> [preset.groups[g] EXCEPT !.options = {}]]
    <3>3. tx'[t].seen.groups =
            [g \in Groups |-> [blank[g] EXCEPT !.options = preset.groups[g].options]]
      BY <2>1, <2>2, Zenon
    <3>4. \A g \in Groups :
            [blank[g] EXCEPT !.options = preset.groups[g].options] = preset.groups[g]
      BY <3>1, <3>2
    <3> HIDE DEF blank
    <3> QED
      BY <3>1, <3>3, <3>4
  <2>4. ReaderIsCurrent(t)'
    BY <2>1, <2>3 DEF ReaderIsCurrent, Current, Reading
  <2> QED
    BY <1>6, <1>10, <2>1, <2>4, Elsewhere
<1>11. CASE ApplyCheck(t) /\ tx'[t] # Idle
  <2>1. /\ tx'[t].pc = "insert" /\ tx[t].pc = "check" /\ tx'[t].op = tx[t].op
        /\ tx'[t].seen = tx[t].seen
    BY <1>0, <1>11 DEF ApplyCheck, Transaction, End, Goto, At
  <2>2. ReaderIsCurrent(t)'
    BY <2>1 DEF ReaderIsCurrent, Current, Reading
  <2>3. Applicable(tx[t].seen) /\ \A k \in ActiveOptions(tx[t].seen) : ~Taken(k)
    BY <1>0, <1>11 DEF ApplyCheck, End
  <2>4. CheckIsCurrent(t)'
    BY <2>1, <2>3 DEF CheckIsCurrent, Applicable, Taken
  <2> QED
    BY <1>6, <1>11, <2>2, <2>4
<1> QED
  BY <1>1, <1>2, <1>3, <1>4, <1>5, <1>7, <1>8, <1>9, <1>10, <1>11 DEF Learning

LEMMA WritingStep ==
  ASSUME TypeOK, NEW t \in Sessions, Writing(t)
  PROVE  /\ \A u \in Sessions \ {t} : tx'[u] = tx[u]
         /\ Lockless(tx'[t])
<1> tx \in [Sessions -> Transaction] /\ tx[t] \in Transaction
  BY DEF TypeOK
<1>1. CASE End(t)
  BY <1>1 DEF End, Idle, Unaware, Lockless
<1>2. CASE Goto(t, "select")
  BY <1>2 DEF Goto, Transaction, Unaware, Lockless
<1>3. CASE EditWrites(t)
  BY <1>1, <1>3, Zenon DEF EditWrites, SetActive, AddOption, EditOption, ReplaceQualifications,
     SetOptionActive, AddGroup, EditGroup, ReplaceGroupOptions, SetGroupActive, Write
<1>4. CASE Move(t)
  BY <1>1, <1>2, <1>4, Zenon DEF Move
<1> QED
  BY <1>1, <1>3, <1>4, Zenon DEF Writing, ApplyInsert, OptionCommit, Reschedule, Cancel

\* What is locked does not change under others.
LEMMA LockedIsCurrent ==
  ASSUME NEW u, Current(u), tx'[u] = tx[u],
         UNCHANGED preset \/ (~OwnsPreset(u) /\ ~SharesPreset(u)),
         UNCHANGED <<event, copy>> \/ ~OwnsEvent(u)
  PROVE  Current(u)'
<1> USE DEF Current
<1>1. EditorIsCurrent(u)'
  BY DEF EditorIsCurrent, OwnsPreset
<1>2. ReaderIsCurrent(u)'
  BY DEF ReaderIsCurrent, SharesPreset, Reading
<1>3. StartIsCurrent(u)'
  BY DEF StartIsCurrent, OwnsEvent
<1>4. CheckIsCurrent(u)'
  <2>1. At(u, "apply", "insert") => OwnsEvent(u) /\ SharesPreset(u)
    BY DEF At, OwnsEvent, SharesPreset, Reading, Reads
  <2> QED
    BY <2>1 DEF CheckIsCurrent, At, Applicable, Taken
<1> QED
  BY <1>1, <1>2, <1>3, <1>4

LEMMA LocksOfWriters ==
  ASSUME LocksExclude, NEW t \in Sessions, NEW u \in Sessions \ {t}, Writing(t)
  PROVE  /\ UNCHANGED preset \/ (~OwnsPreset(u) /\ ~SharesPreset(u))
         /\ UNCHANGED <<event, copy>> \/ ~OwnsEvent(u)
<1>1. CASE EditWrites(t)
  <2>1. OwnsPreset(t)
    BY <1>1 DEF EditWrites, SetActive, AddOption, EditOption, ReplaceQualifications,
       SetOptionActive, AddGroup, EditGroup, ReplaceGroupOptions, SetGroupActive, Write, At,
       OwnsPreset, Edits
  <2>2. UNCHANGED <<event, copy>>
    BY <1>1 DEF EditWrites, SetActive, AddOption, EditOption, ReplaceQualifications,
       SetOptionActive, AddGroup, EditGroup, ReplaceGroupOptions, SetGroupActive, Write
  <2> QED
    BY <2>1, <2>2 DEF LocksExclude
<1>2. CASE ApplyInsert(t)
  BY <1>2 DEF ApplyInsert, LocksExclude, OwnsEvent, At, Reading
<1>3. CASE OptionCommit(t)
  BY <1>3 DEF OptionCommit, LocksExclude, RefersToEvent
<1>4. CASE Move(t) \/ Reschedule(t) \/ Cancel(t)
  BY <1>4 DEF Move, Reschedule, Cancel, EventIsShared
<1> QED
  BY <1>1, <1>2, <1>3, <1>4 DEF Writing

\* Whatever happens, transactions know what is true.
LEMMA CurrentStep ==
  ASSUME IInv, NEW t \in Sessions, Begin(t) \/ Abandon(t) \/ Step(t), NEW u \in Sessions
  PROVE  Current(u)'
<1> TypeOK /\ LocksExclude /\ Current(u)
  BY DEF IInv
<1>1. CASE Quiet(t) /\ Stored
  <2>1. tx'[u] = tx[u] \/ Unaware(tx'[u])
    BY <1>1, QuietStep
  <2>2. CASE tx'[u] = tx[u]
    BY <1>1, <2>2, LockedIsCurrent DEF Stored
  <2> QED
    BY <2>1, <2>2, UnawareIsCurrent
<1>2. CASE Learning(t) /\ Stored
  <2>1. CASE u = t
    BY <1>2, <2>1, LearningStep
  <2>2. CASE u # t
    <3>1. tx'[u] = tx[u]
      BY <1>2, <2>2, LearningStep DEF IInv
    <3> QED
      BY <1>2, <3>1, LockedIsCurrent DEF Stored
  <2> QED
    BY <2>1, <2>2
<1>3. CASE Writing(t)
  <2>1. CASE u = t
    BY <1>3, <2>1, WritingStep, UnawareIsCurrent DEF Lockless
  <2>2. CASE u # t
    BY <1>3, <2>2, WritingStep, LocksOfWriters, LockedIsCurrent
  <2> QED
    BY <2>1, <2>2
<1> QED
  BY <1>1, <1>2, <1>3, StepKinds

LEMMA LocksStep ==
  ASSUME IInv, NEW t \in Sessions, Begin(t) \/ Abandon(t) \/ Step(t)
  PROVE  LocksExclude'
<1> TypeOK /\ LocksExclude
  BY DEF IInv
<1>1. ASSUME NEW s \in Sessions, Lockless(tx'[s])
      PROVE  ~OwnsPreset(s)' /\ ~SharesPreset(s)' /\ ~OwnsEvent(s)' /\ ~RefersToEvent(s)'
  BY <1>1 DEF Lockless, Unaware, OwnsPreset, SharesPreset, OwnsEvent, RefersToEvent, At, Reading,
     Edits, Reads
<1>2. ASSUME NEW s \in Sessions, tx'[s] = tx[s]
      PROVE  /\ OwnsPreset(s)' <=> OwnsPreset(s)
             /\ SharesPreset(s)' <=> SharesPreset(s)
             /\ OwnsEvent(s)' <=> OwnsEvent(s)
             /\ RefersToEvent(s)' <=> RefersToEvent(s)
  BY <1>2 DEF OwnsPreset, SharesPreset, OwnsEvent, RefersToEvent, At
\* It is enough that one session takes what nobody else has.
<1>3. ASSUME NEW s \in Sessions, \A u \in Sessions \ {s} : tx'[u] = tx[u],
             OwnsPreset(s)' => OwnsPreset(s) \/ PresetIsFree(s),
             SharesPreset(s)' => SharesPreset(s) \/ PresetIsShared(s),
             OwnsEvent(s)' => OwnsEvent(s) \/ EventIsFree(s),
             RefersToEvent(s)' => RefersToEvent(s) \/ EventIsShared(s)
      PROVE  LocksExclude'
  BY <1>2, <1>3 DEF LocksExclude, PresetIsFree, PresetIsShared, EventIsFree, EventIsShared
<1>4. CASE Quiet(t)
  <2>1. PICK s \in Sessions :
          /\ \A u \in Sessions \ {s} : tx'[u] = tx[u]
          /\ Lockless(tx'[s]) \/ (s = t /\ (EditLock(t) \/ OptionShare(t)))
    BY <1>4, QuietStep
  <2>2. CASE Lockless(tx'[s])
    BY <1>1, <1>3, <2>1, <2>2
  <2>3. CASE s = t /\ EditLock(t)
    <3>1. /\ PresetIsFree(t)
          /\ ~SharesPreset(t)' /\ ~OwnsEvent(t)' /\ ~RefersToEvent(t)'
      BY <2>3 DEF EditLock, Goto, TypeOK, Transaction, SharesPreset, OwnsEvent, RefersToEvent, At,
         Edits, Reads, Reading
    <3> QED
      BY <1>3, <2>1, <2>3, <3>1
  <2>4. CASE s = t /\ OptionShare(t)
    <3>1. /\ EventIsShared(t)
          /\ ~OwnsPreset(t)' /\ ~SharesPreset(t)' /\ ~OwnsEvent(t)'
      BY <2>4 DEF OptionShare, Goto, TypeOK, Transaction, OwnsPreset, SharesPreset, OwnsEvent, At,
         Edits, Reads, Reading
    <3> QED
      BY <1>3, <2>1, <2>4, <3>1
  <2> QED
    BY <2>1, <2>2, <2>3, <2>4
<1>5. CASE Learning(t) /\ Stored
  <2>1. \A u \in Sessions \ {t} : tx'[u] = tx[u]
    BY <1>5, LearningStep DEF IInv
  <2>2. ~RefersToEvent(t)'
    BY <1>5 DEF Learning, EditRead, ApplyLockEvent, ReadLock, ReadOptions, ReadQualifications,
       ReadGroups, ReadMappings, ApplyCheck, End, Goto, Idle, TypeOK, Transaction, RefersToEvent,
       At, Edits, Reads
  <2>3. OwnsPreset(t)' => OwnsPreset(t)
    BY <1>5 DEF Learning, EditRead, ApplyLockEvent, ReadLock, ReadOptions, ReadQualifications,
       ReadGroups, ReadMappings, ApplyCheck, End, Goto, Idle, TypeOK, Transaction, OwnsPreset,
       At, Edits, Reads
  <2>4. SharesPreset(t)' => SharesPreset(t) \/ PresetIsShared(t)
    BY <1>5 DEF Learning, EditRead, ApplyLockEvent, ReadLock, ReadOptions, ReadQualifications,
       ReadGroups, ReadMappings, ApplyCheck, End, Goto, Idle, TypeOK, Transaction, SharesPreset,
       At, Edits, Reads, Reading
  <2>5. OwnsEvent(t)' => OwnsEvent(t) \/ EventIsFree(t)
    BY <1>5 DEF IInv, Current, StartIsCurrent, Learning, EditRead, ApplyLockEvent, ReadLock,
       ReadOptions, ReadQualifications, ReadGroups, ReadMappings, ApplyCheck, End, Goto, Idle,
       TypeOK, Transaction, OwnsEvent, At, Edits, Reads, Reading
  <2> QED
    BY <1>3, <2>1, <2>2, <2>3, <2>4, <2>5
<1>6. CASE Writing(t)
  BY <1>1, <1>3, <1>6, WritingStep
<1> QED
  BY <1>4, <1>5, <1>6, StepKinds

-----------------------------------------------------------------------------
(* The tables.                                                             *)

LEMMA TypeStep ==
  ASSUME IInv, NEW t \in Sessions, Begin(t) \/ Abandon(t) \/ Step(t)
  PROVE  TypeOK'
<1> TypeOK /\ DefinitionIsUsable /\ EditorIsCurrent(t)
  BY DEF IInv, Current
<1>1. CASE Quiet(t) /\ Stored
  BY <1>1, TypeOfTransactions, Zenon DEF Quiet
<1>2. CASE Learning(t) /\ Stored
  BY <1>2, TypeOfTransactions, TypeOfReading, Zenon DEF Learning
<1>3. CASE EditWrites(t)
  <2>1. /\ preset' \in Preset /\ End(t) /\ UNCHANGED <<event, copy, torn, issued, faults>>
    BY <1>3, EditsAreUsable
  <2> QED
    BY <2>1, NothingTyped DEF TypeOK, End
<1>4. CASE Writing(t) /\ ~EditWrites(t)
  BY <1>4, TypeOfCopies, Zenon DEF Writing
<1> QED
  BY <1>1, <1>2, <1>3, <1>4, StepKinds

LEMMA DefinitionStep ==
  ASSUME IInv, NEW t \in Sessions, Begin(t) \/ Abandon(t) \/ Step(t)
  PROVE  DefinitionIsUsable'
<1> TypeOK /\ DefinitionIsUsable /\ EditorIsCurrent(t)
  BY DEF IInv, Current
<1>1. CASE UNCHANGED preset
  BY <1>1 DEF DefinitionIsUsable, Usable, Present
<1>2. CASE EditWrites(t)
  BY <1>2, EditsAreUsable DEF DefinitionIsUsable
<1>3. UNCHANGED preset \/ EditWrites(t)
  BY StepKinds, Zenon DEF Stored, Writing, ApplyInsert, OptionCommit, Move, Reschedule, Cancel
<1> QED
  BY <1>1, <1>2, <1>3

\* The copy of a definition that was found applicable.
LEMMA CopyOptions ==
  ASSUME NEW d \in Preset, NEW starts \in Int, copy \in Copy, NEW k \in Keys
  PROVE  /\ k \in ActiveOptions(d) =>
              CopyOf(d, starts).options[k] =
                [from |-> "preset", restricted |-> d.options[k].restricted,
                 qualified |-> d.options[k].qualified]
         /\ k \notin ActiveOptions(d) => CopyOf(d, starts).options[k] = copy.options[k]
  BY DEF CopyOf

LEMMA CopyGroups ==
  ASSUME NEW d \in Preset, NEW starts \in Int, copy \in Copy, NEW g \in Groups
  PROVE  /\ g \in ActiveGroups(d) =>
              CopyOf(d, starts).groups[g] =
                [kept |-> TRUE, opens |-> d.groups[g].opens, closes |-> d.groups[g].closes,
                 opensAt |-> starts - d.groups[g].opens,
                 closesAt |-> starts - d.groups[g].closes,
                 signup |-> d.groups[g].signup, options |-> Mapped(d, g)]
         /\ g \notin ActiveGroups(d) => CopyOf(d, starts).groups[g] = copy.groups[g]
  BY DEF CopyOf

LEMMA KeysStep ==
  ASSUME IInv, NEW t \in Sessions, Begin(t) \/ Abandon(t) \/ Step(t)
  PROVE  KeysAreOwn'
<1>0. /\ TypeOK /\ KeysAreOwn
      /\ tx \in [Sessions -> Transaction] /\ tx[t] \in Transaction
      /\ tx[t].seen \in Preset /\ tx[t].starts \in Int /\ copy \in Copy
  BY DEF IInv, TypeOK, Transaction
\* One session gives its key up.
<1>1. ASSUME NEW s \in Sessions, \A u \in Sessions \ {s} : tx'[u] = tx[u],
             ~At(s, "option", "insert")', ~Adding(s)',
             \A u \in Sessions \ {s} : Adding(u) => \A k \in tx[u].key : ~Taken(k)'
      PROVE  KeysAreOwn'
  BY <1>0, <1>1 DEF KeysAreOwn, Adding, At
<1>2. ASSUME Stored, NEW s \in Sessions, \A u \in Sessions \ {s} : tx'[u] = tx[u],
             ~At(s, "option", "insert")', ~Adding(s)'
      PROVE  KeysAreOwn'
  <2>1. \A u \in Sessions \ {s} : Adding(u) => \A k \in tx[u].key : ~Taken(k)'
    BY <1>0, <1>2 DEF KeysAreOwn, Taken, Stored
  <2> QED
    BY <1>1, <1>2, <2>1
<1>3. CASE OptionKey(t) /\ tx'[t] # Idle
  <2>1. PICK k \in Keys : tx' = [tx EXCEPT ![t].pc = "insert", ![t].key = {k}]
    BY <1>0, <1>3 DEF OptionKey, End
  <2>2. UNCHANGED copy /\ tx[t].pc = "key"
    BY <1>3 DEF OptionKey, Stored, At
  <2> QED
    BY <1>0, <2>1, <2>2 DEF KeysAreOwn, Adding, At, Taken, Transaction
<1>4. CASE OptionInsert(t) /\ tx'[t] # Idle
  <2>1. /\ tx' = [tx EXCEPT ![t].pc = "share"] /\ UNCHANGED copy
        /\ At(t, "option", "insert") /\ \A k \in tx[t].key : ~Taken(k)
        /\ \A u \in Sessions : Adding(u) => tx[u].key # tx[t].key
    BY <1>0, <1>4 DEF OptionInsert, End, Goto, Stored, Adding
  <2> QED
    BY <1>0, <2>1 DEF KeysAreOwn, Adding, At, Taken, Transaction
<1>5. CASE OptionShare(t)
  <2>1. tx' = [tx EXCEPT ![t].pc = "commit"] /\ UNCHANGED copy /\ At(t, "option", "share")
    BY <1>0, <1>5 DEF OptionShare, Goto, Stored
  <2> QED
    BY <1>0, <2>1 DEF KeysAreOwn, Adding, At, Taken, Transaction
<1>6. ASSUME NEW s \in Sessions, tx'[s] = Idle
      PROVE  ~At(s, "option", "insert")' /\ ~Adding(s)'
  BY <1>6 DEF Idle, At, Adding
<1>7. CASE Quiet(t) /\ Stored
  <2>1. CASE \/ Begin(t) \/ EditLock(t) \/ RescheduleSelect(t)
             \/ OptionValidate(t) /\ tx'[t] # Idle
    <3>1. /\ \A u \in Sessions \ {t} : tx'[u] = tx[u]
          /\ ~At(t, "option", "insert")' /\ ~Adding(t)'
      <4>1. CASE Begin(t)
        <5>1. /\ \A u \in Sessions \ {t} : tx'[u] = tx[u]
              /\ tx'[t].pc \in {"lock", "event", "validate", "update"}
          <6>1. PICK pc \in {"lock", "event", "validate", "update"}, op \in Ops :
                  tx' = [tx EXCEPT ![t].op = op, ![t].pc = pc]
            BY <4>1 DEF Begin
          <6> QED
            BY <1>0, <6>1 DEF Transaction
        <5> QED
          BY <5>1 DEF At, Adding
      <4>2. CASE EditLock(t)
        BY <1>0, <4>2 DEF EditLock, Goto, At, Adding, Transaction
      <4>3. CASE RescheduleSelect(t)
        BY <1>0, <4>3 DEF RescheduleSelect, At, Adding, Transaction
      <4>4. CASE OptionValidate(t) /\ tx'[t] # Idle
        BY <1>0, <4>4 DEF OptionValidate, Goto, End, At, Adding, Transaction
      <4> QED
        BY <2>1, <4>1, <4>2, <4>3, <4>4
    <3> QED
      BY <1>2, <1>7, <3>1
  <2>2. ASSUME NEW s \in Sessions, tx' = [tx EXCEPT ![s] = Idle] PROVE KeysAreOwn'
    BY <1>0, <1>2, <1>6, <1>7, <2>2
  <2>3. CASE Abandon(t) \/ EditRefuse(t) \/ Show(t) \/ BreakDeadlock(t)
    BY <2>2, <2>3 DEF Abandon, EditRefuse, Show, BreakDeadlock, InTheWay, End
  <2>4. CASE (OptionValidate(t) \/ OptionKey(t) \/ OptionInsert(t)) /\ tx'[t] = Idle
    <3>1. tx' = [tx EXCEPT ![t] = Idle]
      BY <1>0, <2>4 DEF OptionValidate, OptionKey, OptionInsert, End, Goto, Transaction, Idle
    <3> QED
      BY <2>2, <3>1
  <2> QED
    BY <1>3, <1>4, <1>5, <1>7, <2>1, <2>3, <2>4 DEF Quiet
<1>8. CASE Learning(t) /\ Stored
  <2>1. \A u \in Sessions \ {t} : tx'[u] = tx[u]
    BY <1>8, LearningStep DEF IInv
  <2>2. ~At(t, "option", "insert")' /\ ~Adding(t)'
    BY <1>0, <1>8 DEF Learning, EditRead, ApplyLockEvent, ReadLock, ReadOptions,
       ReadQualifications, ReadGroups, ReadMappings, ApplyCheck, End, Goto, Idle, Transaction, At,
       Adding, Edits, Reads
  <2> QED
    BY <1>2, <1>8, <2>1, <2>2
<1>9. CASE Writing(t)
  <2>1. \A u \in Sessions \ {t} : tx'[u] = tx[u]
    BY <1>0, <1>9, WritingStep
  <2>2. ~At(t, "option", "insert")' /\ ~Adding(t)'
    <3>1. End(t) \/ Goto(t, "select")
      BY <1>9, Zenon DEF Writing, EditWrites, SetActive, AddOption, EditOption,
         ReplaceQualifications, SetOptionActive, AddGroup, EditGroup, ReplaceGroupOptions,
         SetGroupActive, Write, ApplyInsert, OptionCommit, Move, Reschedule, Cancel
    <3> QED
      BY <1>0, <3>1 DEF End, Goto, Idle, Transaction, At, Adding
  <2> SUFFICES ASSUME NEW u \in Sessions \ {t}, Adding(u), NEW k \in tx[u].key
               PROVE  copy'.options[k] = copy.options[k]
    <3>1. \A u \in Sessions \ {t} : Adding(u) => \A k \in tx[u].key : ~Taken(k)'
      BY <1>0 DEF KeysAreOwn, Taken
    <3> QED
      BY <1>1, <2>1, <2>2, <3>1
  <2>3. k \in Keys /\ tx[u].key = {k}
    BY <1>0 DEF KeysAreOwn
  <2>4. CASE ApplyInsert(t)
    <3>1. k \notin ActiveOptions(tx[t].seen)
      BY <2>3, <2>4 DEF ApplyInsert, InTheWay, Adding
    <3>2. CopyOf(tx[t].seen, tx[t].starts).options[k] = copy.options[k]
      BY <1>0, <2>3, <3>1, CopyOptions
    <3> QED
      BY <2>4, <3>2 DEF ApplyInsert
  <2>5. CASE OptionCommit(t)
    <3>1. k \notin tx[t].key
      BY <1>0, <2>3, <2>5 DEF OptionCommit, KeysAreOwn, Adding, At
    <3> QED
      BY <1>0, <2>3, <2>5, <3>1 DEF OptionCommit, Copy
  <2>6. CASE EditWrites(t) \/ Move(t) \/ Cancel(t)
    BY <2>6, Zenon DEF EditWrites, SetActive, AddOption, EditOption,
         ReplaceQualifications, SetOptionActive, AddGroup, EditGroup, ReplaceGroupOptions,
         SetGroupActive, Write, Move, Cancel
  <2>7. CASE Reschedule(t)
    BY <1>0, <2>7 DEF Reschedule, Copy
  <2> QED
    BY <1>9, <2>4, <2>5, <2>6, <2>7 DEF Writing
<1> QED
  BY <1>7, <1>8, <1>9, StepKinds

\* Who changes what the event owns.
LEMMA CopyWriters ==
  ASSUME TypeOK, NEW t \in Sessions, Begin(t) \/ Abandon(t) \/ Step(t)
  PROVE  \/ UNCHANGED copy
         \/ /\ At(t, "apply", "insert") /\ copy' = CopyOf(tx[t].seen, tx[t].starts)
            /\ ApplyInsert(t)
         \/ OptionCommit(t)
         \/ Reschedule(t)
<1>1. CASE ApplyInsert(t)
  BY <1>1, Zenon DEF ApplyInsert
<1>2. CASE Move(t) \/ Cancel(t)
  BY <1>2, Zenon DEF Move, Cancel
<1>3. CASE EditWrites(t)
  BY <1>3, Zenon DEF EditWrites, SetActive, AddOption, EditOption, ReplaceQualifications,
     SetOptionActive, AddGroup, EditGroup, ReplaceGroupOptions, SetGroupActive, Write
<1> QED
  BY <1>1, <1>2, <1>3, StepKinds, Zenon DEF Stored, Writing

\* Nothing turns signups off.
LEMMA SignupsStay ==
  ASSUME TypeOK, NEW t \in Sessions, Begin(t) \/ Abandon(t) \/ Step(t)
  PROVE  event'.signups = event.signups
<1>1. CASE Move(t)
  BY <1>1 DEF Move, TypeOK, Event
<1>2. CASE Cancel(t)
  BY <1>2 DEF Cancel, TypeOK, Event
<1>3. CASE UNCHANGED event
  BY <1>3
<1>4. CASE EditWrites(t)
  BY <1>4, Zenon DEF EditWrites, SetActive, AddOption, EditOption, ReplaceQualifications,
     SetOptionActive, AddGroup, EditGroup, ReplaceGroupOptions, SetGroupActive, Write
<1>5. CASE ApplyInsert(t) \/ OptionCommit(t) \/ Reschedule(t)
  BY <1>5, Zenon DEF ApplyInsert, OptionCommit, Reschedule
<1> QED
  BY <1>1, <1>2, <1>3, <1>4, <1>5, StepKinds, Zenon DEF Stored, Writing

\* What a rescheduling does to a group.
LEMMA Rescheduled ==
  ASSUME TypeOK, NEW t \in Sessions, Reschedule(t), NEW g \in Groups
  PROVE  /\ copy'.options = copy.options
         /\ copy'.groups[g].kept = copy.groups[g].kept
         /\ copy'.groups[g].opens = copy.groups[g].opens
         /\ copy'.groups[g].closes = copy.groups[g].closes
         /\ copy'.groups[g].signup = copy.groups[g].signup
         /\ copy'.groups[g].options = copy.groups[g].options
         /\ g \in tx[t].todo =>
              /\ copy'.groups[g].opensAt = event.starts - copy.groups[g].opens
              /\ copy'.groups[g].closesAt = event.starts - copy.groups[g].closes
         /\ g \notin tx[t].todo => copy'.groups[g] = copy.groups[g]
<1>1. copy \in Copy /\ copy.groups[g] \in EventGroup
  BY DEF TypeOK, Copy
<1> DEFINE after == [copy.groups[g] EXCEPT !.opensAt = event.starts - copy.groups[g].opens,
                                           !.closesAt = event.starts - copy.groups[g].closes]
<1>2. /\ copy'.options = copy.options
      /\ copy'.groups[g] = IF g \in tx[t].todo THEN after ELSE copy.groups[g]
  BY <1>1 DEF Reschedule, Copy
<1>3. /\ after.kept = copy.groups[g].kept /\ after.opens = copy.groups[g].opens
      /\ after.closes = copy.groups[g].closes /\ after.signup = copy.groups[g].signup
      /\ after.options = copy.groups[g].options
      /\ after.opensAt = event.starts - copy.groups[g].opens
      /\ after.closesAt = event.starts - copy.groups[g].closes
  BY <1>1 DEF EventGroup
<1> HIDE DEF after
<1> QED
  BY <1>2, <1>3

\* What an application knew when it inserted.
LEMMA Applied ==
  ASSUME IInv, NEW t \in Sessions, At(t, "apply", "insert")
  PROVE  /\ tx[t].seen \in Preset /\ copy \in Copy
         /\ tx[t].starts \in Int /\ tx[t].starts = event.starts
         /\ Applicable(tx[t].seen) /\ \A k \in ActiveOptions(tx[t].seen) : ~Taken(k)
<1>1. OwnsEvent(t)
  BY DEF At, OwnsEvent, Reading
<1>2. Current(t) /\ TypeOK
  BY DEF IInv
<1> QED
  BY <1>1, <1>2 DEF Current, StartIsCurrent, CheckIsCurrent, OwnsEvent, At, TypeOK, Transaction

LEMMA WindowsStep ==
  ASSUME IInv, NEW t \in Sessions, Begin(t) \/ Abandon(t) \/ Step(t)
  PROVE  WindowsAreOrdered'
<1>0. TypeOK /\ WindowsAreOrdered
  BY DEF IInv
<1> SUFFICES ASSUME NEW g \in Groups, copy'.groups[g].kept
             PROVE  /\ copy'.groups[g].opens > copy'.groups[g].closes
                    /\ copy'.groups[g].opensAt + copy'.groups[g].opens
                         = copy'.groups[g].closesAt + copy'.groups[g].closes
  BY DEF WindowsAreOrdered
<1>1. CASE UNCHANGED copy
  BY <1>0, <1>1 DEF WindowsAreOrdered
<1>2. CASE At(t, "apply", "insert") /\ copy' = CopyOf(tx[t].seen, tx[t].starts)
  <2>1. CASE g \in ActiveGroups(tx[t].seen)
    <3>1. tx[t].seen.groups[g].opens > tx[t].seen.groups[g].closes
      BY <1>2, <2>1, Applied DEF Applicable, CompleteGroup
    <3>2. /\ copy'.groups[g].opens = tx[t].seen.groups[g].opens
          /\ copy'.groups[g].closes = tx[t].seen.groups[g].closes
          /\ copy'.groups[g].opensAt = tx[t].starts - tx[t].seen.groups[g].opens
          /\ copy'.groups[g].closesAt = tx[t].starts - tx[t].seen.groups[g].closes
      <4>1. copy'.groups[g] =
              [kept |-> TRUE, opens |-> tx[t].seen.groups[g].opens,
               closes |-> tx[t].seen.groups[g].closes,
               opensAt |-> tx[t].starts - tx[t].seen.groups[g].opens,
               closesAt |-> tx[t].starts - tx[t].seen.groups[g].closes,
               signup |-> tx[t].seen.groups[g].signup, options |-> Mapped(tx[t].seen, g)]
        BY <1>2, <2>1, Applied, CopyGroups, Zenon
      <4> QED
        BY <4>1
    <3>3. /\ tx[t].starts \in Int /\ tx[t].seen.groups[g].opens \in Int
          /\ tx[t].seen.groups[g].closes \in Int
      BY <1>2, Applied DEF Preset, Group
    <3> QED
      BY <3>1, <3>2, <3>3
  <2>2. CASE g \notin ActiveGroups(tx[t].seen)
    <3>1. copy'.groups[g] = copy.groups[g]
      BY <1>2, <2>2, Applied, CopyGroups, Zenon
    <3> QED
      BY <1>0, <3>1 DEF WindowsAreOrdered
  <2> QED
    BY <2>1, <2>2
<1>3. CASE OptionCommit(t)
  BY <1>0, <1>3 DEF OptionCommit, WindowsAreOrdered, TypeOK, Copy
<1>4. CASE Reschedule(t)
  <2>1. /\ event.starts \in Int
        /\ copy.groups[g].opens \in Int /\ copy.groups[g].closes \in Int
    BY <1>0 DEF TypeOK, Event, Copy, EventGroup
  <2> QED
    BY <1>0, <1>4, <2>1, Rescheduled DEF WindowsAreOrdered
<1> QED
  BY <1>0, <1>1, <1>2, <1>3, <1>4, CopyWriters

LEMMA CopyStep ==
  ASSUME IInv, NEW t \in Sessions, Begin(t) \/ Abandon(t) \/ Step(t)
  PROVE  CopyIsUsable'
<1>0. /\ TypeOK /\ KeysAreOwn /\ WindowsAreOrdered /\ tx[t] \in Transaction /\ copy \in Copy
      /\ \A k \in Keys : copy.options[k].restricted => copy.options[k].qualified
  BY DEF IInv, TypeOK, CopyIsUsable
<1>1. \A g \in Groups : copy.groups[g].kept =>
         /\ copy.groups[g].opensAt < copy.groups[g].closesAt
         /\ copy.groups[g].options # {}
         /\ \A k \in copy.groups[g].options : copy.options[k].from = "preset"
         /\ copy.groups[g].signup => event.signups
  BY DEF IInv, CopyIsUsable
<1>2. event'.signups = event.signups
  BY <1>0, SignupsStay
<1>3. \A g \in Groups : copy.groups[g] \in EventGroup
  BY <1>0 DEF Copy
<1>4. CASE UNCHANGED copy
  BY <1>0, <1>1, <1>2, <1>4, Zenon DEF CopyIsUsable
<1>5. CASE At(t, "apply", "insert") /\ copy' = CopyOf(tx[t].seen, tx[t].starts)
  <2> DEFINE d == tx[t].seen
  <2>1. /\ d \in Preset /\ tx[t].starts \in Int /\ Applicable(d)
    BY <1>5, Applied
  <2>2. ASSUME NEW k \in Keys PROVE copy'.options[k].restricted => copy'.options[k].qualified
    <3>1. CASE k \in ActiveOptions(d)
      <4>1. copy'.options[k] = [from |-> "preset", restricted |-> d.options[k].restricted,
                                qualified |-> d.options[k].qualified]
        BY <1>0, <1>5, <2>1, <3>1, CopyOptions, Zenon
      <4>2. /\ copy'.options[k].restricted = d.options[k].restricted
            /\ copy'.options[k].qualified = d.options[k].qualified
        BY <4>1
      <4>3. d.options[k].restricted => d.options[k].qualified
        BY <2>1, <3>1, Zenon DEF Applicable
      <4> QED
        BY <4>2, <4>3, Zenon
    <3>2. CASE k \notin ActiveOptions(d)
      <4>1. copy'.options[k] = copy.options[k]
        BY <1>0, <1>5, <2>1, <3>2, CopyOptions, Zenon
      <4> QED
        BY <1>0, <4>1, Zenon
    <3> QED
      BY <3>1, <3>2
  <2>3. \A k \in Keys : k \in ActiveOptions(d) \/ copy.options[k].from = "preset"
                          => copy'.options[k].from = "preset"
    <3>1. ASSUME NEW k \in Keys, k \in ActiveOptions(d) PROVE copy'.options[k].from = "preset"
      <4>1. copy'.options[k] = [from |-> "preset", restricted |-> d.options[k].restricted,
                                qualified |-> d.options[k].qualified]
        BY <1>0, <1>5, <2>1, <3>1, CopyOptions, Zenon
      <4> QED
        BY <4>1
    <3>2. ASSUME NEW k \in Keys, k \notin ActiveOptions(d) PROVE copy'.options[k] = copy.options[k]
      BY <1>0, <1>5, <2>1, <3>2, CopyOptions, Zenon
    <3> QED
      BY <3>1, <3>2
  <2>4. ASSUME NEW g \in Groups, copy'.groups[g].kept
        PROVE  /\ copy'.groups[g].opensAt < copy'.groups[g].closesAt
               /\ copy'.groups[g].options # {}
               /\ \A k \in copy'.groups[g].options : copy'.options[k].from = "preset"
               /\ copy'.groups[g].signup => event'.signups
    <3>1. CASE g \in ActiveGroups(d)
      <4>1. copy'.groups[g] =
              [kept |-> TRUE, opens |-> d.groups[g].opens, closes |-> d.groups[g].closes,
               opensAt |-> tx[t].starts - d.groups[g].opens,
               closesAt |-> tx[t].starts - d.groups[g].closes,
               signup |-> d.groups[g].signup, options |-> Mapped(d, g)]
        BY <1>0, <1>5, <2>1, <3>1, CopyGroups, Zenon
      <4>2. /\ copy'.groups[g].opensAt = tx[t].starts - d.groups[g].opens
            /\ copy'.groups[g].closesAt = tx[t].starts - d.groups[g].closes
            /\ copy'.groups[g].options = Mapped(d, g)
            /\ copy'.groups[g].signup = d.groups[g].signup
        BY <4>1
      <4>3. /\ Mapped(d, g) # {} /\ d.groups[g].opens > d.groups[g].closes
            /\ d.groups[g].opens \in Int /\ d.groups[g].closes \in Int
        BY <2>1, <3>1 DEF Applicable, CompleteGroup, Preset, Group
      <4>4. d.groups[g].signup => event.signups
        BY <2>1, <3>1, Zenon DEF Applicable
      <4>5. copy'.groups[g].opensAt < copy'.groups[g].closesAt
        BY <2>1, <4>2, <4>3
      <4>6. \A k \in Mapped(d, g) : k \in Keys /\ k \in ActiveOptions(d)
        BY DEF Mapped, ActiveOptions
      <4>7. copy'.groups[g].signup => event'.signups
        BY <1>2, <4>2, <4>4, Zenon
      <4>8. \A k \in copy'.groups[g].options : copy'.options[k].from = "preset"
        BY <2>3, <4>2, <4>6, Zenon
      <4> QED
        BY <4>2, <4>3, <4>5, <4>7, <4>8, Zenon
    <3>2. CASE g \notin ActiveGroups(d)
      <4>1. copy'.groups[g] = copy.groups[g]
        BY <1>0, <1>5, <2>1, <3>2, CopyGroups, Zenon
      <4>2. \A k \in copy.groups[g].options : k \in Keys
        BY <1>3 DEF EventGroup
      <4> QED
        BY <1>1, <1>2, <2>3, <2>4, <4>1, <4>2, Zenon
    <3> QED
      BY <3>1, <3>2
  <2> QED
    BY <2>2, <2>4, Zenon DEF CopyIsUsable
<1>6. CASE OptionCommit(t)
  <2>1. PICK restricted, qualified \in BOOLEAN :
          /\ restricted => qualified
          /\ copy' = [copy EXCEPT !.options = [k \in Keys |->
                IF k \in tx[t].key
                THEN [from |-> "command", restricted |-> restricted, qualified |-> qualified]
                ELSE copy.options[k]]]
    BY <1>6 DEF OptionCommit
  <2> DEFINE new == [from |-> "command", restricted |-> restricted, qualified |-> qualified]
  <2>2. /\ \A k \in Keys : copy'.options[k] = IF k \in tx[t].key THEN new ELSE copy.options[k]
        /\ copy'.groups = copy.groups
    BY <1>0, <2>1 DEF Copy
  <2>3. new.restricted = restricted /\ new.qualified = qualified
    OBVIOUS
  <2>4. restricted => qualified
    BY <2>1, Zenon
  <2>5. new.restricted => new.qualified
    BY <2>3, <2>4, Zenon
  <2>6. \A k \in tx[t].key : copy.options[k].from = "none"
    BY <1>0, <1>6 DEF OptionCommit, KeysAreOwn, Adding, At, Taken
  <2>7. \A g \in Groups : \A k \in copy.groups[g].options : k \in Keys
    BY <1>3 DEF EventGroup
  <2>8. ASSUME NEW k \in Keys, copy.options[k].from = "preset"
        PROVE  copy'.options[k].from = "preset"
    BY <2>2, <2>6, <2>8
  <2> HIDE DEF new
  <2>9. ASSUME NEW k \in Keys PROVE copy'.options[k].restricted => copy'.options[k].qualified
    <3>1. copy'.options[k] = new \/ copy'.options[k] = copy.options[k]
      BY <2>2
    <3> QED
      BY <1>0, <2>5, <3>1, Zenon
  <2> QED
    BY <1>1, <1>2, <2>2, <2>7, <2>8, <2>9, Zenon DEF CopyIsUsable
<1>7. CASE Reschedule(t)
  <2>1. ASSUME NEW g \in Groups, copy.groups[g].kept
        PROVE  copy'.groups[g].opensAt < copy'.groups[g].closesAt
    <3>1. /\ copy.groups[g].opens > copy.groups[g].closes /\ event.starts \in Int
          /\ copy.groups[g].opens \in Int /\ copy.groups[g].closes \in Int
      BY <1>0, <1>3, <2>1 DEF WindowsAreOrdered, TypeOK, Event, EventGroup
    <3>2. CASE g \in tx[t].todo
      <4>1. /\ copy'.groups[g].opensAt = event.starts - copy.groups[g].opens
            /\ copy'.groups[g].closesAt = event.starts - copy.groups[g].closes
        BY <1>0, <1>7, <3>2, Rescheduled
      <4> QED
        BY <3>1, <4>1
    <3>3. CASE g \notin tx[t].todo
      <4>1. copy'.groups[g] = copy.groups[g]
        BY <1>0, <1>7, <3>3, Rescheduled
      <4> QED
        BY <1>1, <2>1, <4>1
    <3> QED
      BY <3>2, <3>3
  <2>2. \A g \in Groups : /\ copy'.options = copy.options
                           /\ copy'.groups[g].kept = copy.groups[g].kept
                           /\ copy'.groups[g].signup = copy.groups[g].signup
                           /\ copy'.groups[g].options = copy.groups[g].options
    BY <1>0, <1>7, Rescheduled
  <2>3. copy'.options = copy.options
    BY <1>0, <1>7 DEF Reschedule, Copy
  <2> QED
    BY <1>0, <1>1, <1>2, <2>1, <2>2, <2>3, Zenon DEF CopyIsUsable
<1> QED
  BY <1>0, <1>4, <1>5, <1>6, <1>7, CopyWriters

LEMMA AppliedStep ==
  ASSUME IInv, NEW t \in Sessions, Begin(t) \/ Abandon(t) \/ Step(t)
  PROVE  GroupsComeApplied'
<1>0. TypeOK /\ GroupsComeApplied /\ copy \in Copy
  BY DEF IInv, TypeOK
<1>1. CASE UNCHANGED copy
  BY <1>0, <1>1, Zenon DEF GroupsComeApplied
<1>2. CASE copy' = CopyOf(tx[t].seen, tx[t].starts)
  <2>1. copy'.applied = TRUE
    BY <1>2 DEF CopyOf
  <2> QED
    BY <2>1, Zenon DEF GroupsComeApplied
<1>3. CASE OptionCommit(t)
  <2>1. copy'.applied = copy.applied /\ copy'.groups = copy.groups
    BY <1>0, <1>3 DEF OptionCommit, Copy
  <2> QED
    BY <1>0, <2>1, Zenon DEF GroupsComeApplied
<1>4. CASE Reschedule(t)
  <2>1. copy'.applied = copy.applied
    BY <1>0, <1>4 DEF Reschedule, Copy
  <2>2. \A g \in Groups : copy'.groups[g].kept = copy.groups[g].kept
    BY <1>0, <1>4, Rescheduled
  <2> QED
    BY <1>0, <2>1, <2>2, Zenon DEF GroupsComeApplied
<1> QED
  BY <1>0, <1>1, <1>2, <1>3, <1>4, CopyWriters

\* Whoever has groups to move does nothing else.
Moving(t) == tx[t].op = "move" /\ tx[t].pc \in {"select", "reschedule"}

LEMMA MoversMove ==
  ASSUME TypeOK, NEW t \in Sessions, Begin(t) \/ Abandon(t) \/ Step(t),
         ~RescheduleSelect(t), ~Reschedule(t), ~(Abandon(t) /\ Moving(t))
  PROVE  \A s \in Sessions : Moving(s) => tx'[s] = tx[s]
<1>0. tx \in [Sessions -> Transaction]
  BY DEF TypeOK
<1>1. ASSUME NEW s \in Sessions, ~Moving(s), \A u \in Sessions \ {s} : tx'[u] = tx[u]
      PROVE  \A u \in Sessions : Moving(u) => tx'[u] = tx[u]
  BY <1>1
<1>2. CASE Quiet(t) /\ Stored
  <2>1. CASE BreakDeadlock(t)
    <3>1. PICK s \in Sessions : tx' = [tx EXCEPT ![s] = Idle] /\ tx[s].op \in {"apply", "option"}
      BY <2>1 DEF BreakDeadlock, InTheWay, End, At
    <3> QED
      BY <1>0, <1>1, <3>1 DEF Moving
  <2>2. CASE ~BreakDeadlock(t)
    <3>1. ~Moving(t)
      BY <1>2, <2>2 DEF Quiet, Begin, EditLock, EditRefuse, Show, OptionValidate,
         OptionKey, OptionInsert, OptionShare, At, Moving, Edits
    <3>2. \A u \in Sessions \ {t} : tx'[u] = tx[u]
      BY <1>0, <1>2, <2>2 DEF Quiet, Begin, Abandon, EditLock, EditRefuse, Show, OptionValidate,
         OptionKey, OptionInsert, OptionShare, RescheduleSelect, End, Goto
    <3> QED
      BY <1>1, <3>1, <3>2
  <2> QED
    BY <2>1, <2>2
<1>3. CASE Learning(t) /\ Stored
  <2>1. ~Moving(t)
    BY <1>3 DEF Learning, EditRead, ApplyLockEvent, ReadLock, ReadOptions, ReadQualifications,
       ReadGroups, ReadMappings, ApplyCheck, At, Moving, Edits, Reads
  <2>2. \A u \in Sessions \ {t} : tx'[u] = tx[u]
    BY <1>0, <1>3 DEF Learning, EditRead, ApplyLockEvent, ReadLock, ReadOptions,
       ReadQualifications, ReadGroups, ReadMappings, ApplyCheck, End, Goto
  <2> QED
    BY <1>1, <2>1, <2>2
<1>4. CASE Writing(t)
  <2>1. ~Moving(t)
    BY <1>4 DEF Writing, EditWrites, SetActive, AddOption, EditOption, ReplaceQualifications,
       SetOptionActive, AddGroup, EditGroup, ReplaceGroupOptions, SetGroupActive, Write,
       ApplyInsert, OptionCommit, Move, Cancel, At, Moving, Edits
  <2> QED
    BY <1>1, <1>4, <2>1, WritingStep
<1> QED
  BY <1>2, <1>3, <1>4, StepKinds

LEMMA ListsStay ==
  ASSUME TypeOK, NEW t \in Sessions, Begin(t) \/ Abandon(t) \/ Step(t),
         ~RescheduleSelect(t), ~Reschedule(t), ~(Abandon(t) /\ Moving(t)),
         NEW g \in Groups, OnTheList(g)
  PROVE  OnTheList(g)'
<1>1. PICK s \in Sessions :
        At(s, "move", "select") \/ (At(s, "move", "reschedule") /\ g \in tx[s].todo)
  BY DEF OnTheList
<1>2. tx'[s] = tx[s]
  BY <1>1, MoversMove DEF Moving, At
<1> QED
  BY <1>1, <1>2 DEF OnTheList, At

\* Nobody but a completed move repairs what a lost one left behind.
LEMMA TornStays ==
  ASSUME TypeOK, NEW t \in Sessions, Begin(t) \/ Abandon(t) \/ Step(t), ~Reschedule(t)
  PROVE  torn \subseteq torn'
<1>1. CASE Abandon(t)
  BY <1>1 DEF Abandon
<1>2. CASE Begin(t)
  BY <1>2, Zenon DEF Begin
<1>3. CASE Administer(t)
  BY <1>3, Zenon DEF Administer, EditLock, EditRead, EditRefuse, SetActive, AddOption, EditOption,
     ReplaceQualifications, SetOptionActive, AddGroup, EditGroup, ReplaceGroupOptions,
     SetGroupActive, Write, Counted
<1>4. CASE Apply(t)
  BY <1>4, Zenon DEF Apply, ApplyLockEvent, ReadLock, ReadOptions, ReadQualifications, ReadGroups,
     ReadMappings, Show, ApplyCheck, ApplyInsert, Counted
<1>5. CASE /\ Step(t) /\ ~Administer(t) /\ ~Apply(t)
  BY <1>5, Zenon DEF Step, OptionValidate, OptionKey, OptionInsert, OptionShare, OptionCommit,
     BreakDeadlock, Move, RescheduleSelect, Cancel, Counted
<1> QED
  BY <1>1, <1>2, <1>3, <1>4, <1>5

LEMMA LateStep ==
  ASSUME IInv, NEW t \in Sessions, Begin(t) \/ Abandon(t) \/ Step(t)
  PROVE  LateGroupsAreListed'
<1>0. /\ TypeOK /\ LateGroupsAreListed /\ tx \in [Sessions -> Transaction]
      /\ tx[t] \in Transaction /\ copy \in Copy /\ event \in Event
  BY DEF IInv, TypeOK
<1> SUFFICES ASSUME NEW g \in Groups, copy'.groups[g].kept
             PROVE  FollowsStart(g)' \/ OnTheList(g)' \/ g \in torn'
  BY DEF LateGroupsAreListed
<1>1. CASE RescheduleSelect(t)
  <2>1. /\ At(t, "move", "select") /\ UNCHANGED copy
        /\ tx' = [tx EXCEPT ![t].pc = "reschedule",
                            ![t].todo = {i \in Groups : copy.groups[i].kept}]
    BY <1>1 DEF RescheduleSelect, Stored
  <2>2. At(t, "move", "reschedule")' /\ g \in tx'[t].todo
    BY <1>0, <2>1 DEF At, Transaction
  <2> QED
    BY <2>2 DEF OnTheList
<1>2. CASE Reschedule(t)
  <2>1. UNCHANGED event /\ tx' = [tx EXCEPT ![t] = Idle] /\ At(t, "move", "reschedule")
    BY <1>2 DEF Reschedule, End
  <2>2. CASE g \in tx[t].todo
    BY <1>0, <1>2, <2>1, <2>2, Rescheduled DEF FollowsStart
  <2>3. CASE g \notin tx[t].todo
    <3>1. copy'.groups[g] = copy.groups[g]
      BY <1>0, <1>2, <2>3, Rescheduled
    <3>2. CASE FollowsStart(g)
      BY <2>1, <3>1, <3>2 DEF FollowsStart
    <3>3. CASE OnTheList(g)
      <4>1. PICK s \in Sessions :
              At(s, "move", "select") \/ (At(s, "move", "reschedule") /\ g \in tx[s].todo)
        BY <3>3 DEF OnTheList
      <4>2. s # t
        BY <2>1, <2>3, <4>1 DEF At
      <4>3. tx'[s] = tx[s]
        BY <1>0, <2>1, <4>2
      <4> QED
        BY <4>1, <4>3 DEF OnTheList, At
    <3>4. CASE g \in torn
      BY <1>2, <2>3, <3>4 DEF Reschedule
    <3> QED
      BY <1>0, <3>1, <3>2, <3>3, <3>4 DEF LateGroupsAreListed
  <2> QED
    BY <2>2, <2>3
<1>7. CASE Abandon(t) /\ Moving(t)
  <2>1. UNCHANGED <<copy, event>> /\ tx' = [tx EXCEPT ![t] = Idle] /\ torn' = torn \cup Deserted(t)
    BY <1>7 DEF Abandon, Stored, End
  <2>2. CASE FollowsStart(g)
    BY <2>1, <2>2 DEF FollowsStart
  <2>3. CASE OnTheList(g) /\ ~FollowsStart(g)
    <3>1. PICK s \in Sessions :
            At(s, "move", "select") \/ (At(s, "move", "reschedule") /\ g \in tx[s].todo)
      BY <2>3 DEF OnTheList
    <3>2. CASE s = t
      BY <2>1, <2>3, <3>1, <3>2 DEF Deserted
    <3>3. CASE s # t
      <4>1. tx'[s] = tx[s]
        BY <1>0, <2>1, <3>3
      <4> QED
        BY <3>1, <4>1 DEF OnTheList, At
    <3> QED
      BY <3>2, <3>3
  <2> QED
    BY <1>0, <2>1, <2>2, <2>3 DEF LateGroupsAreListed
<1>3. ASSUME ~RescheduleSelect(t), ~Reschedule(t), ~(Abandon(t) /\ Moving(t)),
             copy'.groups[g] = copy.groups[g], event'.starts = event.starts
      PROVE  FollowsStart(g)' \/ OnTheList(g)' \/ g \in torn'
  <2>1. CASE FollowsStart(g)
    BY <1>3, <2>1 DEF FollowsStart
  <2>2. CASE OnTheList(g)
    BY <1>0, <1>3, <2>2, ListsStay
  <2>3. CASE g \in torn
    BY <1>0, <1>3, <2>3, TornStays
  <2> QED
    BY <1>0, <1>3, <2>1, <2>2, <2>3 DEF LateGroupsAreListed
<1>4. CASE Move(t) /\ ~event.ended
  <2>1. Goto(t, "select") /\ At(t, "move", "update")
    BY <1>4 DEF Move
  <2>2. At(t, "move", "select")'
    BY <1>0, <2>1 DEF Goto, At, Transaction
  <2> QED
    BY <2>2 DEF OnTheList
<1>5. CASE ApplyInsert(t) /\ copy' = CopyOf(tx[t].seen, tx[t].starts)
  <2>1. At(t, "apply", "insert") /\ UNCHANGED event
    BY <1>5 DEF ApplyInsert
  <2>2. CASE g \in ActiveGroups(tx[t].seen)
    <3>1. copy'.groups[g] =
            [kept |-> TRUE, opens |-> tx[t].seen.groups[g].opens,
             closes |-> tx[t].seen.groups[g].closes,
             opensAt |-> tx[t].starts - tx[t].seen.groups[g].opens,
             closesAt |-> tx[t].starts - tx[t].seen.groups[g].closes,
             signup |-> tx[t].seen.groups[g].signup, options |-> Mapped(tx[t].seen, g)]
      BY <1>5, <2>1, <2>2, Applied, CopyGroups, Zenon
    <3>2. tx[t].starts = event'.starts
      BY <2>1, Applied
    <3> QED
      BY <3>1, <3>2 DEF FollowsStart
  <2>3. CASE g \notin ActiveGroups(tx[t].seen)
    <3>1. copy'.groups[g] = copy.groups[g]
      BY <1>5, <2>1, <2>3, Applied, CopyGroups, Zenon
    <3>2. ~RescheduleSelect(t) /\ ~Reschedule(t) /\ ~Moving(t)
      BY <2>1 DEF RescheduleSelect, Reschedule, At, Moving
    <3> QED
      BY <1>3, <2>1, <3>1, <3>2
  <2> QED
    BY <2>2, <2>3
<1>6. ASSUME ~RescheduleSelect(t), ~Reschedule(t), ~(Move(t) /\ ~event.ended),
             ~(ApplyInsert(t) /\ copy' = CopyOf(tx[t].seen, tx[t].starts))
      PROVE  copy'.groups[g] = copy.groups[g] /\ event'.starts = event.starts
  <2>1. CASE Stored
    BY <2>1 DEF Stored
  <2>2. CASE EditWrites(t)
    <3>1. UNCHANGED <<event, copy>>
      BY <2>2, Zenon DEF EditWrites, SetActive, AddOption, EditOption, ReplaceQualifications,
         SetOptionActive, AddGroup, EditGroup, ReplaceGroupOptions, SetGroupActive, Write
    <3> QED
      BY <3>1
  <2>3. CASE ApplyInsert(t)
    BY <1>6, <2>3 DEF ApplyInsert
  <2>4. CASE OptionCommit(t)
    BY <1>0, <2>4 DEF OptionCommit, Copy
  <2>5. CASE Move(t)
    BY <1>6, <2>5 DEF Move
  <2>6. CASE Cancel(t)
    BY <1>0, <2>6 DEF Cancel, Event
  <2> QED
    BY <1>6, <2>1, <2>2, <2>3, <2>4, <2>5, <2>6, StepKinds DEF Writing
<1> QED
  BY <1>1, <1>2, <1>3, <1>4, <1>5, <1>6, <1>7

-----------------------------------------------------------------------------
(* The theorems.                                                           *)

LEMMA InitIInv == Init => IInv
<1> SUFFICES ASSUME Init PROVE IInv
  OBVIOUS
<1> USE NothingTyped DEF Init
<1>1. \A t \in Sessions : tx[t] = Idle
  OBVIOUS
<1>2. preset \in Preset /\ Usable(preset)
  <2>1. CASE preset \in Seeds
    BY <2>1, SeedsAssumption
  <2>2. CASE preset = Fresh
    <3>1. /\ \A k \in Keys : preset.options[k] = NoOption
          /\ \A g \in Groups : preset.groups[g] = NoGroup
      BY <2>2 DEF Fresh
    <3>2. NoOption.restricted = FALSE /\ NoGroup.state = "absent"
      BY DEF NoOption, NoGroup
    <3> QED
      BY <2>2, <3>1, <3>2 DEF Usable
  <2> QED
    BY <2>1, <2>2
<1>3. TypeOK
  <2>1. event \in Event
    <3>1. {FirstStart} \subseteq Int /\ {FALSE} \subseteq BOOLEAN
      BY DEF FirstStart
    <3> QED
      BY <3>1, Zenon DEF Event
  <2>2. tx \in [Sessions -> Transaction] /\ copy \in Copy
    OBVIOUS
  <2>3. issued \in 0 .. MaxOps /\ faults \in 0 .. MaxFaults
    OBVIOUS
  <2> QED
    BY <1>2, <2>1, <2>2, <2>3 DEF TypeOK
<1>4. DefinitionIsUsable
  BY <1>2 DEF DefinitionIsUsable
<1>5. LocksExclude
  BY <1>1 DEF LocksExclude, OwnsPreset, SharesPreset, OwnsEvent, RefersToEvent, At, Idle, Reading
<1>6. \A t \in Sessions : Current(t)
  BY <1>1 DEF Current, EditorIsCurrent, ReaderIsCurrent, StartIsCurrent, CheckIsCurrent, At, Idle,
     Edits, Reads
<1>7. KeysAreOwn
  BY <1>1 DEF KeysAreOwn, Adding, At, Idle
<1>8. CopyIsUsable /\ WindowsAreOrdered /\ LateGroupsAreListed
  BY DEF CopyIsUsable, WindowsAreOrdered, LateGroupsAreListed, NoCopy
<1>9. GroupsComeApplied
  <2>1. \A g \in Groups : copy.groups[g].kept = FALSE
    BY DEF NoCopy
  <2> QED
    BY <2>1, Zenon DEF GroupsComeApplied
<1> QED
  BY <1>3, <1>4, <1>5, <1>6, <1>7, <1>8, <1>9 DEF IInv

LEMMA StepIInv == IInv /\ [Next]_vars => IInv'
<1> SUFFICES ASSUME IInv, [Next]_vars PROVE IInv'
  OBVIOUS
<1>1. CASE Next
  <2>1. PICK t \in Sessions : Begin(t) \/ Abandon(t) \/ Step(t)
    BY <1>1 DEF Next
  <2> QED
    BY <2>1, TypeStep, DefinitionStep, LocksStep, CurrentStep, KeysStep, CopyStep, WindowsStep,
       LateStep, AppliedStep DEF IInv
<1>2. CASE UNCHANGED vars
  <2> USE <1>2 DEF vars, IInv
  <2>1. TypeOK' /\ DefinitionIsUsable'
    BY DEF TypeOK, DefinitionIsUsable, Usable, Present
  <2>2. LocksExclude'
    BY DEF LocksExclude, OwnsPreset, SharesPreset, OwnsEvent, RefersToEvent, At
  <2>3. ASSUME NEW u \in Sessions PROVE Current(u)'
    BY LockedIsCurrent
  <2>4. KeysAreOwn'
    BY DEF KeysAreOwn, Adding, At, Taken
  <2>5. CopyIsUsable' /\ WindowsAreOrdered' /\ GroupsComeApplied'
    BY Zenon DEF CopyIsUsable, WindowsAreOrdered, GroupsComeApplied
  <2>6. LateGroupsAreListed'
    BY DEF LateGroupsAreListed, OnTheList, FollowsStart, At
  <2> QED
    BY <2>1, <2>2, <2>3, <2>4, <2>5, <2>6
<1> QED
  BY <1>1, <1>2

LEMMA Invariant == Spec => []IInv
  BY InitIInv, StepIInv, PTL DEF Spec

\* Every variable keeps its type.
THEOREM TypeCorrect == Spec => []TypeOK
<1>1. IInv => TypeOK
  BY DEF IInv
<1> QED
  BY <1>1, Invariant, PTL

\* Four statements under FOR SHARE read one definition.
THEOREM SnapshotHolds == Spec => []ReadersSeeOneDefinition
<1>1. IInv => ReadersSeeOneDefinition
  <2> SUFFICES ASSUME IInv, NEW t \in Sessions, tx[t].op \in Reads,
                      tx[t].pc \in {"check", "insert"}
               PROVE  tx[t].seen = preset
    BY DEF ReadersSeeOneDefinition
  <2>1. /\ tx[t].seen.active = preset.active /\ tx[t].seen.options = preset.options
        /\ tx[t].seen.groups = preset.groups
    BY DEF IInv, Current, ReaderIsCurrent, Reading
  <2>2. tx[t].seen \in Preset /\ preset \in Preset
    BY DEF IInv, TypeOK, Transaction
  <2> QED
    BY <2>1, <2>2 DEF Preset
<1> QED
  BY <1>1, Invariant, PTL

\* Edits of administrators, each checked against what it has read under the lock
\* of the preset, leave a usable definition however they interleave, and what an
\* event got from it works by itself.
THEOREM UsabilityHolds == Spec => []AlwaysUsable
<1>1. IInv => AlwaysUsable
  BY DEF IInv, AlwaysUsable
<1> QED
  BY <1>1, Invariant, PTL

\* Between moves the groups of an event follow its start, those apart that a lost
\* move left behind and no move has repaired, and the times of every group come
\* from one start.
THEOREM GroupsHold == Spec => []GroupsFollowStart
<1>1. IInv => GroupsFollowStart
  BY DEF IInv, LateGroupsAreListed, WindowsAreOrdered, GroupsFollowStart, OnTheList, At
<1> QED
  BY <1>1, Invariant, PTL

\* The keys that an application found free stay free.
THEOREM KeysHold == Spec => []CheckedKeysStayFree
<1>1. IInv => CheckedKeysStayFree
  BY DEF IInv, Current, CheckIsCurrent, CheckedKeysStayFree
<1> QED
  BY <1>1, Invariant, PTL

\* The step in which an application commits.
LEMMA ApplicationStep ==
  ASSUME IInv, NEW t \in Sessions, Begin(t) \/ Abandon(t) \/ Step(t),
         copy'.applied, ~copy.applied
  PROVE  /\ preset.active /\ ~event.ended
         /\ \A g \in Groups : copy'.groups[g].kept <=> preset.groups[g].state = "active"
         /\ \A g \in ActiveGroups(preset) :
              /\ copy'.groups[g].opens = preset.groups[g].opens
              /\ copy'.groups[g].options = Mapped(preset, g)
<1>0. TypeOK /\ copy \in Copy /\ preset \in Preset
  BY DEF IInv, TypeOK
<1>1. ~OptionCommit(t) /\ ~Reschedule(t)
  <2>1. OptionCommit(t) => copy'.applied = copy.applied
    BY <1>0 DEF OptionCommit, Copy
  <2>2. Reschedule(t) => copy'.applied = copy.applied
    BY <1>0 DEF Reschedule, Copy
  <2> QED
    BY <2>1, <2>2, Zenon
<1>2. At(t, "apply", "insert") /\ copy' = CopyOf(tx[t].seen, tx[t].starts)
  BY <1>0, <1>1, CopyWriters, Zenon
<1>10. preset.active
  BY <1>2 DEF IInv, Current, ReaderIsCurrent, Reading, At, Reads
<1>3. tx[t].seen = preset
  <2>1. /\ tx[t].seen.active = preset.active /\ tx[t].seen.options = preset.options
        /\ tx[t].seen.groups = preset.groups
    BY <1>2 DEF IInv, Current, ReaderIsCurrent, Reading, At, Reads
  <2>2. tx[t].seen \in Preset
    BY <1>0 DEF TypeOK, Transaction
  <2> QED
    BY <1>0, <2>1, <2>2 DEF Preset
<1>4. ~event.ended
  BY <1>2 DEF IInv, Current, StartIsCurrent, At, OwnsEvent, Reading
<1>5. tx[t].starts \in Int
  BY <1>2, Applied
<1>6. ASSUME NEW g \in Groups, g \in ActiveGroups(preset)
      PROVE  /\ copy'.groups[g].kept = TRUE
             /\ copy'.groups[g].opens = preset.groups[g].opens
             /\ copy'.groups[g].options = Mapped(preset, g)
  <2>1. copy'.groups[g] =
          [kept |-> TRUE, opens |-> preset.groups[g].opens, closes |-> preset.groups[g].closes,
           opensAt |-> tx[t].starts - preset.groups[g].opens,
           closesAt |-> tx[t].starts - preset.groups[g].closes,
           signup |-> preset.groups[g].signup, options |-> Mapped(preset, g)]
    BY <1>0, <1>2, <1>3, <1>5, <1>6, CopyGroups, Zenon
  <2> QED
    BY <2>1
<1>7. ASSUME NEW g \in Groups, g \notin ActiveGroups(preset)
      PROVE  ~copy'.groups[g].kept
  <2>1. copy'.groups[g] = copy.groups[g]
    BY <1>0, <1>2, <1>3, <1>5, <1>7, CopyGroups, Zenon
  <2> QED
    BY <2>1, Zenon DEF IInv, GroupsComeApplied
<1>8. \A g \in Groups : copy'.groups[g].kept <=> preset.groups[g].state = "active"
  <2>1. \A g \in Groups : g \in ActiveGroups(preset) <=> preset.groups[g].state = "active"
    BY DEF ActiveGroups
  <2> QED
    BY <1>6, <1>7, <2>1, Zenon
<1>9. \A g \in ActiveGroups(preset) : g \in Groups
  BY DEF ActiveGroups
<1> QED
  BY <1>4, <1>6, <1>8, <1>9, <1>10, Zenon

\* A preset is applied once, while it is active, to an event that is not over,
\* whose groups become its active groups as they are then.
THEOREM ApplicationHolds == Spec => ApplicationIsCurrent
<1>1. IInv /\ [Next]_vars =>
        [copy'.applied /\ ~copy.applied
          => /\ preset.active /\ ~event.ended
             /\ \A g \in Groups : copy'.groups[g].kept <=> preset.groups[g].state = "active"
             /\ \A g \in ActiveGroups(preset) :
                  /\ copy'.groups[g].opens = preset.groups[g].opens
                  /\ copy'.groups[g].options = Mapped(preset, g)]_vars
  <2>1. ASSUME IInv, Next, copy'.applied, ~copy.applied
        PROVE  /\ preset.active /\ ~event.ended
               /\ \A g \in Groups : copy'.groups[g].kept <=> preset.groups[g].state = "active"
               /\ \A g \in ActiveGroups(preset) :
                    /\ copy'.groups[g].opens = preset.groups[g].opens
                    /\ copy'.groups[g].options = Mapped(preset, g)
    BY <2>1, ApplicationStep, Zenon DEF Next
  <2> QED
    BY <2>1
<1> QED
  BY <1>1, Invariant, PTL DEF Spec, ApplicationIsCurrent
=============================================================================
