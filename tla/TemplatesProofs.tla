-------------------------- MODULE TemplatesProofs --------------------------
(***************************************************************************)
(* The consistency of a template and of what is generated from it, for any *)
(* sessions, edits, child rows, slots and bounds; at the end, the sweeps   *)
(* of a recurring series.                                                  *)
(***************************************************************************)
EXTENDS Templates, Recurrence, SequenceTheorems, TLAPS

Fields == {"active", "roles", "preset", "time", "signups", "closes", "mode", "lead",
           "pings", "organisers", "reminders"}

-----------------------------------------------------------------------------
(* The inductive invariant: which locks exclude each other, and that what  *)
(* a session has read under a lock is what is still stored.                *)

Exclusive ==
  \A s, u \in Sessions : s # u =>
    /\ OwnsTemplate(s) => ~OwnsTemplate(u) /\ ~SharesTemplate(u)
    /\ OwnsSeries(s) => ~OwnsSeries(u)
    /\ OwnsSettings(s) => ~OwnsSettings(u) /\ ~SharesSettings(u)

\* What each edit has found in order so far, for the row it is going to write.
EditIsSound(s) ==
  LET x == tx[s] IN
  x.op = "edit" /\ x.pc \in {"series", "reminders", "relations", "write"} =>
    /\ Acceptable(x.seen)
    /\ \A c \in Fields : c \notin x.input => x.seen[c] = template[c]
    /\ x.pc # "series" => EditSuitsSeries(s)
    /\ x.pc \in {"relations", "write"} => EditSuitsReminders(s)
    /\ x.pc = "write" /\ {"roles", "preset"} \cap x.input # {} /\ x.seen.preset => x.seen.roles

\* The columns of the template, as any other holder of its lock has read them,
\* and the series that is going to be switched.
RowIsSeen(s) ==
  /\ (OwnsTemplate(s) /\ tx[s].op # "edit") \/ SharesTemplate(s)
       => \A c \in Columns : tx[s].seen[c] = template[c]
  /\ At(s, "setSeries", "write") => series # "none"

\* Where a generation starts from.
StartIsSound(s) ==
  LET x == tx[s] IN
  /\ x.op = "generate" \/ x.pc = "idle" => x.date = NoDate
  /\ At(s, "generate", "lock") =>
       x.start \in Times /\ x.rev \in 1 .. revision /\ (x.chosen \/ x.start = source[x.rev].time)
  /\ SharesTemplate(s) => x.rev = revision /\ (x.op = "slot" => x.date \in Dates)
  /\ SharesTemplate(s) /\ x.pc # "series" =>
       x.start \in Times /\ (x.chosen \/ x.start = template.time)

\* How far the draft of a generation is.
DraftIsSound(s) ==
  LET x == tx[s] IN
  x.op \in Generations /\ x.pc \in Drafting =>
    /\ x.pc # "settings" => x.snapshot = organisersEnabled
    /\ x.pc \notin {"settings", "pings"} => x.seen.pings = template.pings
    /\ x.pc \notin {"settings", "pings", "organisers"} => x.seen.organisers = template.organisers
    /\ x.pc \in {"insert", "apply", "slot", "commit"} => x.seen.reminders = template.reminders
    /\ x.pc = "apply" => x.wrote = {"event"} /\ x.seen.preset
    /\ x.pc \in {"slot", "commit"} => ("preset" \in x.wrote) = x.seen.preset
    /\ x.pc = "slot" => "slot" \notin x.wrote
    /\ x.pc = "commit" =>
         ("slot" \in x.wrote) = (x.op = "slot") /\ (x.op = "slot" => x.date \notin slots)

PublishesOwn(s) == At(s, "generate", "publish") => tx[s].event \in DOMAIN events

SessionOK(s) ==
  /\ EditIsSound(s) /\ RowIsSeen(s) /\ StartIsSound(s) /\ DraftIsSound(s) /\ PublishesOwn(s)

StoredOK ==
  /\ source[revision] = template
  /\ TemplateIsConsistent /\ GeneratedFromOneRevision /\ AllOrNothing /\ NoNomineesWhileDisabled

IInv == TypeOK /\ Seeds # {} /\ Exclusive /\ StoredOK /\ \A s \in Sessions : SessionOK(s)
-----------------------------------------------------------------------------
(* Rows.                                                                   *)

LEMMA TemplateFields == ASSUME NEW t \in Template PROVE t = [c \in Fields |-> t[c]]
BY DEF Template, Fields

LEMMA ColumnsAreFields == Columns \subseteq Fields
BY DEF Columns, Fields

\* Leaving the child rows out keeps the columns.
LEMMA ChildlessRow ==
  ASSUME NEW t \in Template
  PROVE  Childless(t) \in Template /\ \A c \in Columns : Childless(t)[c] = t[c]
<1>1. NoReminders \in [Reminders -> Kinds \cup {"none"}]
  BY DEF NoReminders
<1>2. Childless(t) \in Template
  BY <1>1 DEF Childless, Template
<1>3. ASSUME NEW c \in Columns PROVE Childless(t)[c] = t[c]
  BY DEF Childless, Template, Columns
<1> QED
  BY <1>2, <1>3

LEMMA IdleFits == ASSUME Seeds # {} PROVE Idle \in Transaction
<1>1. (CHOOSE t \in Seeds : TRUE) \in Seeds
  OBVIOUS
<1>2. Childless(CHOOSE t \in Seeds : TRUE) \in Template
  BY <1>1, SeedsAssumption, ChildlessRow
<1> QED
  BY <1>2 DEF Idle, Transaction

-----------------------------------------------------------------------------
(* A step of one session: what becomes of the locks and of the others.     *)

LEMMA LocksKept ==
  ASSUME Exclusive, NEW s \in Sessions, \A u \in Sessions \ {s} : tx'[u] = tx[u],
         OwnsTemplate(s)' => OwnsTemplate(s) \/ TemplateIsFree(s),
         SharesTemplate(s)' => SharesTemplate(s) \/ TemplateIsShared(s),
         OwnsSeries(s)' => OwnsSeries(s) \/ SeriesIsFree(s),
         OwnsSettings(s)' => OwnsSettings(s) \/ SettingsAreFree(s),
         SharesSettings(s)' => SharesSettings(s) \/ SettingsAreShared(s)
  PROVE  Exclusive'
<1>1. ASSUME NEW u \in Sessions \ {s}
      PROVE  /\ OwnsTemplate(u)' = OwnsTemplate(u) /\ SharesTemplate(u)' = SharesTemplate(u)
             /\ OwnsSeries(u)' = OwnsSeries(u) /\ OwnsSettings(u)' = OwnsSettings(u)
             /\ SharesSettings(u)' = SharesSettings(u)
  BY <1>1 DEF OwnsTemplate, SharesTemplate, OwnsSeries, OwnsSettings, SharesSettings, At
<1> QED
  BY <1>1 DEF Exclusive, TemplateIsFree, TemplateIsShared, SeriesIsFree, SettingsAreFree,
              SettingsAreShared, Others

\* A session that did not step keeps its facts while the rows stay.
LEMMA OthersKeep ==
  ASSUME NEW u \in Sessions, SessionOK(u), tx'[u] = tx[u], UNCHANGED stored
  PROVE  SessionOK(u)'
<1>0. /\ template' = template /\ revision' = revision /\ source' = source /\ slots' = slots
      /\ series' = series /\ organisersEnabled' = organisersEnabled /\ events' = events
  BY DEF stored
<1>1. EditIsSound(u)'
  BY <1>0 DEF SessionOK, EditIsSound, EditSuitsSeries, EditSuitsReminders
<1>2. RowIsSeen(u)'
  BY <1>0 DEF SessionOK, RowIsSeen, OwnsTemplate, SharesTemplate, At
<1>3. StartIsSound(u)'
  BY <1>0 DEF SessionOK, StartIsSound, SharesTemplate, At
<1>4. DraftIsSound(u)'
  BY <1>0 DEF SessionOK, DraftIsSound
<1>5. PublishesOwn(u)'
  BY <1>0 DEF SessionOK, PublishesOwn, At
<1> QED
  BY <1>1, <1>2, <1>3, <1>4, <1>5 DEF SessionOK

\* A step that writes nothing.
LEMMA QuietStep ==
  ASSUME IInv, NEW s \in Sessions, UNCHANGED stored,
         tx' \in [Sessions -> Transaction], \A u \in Sessions \ {s} : tx'[u] = tx[u],
         issued' \in Nat, faults' \in Nat, SessionOK(s)',
         OwnsTemplate(s)' => OwnsTemplate(s) \/ TemplateIsFree(s),
         SharesTemplate(s)' => SharesTemplate(s) \/ TemplateIsShared(s),
         OwnsSeries(s)' => OwnsSeries(s) \/ SeriesIsFree(s),
         OwnsSettings(s)' => OwnsSettings(s) \/ SettingsAreFree(s),
         SharesSettings(s)' => SharesSettings(s) \/ SettingsAreShared(s)
  PROVE  IInv'
<1>1. TypeOK'
  BY DEF IInv, TypeOK, stored
<1>2. Exclusive'
  BY LocksKept DEF IInv
<1>3. StoredOK'
  BY DEF IInv, stored, StoredOK, TemplateIsConsistent, Acceptable, ChildrenAreSound, Of,
         GeneratedFromOneRevision, Copies, AllOrNothing, NoNomineesWhileDisabled
<1>4. \A u \in Sessions : SessionOK(u)'
  BY OthersKeep DEF IInv
<1> QED
  BY <1>1, <1>2, <1>3, <1>4 DEF IInv

\* A session that has ended holds no lock and knows nothing.
LEMMA EndedHoldsNothing ==
  ASSUME NEW s \in Sessions, tx'[s] = Idle
  PROVE  /\ SessionOK(s)'
         /\ ~OwnsTemplate(s)' /\ ~SharesTemplate(s)' /\ ~OwnsSeries(s)'
         /\ ~OwnsSettings(s)' /\ ~SharesSettings(s)'
<1>1. tx'[s].op = "none" /\ tx'[s].pc = "idle" /\ tx'[s].date = NoDate
  BY DEF Idle
<1>2. /\ ~OwnsTemplate(s)' /\ ~SharesTemplate(s)' /\ ~OwnsSeries(s)'
      /\ ~OwnsSettings(s)' /\ ~SharesSettings(s)'
  BY <1>1 DEF OwnsTemplate, SharesTemplate, OwnsSeries, OwnsSettings, SharesSettings, At,
              Mutations, SeriesOps, Generations
<1>3. SessionOK(s)'
  BY <1>1, <1>2 DEF SessionOK, EditIsSound, RowIsSeen, StartIsSound, DraftIsSound,
                    PublishesOwn, At, Generations
<1> QED
  BY <1>2, <1>3

LEMMA EndFits ==
  ASSUME TypeOK, Seeds # {}, NEW s \in Sessions, End(s)
  PROVE  /\ tx' \in [Sessions -> Transaction] /\ tx'[s] = Idle
         /\ \A u \in Sessions \ {s} : tx'[u] = tx[u]
BY IdleFits DEF End, TypeOK

LEMMA EndStep ==
  ASSUME IInv, NEW s \in Sessions, End(s), UNCHANGED stored, issued' \in Nat, faults' \in Nat
  PROVE  IInv'
BY EndFits, EndedHoldsNothing, QuietStep DEF IInv

-----------------------------------------------------------------------------
(* Steps that write nothing: an operation begins, locks, checks or reads.  *)

LEMMA Advances ==
  ASSUME TypeOK, NEW s \in Sessions, NEW x \in Transaction, tx' = [tx EXCEPT ![s] = x]
  PROVE  /\ tx' \in [Sessions -> Transaction] /\ tx'[s] = x
         /\ \A u \in Sessions \ {s} : tx'[u] = tx[u]
BY DEF TypeOK

LEMMA BeginStep == ASSUME IInv, NEW s \in Sessions, Begin(s) PROVE IInv'
<1>1. PICK op \in Ops :
        tx' = [tx EXCEPT ![s].op = op,
                         ![s].pc = CASE op = "generate" -> "inspect"
                                     [] op = "slot" -> "template"
                                     [] OTHER -> "lock"]
  BY DEF Begin
<1> DEFINE pc == CASE op = "generate" -> "inspect" [] op = "slot" -> "template" [] OTHER -> "lock"
           x == [tx[s] EXCEPT !.op = op, !.pc = pc]
<1>2. tx[s] \in Transaction /\ tx[s].pc = "idle" /\ UNCHANGED stored /\ tx[s].date = NoDate
  BY DEF IInv, TypeOK, Begin, SessionOK, StartIsSound
<1>3. x \in Transaction /\ tx' = [tx EXCEPT ![s] = x] /\ x.op = op /\ x.pc = pc /\ x.date = NoDate
  BY <1>1, <1>2 DEF Transaction, IInv, TypeOK
<1>4. pc \in {"inspect", "template", "lock"} /\ (op = "slot" => pc = "template")
      /\ (op = "generate" => pc = "inspect")
  OBVIOUS
<1> HIDE DEF x, pc
<1>5. /\ tx' \in [Sessions -> Transaction] /\ tx'[s] = x
      /\ \A u \in Sessions \ {s} : tx'[u] = tx[u]
  BY <1>3, Advances DEF IInv
<1>6. /\ ~OwnsTemplate(s)' /\ ~SharesTemplate(s)' /\ ~OwnsSeries(s)'
      /\ ~OwnsSettings(s)' /\ ~SharesSettings(s)'
  BY <1>3, <1>4, <1>5 DEF OwnsTemplate, SharesTemplate, OwnsSeries, OwnsSettings, SharesSettings,
                          At, Drafting
<1>7. SessionOK(s)'
  BY <1>3, <1>4, <1>5, <1>6 DEF SessionOK, EditIsSound, RowIsSeen, StartIsSound, DraftIsSound,
                                PublishesOwn, At, Drafting
<1>8. issued' \in Nat /\ faults' \in Nat
  BY DEF Begin, IInv, TypeOK
<1> QED
  BY <1>2, <1>5, <1>6, <1>7, <1>8, QuietStep

LEMMA AbandonStep == ASSUME IInv, NEW s \in Sessions, Abandon(s) PROVE IInv'
BY EndStep DEF Abandon, IInv, TypeOK

\* What an edit makes of the template is one, and differs only where it asks.
LEMMA MergeFits ==
  ASSUME NEW t \in Template, NEW e \in Edits
  PROVE  /\ Merge(t, e) \in Template /\ DOMAIN e \subseteq Columns
         /\ \A c \in Fields : c \notin DOMAIN e => Merge(t, e)[c] = t[c]
BY EditsAssumption DEF EditRequest, Merge, Template, Fields

LEMMA EditLockStep == ASSUME IInv, NEW s \in Sessions, EditLock(s) PROVE IInv'
<1>1. PICK e \in Edits :
        IF Acceptable(Merge(template, e))
        THEN tx' = [tx EXCEPT ![s].pc = "series", ![s].seen = Merge(template, e),
                              ![s].input = DOMAIN e]
        ELSE End(s)
  BY DEF EditLock
<1>2. CASE End(s)
  BY <1>2, EndStep DEF EditLock, IInv, TypeOK, Counted
<1>3. CASE ~End(s)
  <2> DEFINE t == Merge(template, e)
             x == [tx[s] EXCEPT !.pc = "series", !.seen = t, !.input = DOMAIN e]
  <2>1. /\ t \in Template /\ DOMAIN e \subseteq Columns /\ Acceptable(t)
        /\ \A c \in Fields : c \notin DOMAIN e => t[c] = template[c]
    BY <1>1, <1>3, MergeFits DEF IInv, TypeOK
  <2> HIDE DEF t
  <2>2. tx[s] \in Transaction /\ tx[s].op = "edit" /\ UNCHANGED <<stored, issued, faults>>
        /\ tx' = [tx EXCEPT ![s] = x] /\ TemplateIsFree(s)
    BY <1>1, <1>3 DEF IInv, TypeOK, EditLock, At, Counted, t
  <2>3. x \in Transaction /\ x.op = "edit" /\ x.pc = "series" /\ x.seen = t /\ x.input = DOMAIN e
    BY <2>1, <2>2 DEF Transaction
  <2> HIDE DEF x
  <2>4. /\ tx' \in [Sessions -> Transaction] /\ tx'[s] = x
        /\ \A u \in Sessions \ {s} : tx'[u] = tx[u]
    BY <2>2, <2>3, Advances DEF IInv
  <2>5. ~SharesTemplate(s)' /\ ~OwnsSeries(s)' /\ ~OwnsSettings(s)' /\ ~SharesSettings(s)'
    BY <2>3, <2>4 DEF SharesTemplate, OwnsSeries, OwnsSettings, SharesSettings, At, Generations
  <2>6. EditIsSound(s)'
    BY <2>1, <2>2, <2>3, <2>4 DEF EditIsSound, stored
  <2>7. SessionOK(s)'
    BY <2>3, <2>4, <2>5, <2>6 DEF SessionOK, RowIsSeen, StartIsSound, DraftIsSound,
                                  PublishesOwn, At, Generations
  <2> QED
    BY <2>2, <2>4, <2>5, <2>7, QuietStep DEF IInv, TypeOK
<1> QED
  BY <1>2, <1>3

Pcs == {"idle", "lock", "series", "reminders", "relations", "write", "inspect", "template",
        "settings", "pings", "organisers", "insert", "apply", "slot", "commit", "publish"}

LEMMA Goes ==
  ASSUME TypeOK, NEW s \in Sessions, NEW p \in Pcs, Goto(s, p)
  PROVE  /\ tx' \in [Sessions -> Transaction]
         /\ \A u \in Sessions \ {s} : tx'[u] = tx[u]
         /\ tx'[s].pc = p /\ tx'[s].op = tx[s].op /\ tx'[s].seen = tx[s].seen
         /\ tx'[s].input = tx[s].input /\ tx'[s].rev = tx[s].rev /\ tx'[s].start = tx[s].start
         /\ tx'[s].chosen = tx[s].chosen /\ tx'[s].date = tx[s].date
         /\ tx'[s].snapshot = tx[s].snapshot /\ tx'[s].wrote = tx[s].wrote
         /\ tx'[s].event = tx[s].event
<1> DEFINE x == [tx[s] EXCEPT !.pc = p]
<1>0. tx[s] \in Transaction /\ tx \in [Sessions -> Transaction]
  BY DEF TypeOK
<1>1. x \in Transaction
  BY <1>0 DEF Transaction, Pcs
<1>3. tx' = [tx EXCEPT ![s] = x]
  BY <1>0 DEF Goto
<1>2. /\ x.pc = p /\ x.op = tx[s].op /\ x.seen = tx[s].seen
      /\ x.input = tx[s].input /\ x.rev = tx[s].rev /\ x.start = tx[s].start
      /\ x.chosen = tx[s].chosen /\ x.date = tx[s].date
      /\ x.snapshot = tx[s].snapshot /\ x.wrote = tx[s].wrote /\ x.event = tx[s].event
  BY DEF TypeOK, Transaction
<1> HIDE DEF x
<1> QED
  BY <1>1, <1>2, <1>3, Advances

\* The checks of an edit go on under its lock.
LEMMA EditGoesOn ==
  ASSUME IInv, NEW s \in Sessions, UNCHANGED <<stored, issued, faults>>,
         NEW p \in {"reminders", "relations", "write"}, Goto(s, p), tx[s].op = "edit",
         tx[s].pc \in {"series", "reminders", "relations"}, EditIsSound(s)'
  PROVE  IInv'
<1>1. /\ tx' \in [Sessions -> Transaction] /\ \A u \in Sessions \ {s} : tx'[u] = tx[u]
      /\ tx'[s].pc = p /\ tx'[s].op = "edit"
  BY Goes DEF IInv, Pcs
<1>2. /\ OwnsTemplate(s) /\ ~SharesTemplate(s)' /\ ~OwnsSeries(s)'
      /\ ~OwnsSettings(s)' /\ ~SharesSettings(s)'
  BY <1>1 DEF OwnsTemplate, SharesTemplate, OwnsSeries, OwnsSettings, SharesSettings, At,
              Generations, Mutations
<1>3. SessionOK(s)'
  BY <1>1, <1>2 DEF SessionOK, RowIsSeen, StartIsSound, DraftIsSound, PublishesOwn, At,
                    Generations
<1> QED
  BY <1>1, <1>2, <1>3, QuietStep DEF IInv, TypeOK

LEMMA EditSeriesStep == ASSUME IInv, NEW s \in Sessions, EditSeries(s) PROVE IInv'
<1>1. CASE End(s)
  BY <1>1, EndStep DEF EditSeries, IInv, TypeOK, Counted
<1>2. CASE ~End(s)
  <2>1. Goto(s, "reminders") /\ EditSuitsSeries(s) /\ At(s, "edit", "series")
        /\ UNCHANGED <<stored, issued, faults>>
    BY <1>2 DEF EditSeries, Counted
  <2>2. EditIsSound(s)'
    BY <2>1, Goes DEF EditIsSound, IInv, Pcs, At, SessionOK, EditSuitsSeries, stored
  <2> QED
    BY <2>1, <2>2, EditGoesOn DEF At
<1> QED
  BY <1>1, <1>2

LEMMA EditRemindersStep == ASSUME IInv, NEW s \in Sessions, EditReminders(s) PROVE IInv'
<1>1. CASE End(s)
  BY <1>1, EndStep DEF EditReminders, IInv, TypeOK, Counted
<1>2. CASE ~End(s)
  <2>1. Goto(s, "relations") /\ EditSuitsReminders(s) /\ At(s, "edit", "reminders")
        /\ UNCHANGED <<stored, issued, faults>>
    BY <1>2 DEF EditReminders, Counted
  <2>2. EditIsSound(s)'
    BY <2>1, Goes DEF EditIsSound, IInv, Pcs, At, SessionOK, EditSuitsSeries, EditSuitsReminders,
                      stored
  <2> QED
    BY <2>1, <2>2, EditGoesOn DEF At
<1> QED
  BY <1>1, <1>2

LEMMA EditRelationsStep == ASSUME IInv, NEW s \in Sessions, EditRelations(s) PROVE IInv'
<1>1. CASE End(s)
  BY <1>1, EndStep DEF EditRelations, IInv, TypeOK, Counted
<1>2. CASE ~End(s)
  <2>1. /\ Goto(s, "write") /\ At(s, "edit", "relations") /\ UNCHANGED <<stored, issued, faults>>
        /\ {"roles", "preset"} \cap tx[s].input # {} /\ tx[s].seen.preset => tx[s].seen.roles
    BY <1>2 DEF EditRelations, Counted
  <2>2. EditIsSound(s)'
    BY <2>1, Goes DEF EditIsSound, IInv, Pcs, At, SessionOK, EditSuitsSeries, EditSuitsReminders,
                      stored
  <2> QED
    BY <2>1, <2>2, EditGoesOn DEF At
<1> QED
  BY <1>1, <1>2

\* The other mutations, and those of the series, read the row.
LEMMA ReadsRow ==
  ASSUME IInv, NEW s \in Sessions, TemplateIsFree(s), UNCHANGED <<stored, issued, faults>>,
         NEW p \in {"series", "write"},
         tx[s].op \in (Mutations \ {"edit"}) \cup SeriesOps, tx[s].op = "setSeries" => p # "write",
         tx' = [tx EXCEPT ![s].pc = p, ![s].seen = Childless(template)]
  PROVE  IInv'
<1> DEFINE x == [tx[s] EXCEPT !.pc = p, !.seen = Childless(template)]
<1>1. /\ tx[s] \in Transaction /\ template \in Template /\ Childless(template) \in Template
      /\ \A c \in Columns : Childless(template)[c] = template[c]
  BY ChildlessRow DEF IInv, TypeOK
<1>2. /\ x \in Transaction /\ tx' = [tx EXCEPT ![s] = x]
      /\ x.op = tx[s].op /\ x.pc = p /\ x.seen = Childless(template)
  BY <1>1 DEF Transaction, IInv, TypeOK
<1> HIDE DEF x
<1>3. /\ tx' \in [Sessions -> Transaction] /\ tx'[s] = x
      /\ \A u \in Sessions \ {s} : tx'[u] = tx[u]
  BY <1>2, Advances DEF IInv
<1>4. ~SharesTemplate(s)' /\ ~OwnsSeries(s)' /\ ~OwnsSettings(s)' /\ ~SharesSettings(s)'
  BY <1>2, <1>3 DEF SharesTemplate, OwnsSeries, OwnsSettings, SharesSettings, At, Generations,
                    Mutations, SeriesOps
<1>5. RowIsSeen(s)'
  BY <1>1, <1>2, <1>3 DEF RowIsSeen, stored, At, SeriesOps, Mutations
<1>6. SessionOK(s)'
  BY <1>2, <1>3, <1>4, <1>5 DEF SessionOK, EditIsSound, StartIsSound, DraftIsSound, PublishesOwn,
                                At, Generations, Mutations, SeriesOps
<1> QED
  BY <1>3, <1>4, <1>6, QuietStep DEF IInv, TypeOK

LEMMA MutationLockStep == ASSUME IInv, NEW s \in Sessions, MutationLock(s) PROVE IInv'
BY ReadsRow DEF MutationLock, Counted, Mutations

LEMMA SeriesLockStep == ASSUME IInv, NEW s \in Sessions, SeriesLock(s) PROVE IInv'
<1>1. CASE tx[s].op = "createSeries"
  BY <1>1, ReadsRow DEF SeriesLock, Counted, SeriesOps
<1>2. CASE tx[s].op = "setSeries"
  BY <1>2, ReadsRow DEF SeriesLock, Counted, SeriesOps
<1> QED
  BY <1>1, <1>2 DEF SeriesLock, SeriesOps

LEMMA SetSeriesLockStep == ASSUME IInv, NEW s \in Sessions, SetSeriesLock(s) PROVE IInv'
<1>1. CASE End(s)
  BY <1>1, EndStep DEF SetSeriesLock, IInv, TypeOK, Counted
<1>2. CASE ~End(s)
  <2>1. /\ Goto(s, "write") /\ At(s, "setSeries", "series") /\ SeriesIsFree(s) /\ series # "none"
        /\ UNCHANGED <<stored, issued, faults>>
    BY <1>2 DEF SetSeriesLock, Counted
  <2>2. /\ tx' \in [Sessions -> Transaction] /\ \A u \in Sessions \ {s} : tx'[u] = tx[u]
        /\ tx'[s].pc = "write" /\ tx'[s].op = "setSeries" /\ tx'[s].seen = tx[s].seen
    BY <2>1, Goes DEF IInv, Pcs, At
  <2>3. /\ OwnsTemplate(s) /\ ~SharesTemplate(s)' /\ ~OwnsSettings(s)' /\ ~SharesSettings(s)'
    BY <2>1, <2>2 DEF OwnsTemplate, SharesTemplate, OwnsSettings, SharesSettings, At,
                      Generations, SeriesOps
  <2>4. RowIsSeen(s)'
    BY <2>1, <2>2, <2>3 DEF RowIsSeen, IInv, SessionOK, stored, At
  <2>5. SessionOK(s)'
    BY <2>2, <2>3, <2>4 DEF SessionOK, EditIsSound, StartIsSound, DraftIsSound, PublishesOwn, At,
                            Generations
  <2> QED
    BY <2>1, <2>2, <2>3, <2>5, QuietStep DEF IInv, TypeOK
<1> QED
  BY <1>1, <1>2

LEMMA FeatureOrPresetLockStep ==
  ASSUME IInv, NEW s \in Sessions, FeatureLock(s) \/ PresetLock(s) PROVE IInv'
<1>1. /\ Goto(s, "write") /\ tx[s].op \in {"feature", "preset"} /\ UNCHANGED <<stored, issued, faults>>
      /\ tx[s].op = "feature" => SettingsAreFree(s)
  BY DEF FeatureLock, PresetLock, Counted, At
<1>2. /\ tx' \in [Sessions -> Transaction] /\ \A u \in Sessions \ {s} : tx'[u] = tx[u]
      /\ tx'[s].pc = "write" /\ tx'[s].op = tx[s].op
  BY <1>1, Goes DEF IInv, Pcs
<1>3. /\ ~OwnsTemplate(s)' /\ ~SharesTemplate(s)' /\ ~OwnsSeries(s)' /\ ~SharesSettings(s)'
      /\ OwnsSettings(s)' => SettingsAreFree(s)
  BY <1>1, <1>2 DEF OwnsTemplate, SharesTemplate, OwnsSeries, SharesSettings, OwnsSettings, At,
                    Mutations, SeriesOps, Generations
<1>4. SessionOK(s)'
  BY <1>1, <1>2, <1>3 DEF SessionOK, EditIsSound, RowIsSeen, StartIsSound, DraftIsSound,
                          PublishesOwn, At, Generations
<1> QED
  BY <1>1, <1>2, <1>3, <1>4, QuietStep DEF IInv, TypeOK

LEMMA MutationRefusedStep == ASSUME IInv, NEW s \in Sessions, MutationRefused(s) PROVE IInv'
BY EndStep DEF MutationRefused, IInv, TypeOK, Counted

-----------------------------------------------------------------------------
(* Generation, up to its commit.                                           *)

LEMMA InspectStep == ASSUME IInv, NEW s \in Sessions, Inspect(s) PROVE IInv'
<1>1. PICK given \in Times \cup {NoTime} :
        IF template.active /\ StartFrom(given) # NoTime
        THEN tx' = [tx EXCEPT ![s].pc = "lock", ![s].rev = revision,
                              ![s].start = StartFrom(given), ![s].chosen = given # NoTime]
        ELSE End(s)
  BY DEF Inspect
<1>2. CASE End(s)
  BY <1>2, EndStep DEF Inspect, IInv, TypeOK, Counted
<1>3. CASE ~End(s)
  <2> DEFINE x == [tx[s] EXCEPT !.pc = "lock", !.rev = revision, !.start = StartFrom(given),
                                !.chosen = given # NoTime]
  <2>1. /\ tx[s] \in Transaction /\ tx[s].op = "generate" /\ UNCHANGED <<stored, issued, faults>>
        /\ template \in Template /\ revision \in Nat \ {0} /\ source[revision] = template
        /\ StartFrom(given) # NoTime /\ tx \in [Sessions -> Transaction]
    BY <1>1, <1>3 DEF IInv, TypeOK, Inspect, At, Counted, StoredOK
  <2>2. StartFrom(given) \in Times /\ (given # NoTime \/ StartFrom(given) = template.time)
    BY <2>1 DEF StartFrom, Template
  <2>3. /\ x \in Transaction /\ x.op = "generate" /\ x.pc = "lock" /\ x.rev = revision
        /\ x.start = StartFrom(given) /\ x.chosen = (given # NoTime) /\ x.date = tx[s].date
    BY <2>1, <2>2 DEF Transaction
  <2>4. tx' = [tx EXCEPT ![s] = x]
    BY <1>1, <1>3, <2>1
  <2> HIDE DEF x
  <2>5. /\ tx' \in [Sessions -> Transaction] /\ tx'[s] = x
        /\ \A u \in Sessions \ {s} : tx'[u] = tx[u]
    BY <2>3, <2>4, Advances DEF IInv
  <2>6. /\ ~OwnsTemplate(s)' /\ ~SharesTemplate(s)' /\ ~OwnsSeries(s)'
        /\ ~OwnsSettings(s)' /\ ~SharesSettings(s)'
    BY <2>3, <2>5 DEF OwnsTemplate, SharesTemplate, OwnsSeries, OwnsSettings, SharesSettings, At,
                      Drafting
  <2>9. tx[s].date = NoDate
    BY <2>1 DEF IInv, SessionOK, StartIsSound
  <2>10. x.chosen \/ x.start = template.time
    BY <2>2, <2>3
  <2>7. StartIsSound(s)'
    BY <2>1, <2>2, <2>3, <2>5, <2>6, <2>9, <2>10 DEF StartIsSound, At, stored
  <2>8. SessionOK(s)'
    BY <2>3, <2>5, <2>6, <2>7 DEF SessionOK, EditIsSound, RowIsSeen, DraftIsSound, PublishesOwn,
                                  At, Drafting
  <2> QED
    BY <2>1, <2>5, <2>6, <2>8, QuietStep DEF IInv, TypeOK
<1> QED
  BY <1>2, <1>3

LEMMA SlotTemplateStep == ASSUME IInv, NEW s \in Sessions, SlotTemplate(s) PROVE IInv'
<1>1. CASE End(s)
  BY <1>1, EndStep DEF SlotTemplate, IInv, TypeOK, Counted
<1>2. CASE ~End(s)
  <2>1. PICK d \in Dates :
          tx' = [tx EXCEPT ![s].pc = "series", ![s].seen = Childless(template),
                           ![s].rev = revision, ![s].date = d]
    BY <1>2 DEF SlotTemplate
  <2> DEFINE x == [tx[s] EXCEPT !.pc = "series", !.seen = Childless(template), !.rev = revision,
                                !.date = d]
  <2>2. /\ tx[s] \in Transaction /\ tx[s].op = "slot" /\ UNCHANGED <<stored, issued, faults>>
        /\ revision \in Nat /\ TemplateIsShared(s) /\ tx \in [Sessions -> Transaction]
        /\ Childless(template) \in Template
        /\ \A c \in Columns : Childless(template)[c] = template[c]
    BY ChildlessRow DEF IInv, TypeOK, SlotTemplate, At, Counted
  <2>3. /\ x \in Transaction /\ x.op = "slot" /\ x.pc = "series" /\ x.rev = revision
        /\ x.seen = Childless(template) /\ x.date = d
    BY <2>2 DEF Transaction
  <2>4. tx' = [tx EXCEPT ![s] = x]
    BY <2>1, <2>2
  <2> HIDE DEF x
  <2>5. /\ tx' \in [Sessions -> Transaction] /\ tx'[s] = x
        /\ \A u \in Sessions \ {s} : tx'[u] = tx[u]
    BY <2>3, <2>4, Advances DEF IInv
  <2>6. ~OwnsTemplate(s)' /\ ~OwnsSeries(s)' /\ ~OwnsSettings(s)' /\ ~SharesSettings(s)'
    BY <2>3, <2>5 DEF OwnsTemplate, OwnsSeries, OwnsSettings, SharesSettings, At, Drafting,
                      Mutations, SeriesOps
  <2>7. StartIsSound(s)' /\ RowIsSeen(s)'
    BY <2>2, <2>3, <2>5 DEF StartIsSound, RowIsSeen, At, stored
  <2>8. SessionOK(s)'
    BY <2>3, <2>5, <2>7 DEF SessionOK, EditIsSound, DraftIsSound, PublishesOwn, At, Drafting
  <2> QED
    BY <2>2, <2>5, <2>6, <2>8, QuietStep DEF IInv, TypeOK
<1> QED
  BY <1>1, <1>2

LEMMA SlotSeriesStep == ASSUME IInv, NEW s \in Sessions, SlotSeries(s) PROVE IInv'
<1>1. CASE End(s)
  BY <1>1, EndStep DEF SlotSeries, IInv, TypeOK, Counted
<1>2. CASE ~End(s)
  <2> DEFINE x == [tx[s] EXCEPT !.pc = "lock", !.start = tx[s].seen.time]
  <2>1. /\ tx[s] \in Transaction /\ tx[s].op = "slot" /\ tx[s].pc = "series" /\ SeriesIsFree(s)
        /\ UNCHANGED <<stored, issued, faults>> /\ tx \in [Sessions -> Transaction]
        /\ tx[s].seen.time # NoTime
        /\ tx' = [tx EXCEPT ![s].pc = "lock", ![s].start = tx[s].seen.time]
    BY <1>2 DEF IInv, TypeOK, SlotSeries, At, Counted
  <2>2. SharesTemplate(s) /\ SharesTemplate(s)'
    BY <2>1 DEF SharesTemplate
  <2>3. /\ tx[s].seen \in Template /\ tx[s].seen.time = template.time /\ tx[s].seen.time \in Times
        /\ \A c \in Columns : tx[s].seen[c] = template[c]
        /\ tx[s].rev = revision /\ tx[s].date \in Dates
    BY <2>1, <2>2 DEF Transaction, Template, IInv, SessionOK, RowIsSeen, Columns, StartIsSound
  <2>4. /\ x \in Transaction /\ x.op = "slot" /\ x.pc = "lock" /\ x.rev = tx[s].rev
        /\ x.start = tx[s].seen.time /\ x.seen = tx[s].seen /\ x.date = tx[s].date
    BY <2>1, <2>3 DEF Transaction
  <2>5. tx' = [tx EXCEPT ![s] = x]
    BY <2>1
  <2> HIDE DEF x
  <2>6. /\ tx' \in [Sessions -> Transaction] /\ tx'[s] = x
        /\ \A u \in Sessions \ {s} : tx'[u] = tx[u]
    BY <2>4, <2>5, Advances DEF IInv
  <2>7. ~OwnsTemplate(s)' /\ ~OwnsSettings(s)' /\ ~SharesSettings(s)'
    BY <2>4, <2>6 DEF OwnsTemplate, OwnsSettings, SharesSettings, At, Drafting, Mutations,
                      SeriesOps
  <2>8. StartIsSound(s)' /\ RowIsSeen(s)'
    BY <2>1, <2>3, <2>4, <2>6 DEF StartIsSound, RowIsSeen, At, stored
  <2>9. SessionOK(s)'
    BY <2>4, <2>6, <2>8 DEF SessionOK, EditIsSound, DraftIsSound, PublishesOwn, At, Drafting
  <2> QED
    BY <2>1, <2>2, <2>6, <2>7, <2>9, QuietStep DEF IInv, TypeOK
<1> QED
  BY <1>1, <1>2

LEMMA GenerationLockStep == ASSUME IInv, NEW s \in Sessions, GenerationLock(s) PROVE IInv'
<1>1. CASE End(s)
  BY <1>1, EndStep DEF GenerationLock, IInv, TypeOK, Counted
<1>2. CASE ~End(s)
  <2> DEFINE x == [tx[s] EXCEPT !.pc = "settings", !.seen = Childless(template),
                                !.rev = revision]
  <2>1. /\ tx[s] \in Transaction /\ tx[s].op \in Generations /\ tx[s].pc = "lock"
        /\ TemplateIsShared(s) /\ tx[s].rev = revision /\ source[revision] = template
        /\ UNCHANGED <<stored, issued, faults>> /\ tx \in [Sessions -> Transaction]
        /\ tx' = [tx EXCEPT ![s].pc = "settings", ![s].seen = Childless(template),
                            ![s].rev = revision]
        /\ revision \in Nat /\ Childless(template) \in Template
        /\ \A c \in Columns : Childless(template)[c] = template[c]
    BY <1>2, ChildlessRow DEF IInv, TypeOK, GenerationLock, Counted, SameRevision, StoredOK
  <2>2. /\ tx[s].start \in Times /\ (tx[s].chosen \/ tx[s].start = template.time)
        /\ tx[s].op = "slot" => tx[s].date \in Dates
        /\ tx[s].op = "generate" => tx[s].date = NoDate
    BY <2>1 DEF IInv, SessionOK, StartIsSound, SharesTemplate, Generations, At
  <2>3. /\ x \in Transaction /\ x.op = tx[s].op /\ x.pc = "settings" /\ x.rev = revision
        /\ x.start = tx[s].start /\ x.seen = Childless(template) /\ x.date = tx[s].date
        /\ x.chosen = tx[s].chosen
    BY <2>1 DEF Transaction
  <2>4. tx' = [tx EXCEPT ![s] = x]
    BY <2>1
  <2> HIDE DEF x
  <2>5. /\ tx' \in [Sessions -> Transaction] /\ tx'[s] = x
        /\ \A u \in Sessions \ {s} : tx'[u] = tx[u]
    BY <2>3, <2>4, Advances DEF IInv
  <2>6. ~OwnsTemplate(s)' /\ ~OwnsSettings(s)' /\ ~SharesSettings(s)'
    BY <2>1, <2>3, <2>5 DEF OwnsTemplate, OwnsSettings, SharesSettings, At, Drafting, Mutations,
                            SeriesOps, Generations
  <2>7. OwnsSeries(s)' => OwnsSeries(s)
    BY <2>1, <2>3, <2>5 DEF OwnsSeries, At, Generations
  <2>8. StartIsSound(s)' /\ RowIsSeen(s)'
    BY <2>1, <2>2, <2>3, <2>5, <2>6 DEF StartIsSound, RowIsSeen, At, stored
  <2>9. SessionOK(s)'
    BY <2>1, <2>3, <2>5, <2>8 DEF SessionOK, EditIsSound, DraftIsSound, PublishesOwn, At,
                                  Generations
  <2> QED
    BY <2>1, <2>5, <2>6, <2>7, <2>9, QuietStep DEF IInv, TypeOK
<1> QED
  BY <1>1, <1>2

\* The statements of a draft go on under its locks.
LEMMA DraftGoesOn ==
  ASSUME IInv, NEW s \in Sessions, UNCHANGED <<stored, issued, faults>>,
         tx[s].op \in Generations, tx[s].pc \in Drafting,
         tx[s].pc = "settings" => SettingsAreShared(s),
         tx' \in [Sessions -> Transaction], \A u \in Sessions \ {s} : tx'[u] = tx[u],
         tx'[s].op = tx[s].op, tx'[s].pc \in Drafting, tx'[s].rev = tx[s].rev,
         tx'[s].start = tx[s].start, tx'[s].chosen = tx[s].chosen, tx'[s].date = tx[s].date,
         \A c \in Columns : tx'[s].seen[c] = tx[s].seen[c], DraftIsSound(s)'
  PROVE  IInv'
<1>1. SharesTemplate(s) /\ SharesTemplate(s)'
  BY DEF SharesTemplate
<1>2. /\ ~OwnsTemplate(s)' /\ ~OwnsSettings(s)'
      /\ OwnsSeries(s)' => OwnsSeries(s)
      /\ SharesSettings(s)' => SharesSettings(s) \/ SettingsAreShared(s)
  BY DEF OwnsTemplate, OwnsSettings, OwnsSeries, SharesSettings, At, Mutations, SeriesOps,
         Generations
<1>3. RowIsSeen(s) /\ StartIsSound(s)
  BY DEF IInv, SessionOK
<1>4. RowIsSeen(s)'
  BY <1>1, <1>3 DEF RowIsSeen, stored, At, Generations
<1>5. StartIsSound(s)'
  BY <1>1, <1>3 DEF StartIsSound, At, stored, Drafting
<1>6. SessionOK(s)'
  BY <1>4, <1>5 DEF SessionOK, EditIsSound, PublishesOwn, At, Generations, Drafting
<1> QED
  BY <1>1, <1>2, <1>6, QuietStep DEF IInv, TypeOK

LEMMA GenerationSettingsStep ==
  ASSUME IInv, NEW s \in Sessions, GenerationSettings(s) PROVE IInv'
<1>1. CASE End(s)
  BY <1>1, EndStep DEF GenerationSettings, IInv, TypeOK, Counted
<1>2. CASE ~End(s)
  <2> DEFINE x == [tx[s] EXCEPT !.pc = "pings", !.snapshot = organisersEnabled]
  <2>1. /\ tx[s] \in Transaction /\ tx[s].op \in Generations /\ tx[s].pc = "settings"
        /\ SettingsAreShared(s) /\ organisersEnabled \in BOOLEAN
        /\ UNCHANGED <<stored, issued, faults>> /\ tx \in [Sessions -> Transaction]
        /\ tx' = [tx EXCEPT ![s].pc = "pings", ![s].snapshot = organisersEnabled]
    BY <1>2 DEF IInv, TypeOK, GenerationSettings, Counted, FeatureIsOn
  <2>2. /\ x \in Transaction /\ x.op = tx[s].op /\ x.pc = "pings" /\ x.rev = tx[s].rev
        /\ x.start = tx[s].start /\ x.seen = tx[s].seen /\ x.date = tx[s].date
        /\ x.chosen = tx[s].chosen /\ x.snapshot = organisersEnabled
    BY <2>1 DEF Transaction
  <2>3. tx' = [tx EXCEPT ![s] = x]
    BY <2>1
  <2> HIDE DEF x
  <2>4. /\ tx' \in [Sessions -> Transaction] /\ tx'[s] = x
        /\ \A u \in Sessions \ {s} : tx'[u] = tx[u]
    BY <2>2, <2>3, Advances DEF IInv
  <2>5. DraftIsSound(s)'
    BY <2>1, <2>2, <2>4 DEF DraftIsSound, stored
  <2> QED
    BY <2>1, <2>2, <2>4, <2>5, DraftGoesOn DEF Drafting
<1> QED
  BY <1>1, <1>2

LEMMA GenerationRefusedStep == ASSUME IInv, NEW s \in Sessions, GenerationRefused(s) PROVE IInv'
BY EndStep DEF GenerationRefused, IInv, TypeOK, Counted

\* One kind of child rows is read: seen' has them, and nothing else changes.
LEMMA ChildrenRead ==
  ASSUME IInv, NEW s \in Sessions, UNCHANGED <<stored, issued, faults>>,
         tx[s].op \in Generations, tx[s].pc \in {"pings", "organisers", "reminders"},
         NEW p \in {"organisers", "reminders", "insert"}, NEW t \in Template,
         tx' = [tx EXCEPT ![s].pc = p, ![s].seen = t],
         \A c \in Columns : t[c] = tx[s].seen[c],
         t.pings = template.pings,
         p # "organisers" => t.organisers = template.organisers,
         p = "insert" => t.reminders = template.reminders
  PROVE  IInv'
<1> DEFINE x == [tx[s] EXCEPT !.pc = p, !.seen = t]
<1>1. tx[s] \in Transaction /\ tx \in [Sessions -> Transaction]
  BY DEF IInv, TypeOK
<1>2. /\ x \in Transaction /\ x.op = tx[s].op /\ x.pc = p /\ x.rev = tx[s].rev
      /\ x.start = tx[s].start /\ x.seen = t /\ x.date = tx[s].date
      /\ x.chosen = tx[s].chosen /\ x.snapshot = tx[s].snapshot
  BY <1>1 DEF Transaction
<1>3. tx' = [tx EXCEPT ![s] = x]
  BY <1>1
<1> HIDE DEF x
<1>4. /\ tx' \in [Sessions -> Transaction] /\ tx'[s] = x
      /\ \A u \in Sessions \ {s} : tx'[u] = tx[u]
  BY <1>2, <1>3, Advances DEF IInv
<1>5. DraftIsSound(s)
  BY DEF IInv, SessionOK
<1>6. DraftIsSound(s)'
  BY <1>2, <1>4, <1>5 DEF DraftIsSound, stored, Drafting
<1> QED
  BY <1>2, <1>4, <1>6, DraftGoesOn DEF Drafting

LEMMA ReadPingsStep == ASSUME IInv, NEW s \in Sessions, ReadPings(s) PROVE IInv'
<1> DEFINE t == [tx[s].seen EXCEPT !.pings = template.pings]
<1>1. /\ tx[s] \in Transaction /\ tx[s].op \in Generations /\ tx[s].pc = "pings"
      /\ tx \in [Sessions -> Transaction] /\ template \in Template
      /\ UNCHANGED <<stored, issued, faults>> /\ tx[s].seen \in Template
      /\ tx' = [tx EXCEPT ![s].pc = "organisers", ![s].seen.pings = template.pings]
  BY DEF IInv, TypeOK, ReadPings, Counted, Transaction
<1>2. /\ t \in Template /\ t.pings = template.pings
      /\ \A c \in Columns : t[c] = tx[s].seen[c]
  BY <1>1 DEF Template, Columns
<1>3. tx' = [tx EXCEPT ![s].pc = "organisers", ![s].seen = t]
  BY <1>1 DEF Transaction
<1> HIDE DEF t
<1> QED
  BY <1>1, <1>2, <1>3, ChildrenRead

LEMMA ReadOrganisersStep == ASSUME IInv, NEW s \in Sessions, ReadOrganisers(s) PROVE IInv'
<1> DEFINE t == [tx[s].seen EXCEPT !.organisers = template.organisers]
<1>1. /\ tx[s] \in Transaction /\ tx[s].op \in Generations /\ tx[s].pc = "organisers"
      /\ tx \in [Sessions -> Transaction] /\ template \in Template
      /\ UNCHANGED <<stored, issued, faults>> /\ tx[s].seen \in Template
      /\ tx' = [tx EXCEPT ![s].pc = "reminders", ![s].seen.organisers = template.organisers]
  BY DEF IInv, TypeOK, ReadOrganisers, Counted, Transaction
<1>2. tx[s].seen.pings = template.pings
  BY <1>1 DEF IInv, SessionOK, DraftIsSound, Drafting
<1>3. /\ t \in Template /\ t.pings = template.pings /\ t.organisers = template.organisers
      /\ \A c \in Columns : t[c] = tx[s].seen[c]
  BY <1>1, <1>2 DEF Template, Columns
<1>4. tx' = [tx EXCEPT ![s].pc = "reminders", ![s].seen = t]
  BY <1>1 DEF Transaction
<1> HIDE DEF t
<1> QED
  BY <1>1, <1>3, <1>4, ChildrenRead

LEMMA ReadRemindersStep == ASSUME IInv, NEW s \in Sessions, ReadReminders(s) PROVE IInv'
<1> DEFINE t == [tx[s].seen EXCEPT !.reminders = template.reminders]
<1>1. /\ tx[s] \in Transaction /\ tx[s].op \in Generations /\ tx[s].pc = "reminders"
      /\ tx \in [Sessions -> Transaction] /\ template \in Template
      /\ UNCHANGED <<stored, issued, faults>> /\ tx[s].seen \in Template
      /\ tx' = [tx EXCEPT ![s].pc = "insert", ![s].seen.reminders = template.reminders]
  BY DEF IInv, TypeOK, ReadReminders, Counted, Transaction
<1>2. tx[s].seen.pings = template.pings /\ tx[s].seen.organisers = template.organisers
  BY <1>1 DEF IInv, SessionOK, DraftIsSound, Drafting
<1>3. /\ t \in Template /\ t.pings = template.pings /\ t.organisers = template.organisers
      /\ t.reminders = template.reminders
      /\ \A c \in Columns : t[c] = tx[s].seen[c]
  BY <1>1, <1>2 DEF Template, Columns
<1>4. tx' = [tx EXCEPT ![s].pc = "insert", ![s].seen = t]
  BY <1>1 DEF Transaction
<1> HIDE DEF t
<1> QED
  BY <1>1, <1>3, <1>4, ChildrenRead

\* Something is written to the draft: wrote' tells what.
LEMMA DraftWrites ==
  ASSUME IInv, NEW s \in Sessions, UNCHANGED <<stored, issued, faults>>,
         tx[s].op \in Generations, tx[s].pc \in {"insert", "apply", "slot"},
         NEW p \in {"apply", "slot", "commit"}, NEW w \in SUBSET {"event", "preset", "slot"},
         tx' = [tx EXCEPT ![s].pc = p, ![s].wrote = w],
         p = "apply" => w = {"event"} /\ tx[s].seen.preset,
         p # "apply" => ("preset" \in w) = tx[s].seen.preset,
         p = "slot" => "slot" \notin w,
         p = "commit" =>
           ("slot" \in w) = (tx[s].op = "slot") /\ (tx[s].op = "slot" => tx[s].date \notin slots)
  PROVE  IInv'
<1> DEFINE x == [tx[s] EXCEPT !.pc = p, !.wrote = w]
<1>1. tx[s] \in Transaction /\ tx \in [Sessions -> Transaction]
  BY DEF IInv, TypeOK
<1>2. /\ x \in Transaction /\ x.op = tx[s].op /\ x.pc = p /\ x.rev = tx[s].rev
      /\ x.start = tx[s].start /\ x.seen = tx[s].seen /\ x.date = tx[s].date
      /\ x.chosen = tx[s].chosen /\ x.snapshot = tx[s].snapshot /\ x.wrote = w
  BY <1>1 DEF Transaction
<1>3. tx' = [tx EXCEPT ![s] = x]
  BY <1>1
<1> HIDE DEF x
<1>4. /\ tx' \in [Sessions -> Transaction] /\ tx'[s] = x
      /\ \A u \in Sessions \ {s} : tx'[u] = tx[u]
  BY <1>2, <1>3, Advances DEF IInv
<1>5. DraftIsSound(s)
  BY DEF IInv, SessionOK
<1>6. DraftIsSound(s)'
  BY <1>2, <1>4, <1>5 DEF DraftIsSound, stored, Drafting
<1> QED
  BY <1>2, <1>4, <1>6, DraftGoesOn DEF Drafting

LEMMA InsertEventStep == ASSUME IInv, NEW s \in Sessions, InsertEvent(s) PROVE IInv'
<1>1. CASE End(s)
  BY <1>1, EndStep DEF InsertEvent, IInv, TypeOK, Counted
<1>2. CASE ~End(s)
  <2> DEFINE p == IF tx[s].seen.preset THEN "apply"
                  ELSE IF tx[s].op = "slot" THEN "slot" ELSE "commit"
             w == {"event"}
  <2>1. /\ tx[s].op \in Generations /\ tx[s].pc = "insert" /\ UNCHANGED <<stored, issued, faults>>
        /\ tx' = [tx EXCEPT ![s].pc = p, ![s].wrote = w]
        /\ tx[s].seen.preset \in BOOLEAN
    BY <1>2 DEF InsertEvent, Counted, IInv, TypeOK, Transaction, Template
  <2>2. /\ p \in {"apply", "slot", "commit"}
        /\ w \in SUBSET {"event", "preset", "slot"} /\ "slot" \notin w /\ "preset" \notin w
        /\ p = "apply" => w = {"event"} /\ tx[s].seen.preset
        /\ p = "commit" => tx[s].op # "slot"
    OBVIOUS
  <2>3. p # "apply" => ("preset" \in w) = tx[s].seen.preset
    BY <2>1, <2>2
  <2> HIDE DEF p, w
  <2>4. p = "commit" => ("slot" \in w) = (tx[s].op = "slot")
    BY <2>2
  <2> QED
    BY <2>1, <2>2, <2>3, <2>4, DraftWrites
<1> QED
  BY <1>1, <1>2

LEMMA ApplyPresetStep == ASSUME IInv, NEW s \in Sessions, ApplyPreset(s) PROVE IInv'
<1>1. CASE End(s)
  BY <1>1, EndStep DEF ApplyPreset, IInv, TypeOK, Counted
<1>2. CASE ~End(s)
  <2> DEFINE p == IF tx[s].op = "slot" THEN "slot" ELSE "commit"
             w == {"event", "preset"}
  <2>1. /\ tx[s].op \in Generations /\ tx[s].pc = "apply" /\ UNCHANGED <<stored, issued, faults>>
        /\ tx' = [tx EXCEPT ![s].pc = p, ![s].wrote = @ \cup {"preset"}]
        /\ tx \in [Sessions -> Transaction] /\ tx[s] \in Transaction
    BY <1>2 DEF ApplyPreset, Counted, IInv, TypeOK, TakeBackEvent
  <2>2. tx[s].wrote = {"event"} /\ tx[s].seen.preset = TRUE
    BY <2>1 DEF IInv, SessionOK, DraftIsSound, Drafting, Transaction, Template
  <2>3. tx' = [tx EXCEPT ![s].pc = p, ![s].wrote = w]
    BY <2>1, <2>2 DEF Transaction
  <2>4. /\ p \in {"slot", "commit"} /\ (p = "commit" => tx[s].op # "slot")
        /\ w \in SUBSET {"event", "preset", "slot"} /\ "slot" \notin w
        /\ ("preset" \in w) = tx[s].seen.preset
    BY <2>2
  <2> HIDE DEF p, w
  <2>5. p = "commit" => ("slot" \in w) = (tx[s].op = "slot")
    BY <2>4
  <2> QED
    BY <2>1, <2>3, <2>4, <2>5, DraftWrites
<1> QED
  BY <1>1, <1>2

LEMMA RecordSlotStep == ASSUME IInv, NEW s \in Sessions, RecordSlot(s) PROVE IInv'
<1>1. CASE End(s)
  BY <1>1, EndStep DEF RecordSlot, IInv, TypeOK, Counted
<1>2. CASE ~End(s)
  <2> DEFINE w == tx[s].wrote \cup {"slot"}
  <2>1. /\ tx[s].op = "slot" /\ tx[s].pc = "slot" /\ UNCHANGED <<stored, issued, faults>>
        /\ tx' = [tx EXCEPT ![s].pc = "commit", ![s].wrote = @ \cup {"slot"}]
        /\ tx \in [Sessions -> Transaction] /\ tx[s] \in Transaction /\ tx[s].date \notin slots
    BY <1>2 DEF RecordSlot, Counted, IInv, TypeOK, At
  <2>2. ("preset" \in tx[s].wrote) = tx[s].seen.preset
    BY <2>1 DEF IInv, SessionOK, DraftIsSound, Drafting, Generations
  <2>3. tx' = [tx EXCEPT ![s].pc = "commit", ![s].wrote = w]
    BY <2>1
  <2>4. /\ w \in SUBSET {"event", "preset", "slot"} /\ "slot" \in w
        /\ ("preset" \in w) = tx[s].seen.preset
    BY <2>1, <2>2 DEF Transaction
  <2> HIDE DEF w
  <2> QED
    BY <2>1, <2>3, <2>4, DraftWrites DEF Generations
<1> QED
  BY <1>1, <1>2

-----------------------------------------------------------------------------
(* Steps that write the rows.                                              *)

\* Events stay copies of their revisions while revisions are only added, and
\* nominees only removed.
LEMMA EventsStay ==
  ASSUME TypeOK, GeneratedFromOneRevision, AllOrNothing, slots' = slots,
         revision' \in Nat, revision' >= revision,
         DOMAIN source' = 1 .. revision', \A r \in 1 .. revision : source'[r] = source[r],
         DOMAIN events' = DOMAIN events,
         \A i \in DOMAIN events :
           LET e == events[i]  f == events'[i] IN
           /\ f.rev = e.rev /\ f.start = e.start /\ f.chosen = e.chosen /\ f.date = e.date
           /\ f.signups = e.signups /\ f.closes = e.closes /\ f.mode = e.mode /\ f.lead = e.lead
           /\ f.pings = e.pings /\ f.reminders = e.reminders /\ f.applied = e.applied
           /\ f.organisers \in {e.organisers, {}}
  PROVE  GeneratedFromOneRevision' /\ AllOrNothing'
<1>1. ASSUME NEW i \in DOMAIN events
      PROVE  events[i].rev \in 1 .. revision /\ source'[events[i].rev] = source[events[i].rev]
  BY DEF GeneratedFromOneRevision, TypeOK
<1>2. GeneratedFromOneRevision'
  BY <1>1 DEF GeneratedFromOneRevision, Copies, TypeOK
<1>3. {events'[i].date : i \in DOMAIN events'} = {events[i].date : i \in DOMAIN events}
  OBVIOUS
<1>4. AllOrNothing'
  BY <1>1, <1>3 DEF AllOrNothing
<1> QED
  BY <1>2, <1>4

\* Without a lock on the template a session knows only old revisions.
LEMMA UnlockedKeep ==
  ASSUME NEW u \in Sessions, SessionOK(u), tx'[u] = tx[u],
         ~OwnsTemplate(u), ~SharesTemplate(u),
         revision \in Nat, revision' \in Nat, revision' >= revision,
         \A r \in 1 .. revision : source'[r] = source[r],
         DOMAIN events \subseteq DOMAIN events'
  PROVE  SessionOK(u)'
<1>1. EditIsSound(u)'
  BY DEF EditIsSound, OwnsTemplate, Mutations
<1>2. ~OwnsTemplate(u)' /\ ~SharesTemplate(u)'
  BY DEF OwnsTemplate, SharesTemplate
<1>3. RowIsSeen(u)'
  BY <1>2 DEF RowIsSeen, OwnsTemplate, At, SeriesOps
<1>4. StartIsSound(u)'
  BY <1>2 DEF StartIsSound, At, SessionOK
<1>5. DraftIsSound(u)'
  BY DEF DraftIsSound, SharesTemplate
<1>6. PublishesOwn(u)'
  BY DEF SessionOK, PublishesOwn, At
<1> QED
  BY <1>1, <1>3, <1>4, <1>5, <1>6 DEF SessionOK

Consistent(t) ==
  /\ Acceptable(t) /\ ChildrenAreSound(t)
  /\ t.preset => t.roles
  /\ series # "none" => t.time # NoTime
  /\ series = "active" => t.mode # "immediate"

LEMMA EndedLocks ==
  ASSUME IInv, NEW s \in Sessions, End(s)
  PROVE  /\ tx' \in [Sessions -> Transaction] /\ Exclusive' /\ SessionOK(s)'
         /\ \A u \in Sessions \ {s} : tx'[u] = tx[u]
BY EndFits, EndedHoldsNothing, LocksKept DEF IInv

LEMMA SaveStep ==
  ASSUME IInv, NEW s \in Sessions, OwnsTemplate(s), NEW t \in Template, Save(s, t), Consistent(t)
  PROVE  IInv'
<1>1. /\ template' = t /\ series' = series /\ events' = events /\ slots' = slots
      /\ organisersEnabled' = organisersEnabled /\ preset' = preset
      /\ issued' = issued /\ faults' = faults /\ End(s)
  BY DEF Save, Counted
<1>2. revision \in Nat \ {0} /\ source \in [1 .. revision -> Template]
      /\ template \in Template /\ source[revision] = template
  BY DEF IInv, TypeOK, StoredOK
<1>3. /\ revision' \in Nat \ {0} /\ revision' >= revision
      /\ source' \in [1 .. revision' -> Template]
      /\ \A r \in 1 .. revision : source'[r] = source[r]
      /\ source'[revision'] = t
  <2>1. CASE t = template
    BY <1>2, <2>1 DEF Save
  <2>2. CASE t # template
    BY <1>2, <2>2 DEF Save
  <2> QED
    BY <2>1, <2>2
<1>4. /\ tx' \in [Sessions -> Transaction] /\ Exclusive' /\ SessionOK(s)'
      /\ \A u \in Sessions \ {s} : tx'[u] = tx[u]
  BY <1>1, EndedLocks
<1>5. TypeOK'
  BY <1>1, <1>3, <1>4 DEF IInv, TypeOK
<1>6. TemplateIsConsistent'
  BY <1>1 DEF Consistent, TemplateIsConsistent, Acceptable, ChildrenAreSound, Of
<1>7. GeneratedFromOneRevision' /\ AllOrNothing'
  BY <1>1, <1>3, EventsStay DEF IInv, StoredOK
<1>8. NoNomineesWhileDisabled'
  BY <1>1 DEF NoNomineesWhileDisabled, IInv, StoredOK
<1>9. ASSUME NEW u \in Sessions \ {s} PROVE SessionOK(u)'
  BY <1>1, <1>2, <1>3, <1>4, <1>9, UnlockedKeep DEF IInv, Exclusive
<1> QED
  BY <1>1, <1>3, <1>4, <1>5, <1>6, <1>7, <1>8, <1>9 DEF IInv, StoredOK

\* The row an edit writes is the one it has validated.
LEMMA EditWriteStep == ASSUME IInv, NEW s \in Sessions, EditWrite(s) PROVE IInv'
<1> DEFINE t == tx[s].seen
<1>1. /\ t \in Template /\ template \in Template
      /\ tx[s].op = "edit" /\ tx[s].pc = "write"
      /\ Save(s, [c \in DOMAIN template |-> IF c \in tx[s].input THEN t[c] ELSE template[c]])
  BY DEF IInv, TypeOK, Transaction, EditWrite, At
<1>2. /\ Acceptable(t) /\ \A c \in Fields : c \notin tx[s].input => t[c] = template[c]
      /\ EditSuitsSeries(s) /\ EditSuitsReminders(s)
      /\ {"roles", "preset"} \cap tx[s].input # {} /\ t.preset => t.roles
  BY <1>1 DEF IInv, SessionOK, EditIsSound
<1>3. tx[s].input \subseteq Columns
  BY DEF IInv, TypeOK, Transaction
<1>4. DOMAIN template = Fields /\ t = [c \in Fields |-> t[c]]
  BY <1>1, TemplateFields DEF Template, Fields
<1>5. [c \in DOMAIN template |-> IF c \in tx[s].input THEN t[c] ELSE template[c]] = t
  BY <1>2, <1>4
<1>6. OwnsTemplate(s)
  BY <1>1 DEF OwnsTemplate, Mutations
<1>7. TemplateIsConsistent
  BY DEF IInv, StoredOK
<1> HIDE DEF t
<1>8. t.organisers = template.organisers /\ t.reminders = template.reminders
  BY <1>2, <1>3 DEF Fields, Columns
<1>9. ChildrenAreSound(t)
  <2>1. "signups" \notin tx[s].input => t.signups = template.signups
    BY <1>2 DEF Fields
  <2>2. Of(t, "signup_close") = Of(template, "signup_close")
    BY <1>8 DEF Of
  <2>3. "signups" \in tx[s].input /\ ~t.signups => Of(template, "signup_close") = {}
    BY <1>2 DEF EditSuitsReminders, t
  <2> QED
    BY <1>7, <1>8, <2>1, <2>2, <2>3 DEF ChildrenAreSound, TemplateIsConsistent
<1>10. t.preset => t.roles
  <2>1. "roles" \notin tx[s].input => t.roles = template.roles
    BY <1>2 DEF Fields
  <2>2. "preset" \notin tx[s].input => t.preset = template.preset
    BY <1>2 DEF Fields
  <2> QED
    BY <1>2, <1>7, <2>1, <2>2 DEF TemplateIsConsistent
<1>11. (series # "none" => t.time # NoTime) /\ (series = "active" => t.mode # "immediate")
  <2>1. "time" \notin tx[s].input => t.time = template.time
    BY <1>2 DEF Fields
  <2>2. "mode" \notin tx[s].input => t.mode = template.mode
    BY <1>2 DEF Fields
  <2> QED
    BY <1>2, <1>7, <2>1, <2>2 DEF TemplateIsConsistent, EditSuitsSeries, t
<1> QED
  BY <1>1, <1>2, <1>5, <1>6, <1>9, <1>10, <1>11, SaveStep DEF Consistent

\* A change of the child rows, or of the activity, that suits the columns.
LEMMA ChildStep ==
  ASSUME IInv, NEW s \in Sessions, tx[s].op \in Mutations \ {"edit"}, tx[s].pc = "write",
         NEW t \in Template, Save(s, t), ChildrenAreSound(t),
         \A c \in Columns \ {"active"} : t[c] = template[c]
  PROVE  IInv'
<1>1. OwnsTemplate(s)
  BY DEF OwnsTemplate
<1>2. /\ t.roles = template.roles /\ t.preset = template.preset /\ t.time = template.time
      /\ t.signups = template.signups /\ t.closes = template.closes /\ t.mode = template.mode
      /\ t.lead = template.lead
  BY DEF Columns
<1>3. Consistent(t)
  BY <1>2 DEF Consistent, IInv, StoredOK, TemplateIsConsistent, Acceptable
<1> QED
  BY <1>1, <1>3, SaveStep

\* What a mutation reads under its lock about sign-ups is so.
LEMMA SignupsAreSeen ==
  ASSUME IInv, NEW s \in Sessions, tx[s].op \in Mutations \ {"edit"}, tx[s].pc = "write"
  PROVE  tx[s].seen.signups = template.signups
BY DEF IInv, SessionOK, RowIsSeen, OwnsTemplate, Columns

LEMMA ReplacePingsStep == ASSUME IInv, NEW s \in Sessions, ReplacePings(s) PROVE IInv'
<1>1. PICK roles \in SUBSET PingRoles : Save(s, [template EXCEPT !.pings = roles])
  BY DEF ReplacePings
<1> DEFINE t == [template EXCEPT !.pings = roles]
<1>2. template \in Template /\ ChildrenAreSound(template)
  BY DEF IInv, TypeOK, StoredOK, TemplateIsConsistent
<1>3. t \in Template /\ \A c \in Columns : t[c] = template[c]
  BY <1>2 DEF Template, Columns
<1>4. ChildrenAreSound(t)
  BY <1>2 DEF ChildrenAreSound, Of, Template
<1> HIDE DEF t
<1> QED
  BY <1>1, <1>3, <1>4, ChildStep DEF ReplacePings, At, Mutations, t

LEMMA ReplaceOrganisersStep == ASSUME IInv, NEW s \in Sessions, ReplaceOrganisers(s) PROVE IInv'
<1>1. PICK o \in OrganiserRequests : Save(s, [template EXCEPT !.organisers = o])
  BY DEF ReplaceOrganisers
<1> DEFINE t == [template EXCEPT !.organisers = o]
<1>2. template \in Template /\ ChildrenAreSound(template)
  BY DEF IInv, TypeOK, StoredOK, TemplateIsConsistent
<1>3. t \in Template /\ \A c \in Columns : t[c] = template[c]
  BY <1>2 DEF Template, Columns, OrganiserRequests
<1>4. ChildrenAreSound(t)
  BY <1>2 DEF ChildrenAreSound, Of, Template, OrganiserRequests
<1> HIDE DEF t
<1> QED
  BY <1>1, <1>3, <1>4, ChildStep DEF ReplaceOrganisers, At, Mutations, t

LEMMA SetActiveStep == ASSUME IInv, NEW s \in Sessions, SetActive(s) PROVE IInv'
<1>1. PICK active \in BOOLEAN : Save(s, [template EXCEPT !.active = active])
  BY DEF SetActive
<1> DEFINE t == [template EXCEPT !.active = active]
<1>2. template \in Template /\ ChildrenAreSound(template)
  BY DEF IInv, TypeOK, StoredOK, TemplateIsConsistent
<1>3. t \in Template /\ \A c \in Columns \ {"active"} : t[c] = template[c]
  BY <1>2 DEF Template, Columns
<1>4. ChildrenAreSound(t)
  BY <1>2 DEF ChildrenAreSound, Of, Template
<1> HIDE DEF t
<1> QED
  BY <1>1, <1>3, <1>4, ChildStep DEF SetActive, At, Mutations, t

\* Reminder definitions, each of a kind that the sign-ups allow or as it was.
LEMMA RemindersStep ==
  ASSUME IInv, NEW s \in Sessions, tx[s].op \in Mutations \ {"edit"}, tx[s].pc = "write",
         NEW f \in [Reminders -> Kinds \cup {"none"}],
         Save(s, [template EXCEPT !.reminders = f]),
         \A r \in Reminders : MayUse(s, f[r]) \/ f[r] = template.reminders[r]
  PROVE  IInv'
<1> DEFINE t == [template EXCEPT !.reminders = f]
<1>1. template \in Template /\ ChildrenAreSound(template)
  BY DEF IInv, TypeOK, StoredOK, TemplateIsConsistent
<1>2. t \in Template /\ \A c \in Columns : t[c] = template[c]
  BY <1>1 DEF Template, Columns
<1>3. t.signups = template.signups /\ t.reminders = f /\ t.organisers = template.organisers
  BY <1>1 DEF Template
<1> HIDE DEF t
<1>4. ChildrenAreSound(t)
  BY <1>1, <1>3, SignupsAreSeen DEF ChildrenAreSound, Of, MayUse
<1> QED
  BY <1>2, <1>4, ChildStep DEF t

LEMMA AddOrEditReminderStep ==
  ASSUME IInv, NEW s \in Sessions, AddReminder(s) \/ EditReminder(s) PROVE IInv'
<1>1. PICK r \in Reminders, kind \in Kinds :
        MayUse(s, kind) /\ Save(s, [template EXCEPT !.reminders[r] = kind])
  BY DEF AddReminder, EditReminder, Of
<1> DEFINE f == [template.reminders EXCEPT ![r] = kind]
<1>2. template \in Template /\ template.reminders \in [Reminders -> Kinds \cup {"none"}]
  BY DEF IInv, TypeOK, Template
<1>3. f \in [Reminders -> Kinds \cup {"none"}]
  BY <1>2
<1>4. \A q \in Reminders : MayUse(s, f[q]) \/ f[q] = template.reminders[q]
  BY <1>1, <1>2
<1>5. Save(s, [template EXCEPT !.reminders = f])
  <2>1. [template EXCEPT !.reminders[r] = kind] = [template EXCEPT !.reminders = f]
    BY <1>2 DEF Template
  <2> QED
    BY <1>1, <2>1
<1> HIDE DEF f
<1> QED
  BY <1>3, <1>4, <1>5, RemindersStep DEF AddReminder, EditReminder, At, Mutations

LEMMA RemoveReminderStep == ASSUME IInv, NEW s \in Sessions, RemoveReminder(s) PROVE IInv'
<1>1. PICK r \in Reminders : Save(s, [template EXCEPT !.reminders[r] = "none"])
  BY DEF RemoveReminder, Of
<1> DEFINE f == [template.reminders EXCEPT ![r] = "none"]
<1>2. template \in Template /\ template.reminders \in [Reminders -> Kinds \cup {"none"}]
  BY DEF IInv, TypeOK, Template
<1>3. f \in [Reminders -> Kinds \cup {"none"}]
  BY <1>2
<1>4. \A q \in Reminders : MayUse(s, f[q]) \/ f[q] = template.reminders[q]
  BY <1>2 DEF MayUse
<1>5. Save(s, [template EXCEPT !.reminders = f])
  <2>1. [template EXCEPT !.reminders[r] = "none"] = [template EXCEPT !.reminders = f]
    BY <1>2 DEF Template
  <2> QED
    BY <1>1, <2>1
<1> HIDE DEF f
<1> QED
  BY <1>3, <1>4, <1>5, RemindersStep DEF RemoveReminder, At, Mutations

LEMMA ReplaceRemindersStep == ASSUME IInv, NEW s \in Sessions, ReplaceReminders(s) PROVE IInv'
BY RemindersStep DEF ReplaceReminders, At, Mutations

\* The series changes under the lock of the template, and as its row allows.
LEMMA WriteSeriesStep ==
  ASSUME IInv, NEW s \in Sessions, OwnsTemplate(s),
         NEW state \in {"none", "active", "paused"}, WriteSeries(s, state),
         \/ state = series
         \/ state = "paused" /\ series # "none"
         \/ state = "active" /\ SeriesIsGenerable(template)
  PROVE  IInv'
<1>1. /\ UNCHANGED <<template, revision, events, slots, organisersEnabled, preset, source>>
      /\ series' = state /\ issued' = issued /\ faults' = faults /\ End(s)
  BY DEF WriteSeries, Counted
<1>2. /\ tx' \in [Sessions -> Transaction] /\ Exclusive' /\ SessionOK(s)'
      /\ \A u \in Sessions \ {s} : tx'[u] = tx[u]
  BY <1>1, EndedLocks
<1>3. TypeOK'
  BY <1>1, <1>2 DEF IInv, TypeOK
<1>4. TemplateIsConsistent'
  BY <1>1 DEF TemplateIsConsistent, Acceptable, ChildrenAreSound, Of, SeriesIsGenerable, IInv,
              StoredOK
<1>5. GeneratedFromOneRevision' /\ AllOrNothing' /\ NoNomineesWhileDisabled'
  BY <1>1 DEF GeneratedFromOneRevision, Copies, AllOrNothing, NoNomineesWhileDisabled, IInv,
              StoredOK
<1>6. ASSUME NEW u \in Sessions \ {s} PROVE SessionOK(u)'
  BY <1>1, <1>2, <1>6, UnlockedKeep DEF IInv, Exclusive, TypeOK
<1> QED
  BY <1>1, <1>2, <1>3, <1>4, <1>5, <1>6 DEF IInv, StoredOK

LEMMA SeriesStep ==
  ASSUME IInv, NEW s \in Sessions, CreateSeries(s) \/ SetSeriesActive(s) PROVE IInv'
<1>1. tx[s].op \in SeriesOps /\ tx[s].pc = "write" /\ OwnsTemplate(s)
  BY DEF CreateSeries, SetSeriesActive, At, OwnsTemplate, SeriesOps
<1>2. SeriesIsGenerable(tx[s].seen) <=> SeriesIsGenerable(template)
  BY <1>1 DEF SeriesIsGenerable, IInv, SessionOK, RowIsSeen, Columns, SeriesOps
<1>3. series \in {"none", "active", "paused"}
  BY DEF IInv, TypeOK
<1>4. CASE CreateSeries(s)
  BY <1>1, <1>2, <1>3, <1>4, WriteSeriesStep DEF CreateSeries
<1>5. CASE SetSeriesActive(s)
  <2>1. series # "none"
    BY <1>5 DEF SetSeriesActive, IInv, SessionOK, RowIsSeen
  <2> QED
    BY <2>1, <1>1, <1>2, <1>3, <1>5, WriteSeriesStep DEF SetSeriesActive
<1> QED
  BY <1>4, <1>5

-----------------------------------------------------------------------------
(* The commit of a generation.                                             *)

\* What is committed is a copy of the template as it is now.
LEMMA DraftIsACopy ==
  ASSUME IInv, NEW s \in Sessions, tx[s].op \in Generations, tx[s].pc = "commit"
  PROVE  /\ Draft(s) \in Event
         /\ Draft(s).rev = revision /\ Draft(s).date = tx[s].date
         /\ Draft(s).applied = template.preset
         /\ Copies(Draft(s), template)
         /\ Draft(s).chosen \/ Draft(s).start = template.time
         /\ ~organisersEnabled => Draft(s).organisers = {}
         /\ ("slot" \in tx[s].wrote) = (tx[s].op = "slot")
         /\ tx[s].op = "slot" => tx[s].date \in Dates \ slots
         /\ tx[s].op = "generate" => tx[s].date = NoDate
<1> DEFINE x == tx[s]
<1>1. /\ x \in Transaction /\ x.seen \in Template /\ template \in Template /\ revision \in Nat
  BY DEF IInv, TypeOK, Transaction
<1>2. SharesTemplate(s)
  BY DEF SharesTemplate, Drafting
<1>3. \A c \in Columns : x.seen[c] = template[c]
  BY <1>2 DEF IInv, SessionOK, RowIsSeen
<1>4. /\ x.seen.preset = template.preset /\ x.seen.signups = template.signups
      /\ x.seen.closes = template.closes /\ x.seen.mode = template.mode
      /\ x.seen.lead = template.lead
  BY <1>3 DEF Columns
<1>5. /\ x.rev = revision /\ x.start \in Times /\ (x.chosen \/ x.start = template.time)
      /\ x.op = "slot" => x.date \in Dates
      /\ x.op = "generate" => x.date = NoDate
  BY <1>2 DEF IInv, SessionOK, StartIsSound
<1>6. /\ x.snapshot = organisersEnabled /\ x.seen.pings = template.pings
      /\ x.seen.organisers = template.organisers /\ x.seen.reminders = template.reminders
      /\ ("preset" \in x.wrote) = x.seen.preset
      /\ ("slot" \in x.wrote) = (x.op = "slot") /\ (x.op = "slot" => x.date \notin slots)
  BY DEF IInv, SessionOK, DraftIsSound, Drafting
<1>7. Draft(s) \in Event
  BY <1>1, <1>5 DEF Draft, Event, Transaction, Template
<1>8. Copies(Draft(s), template)
  BY <1>4, <1>6 DEF Copies, Draft
<1>9. Draft(s).applied = template.preset
  BY <1>4, <1>6 DEF Draft
<1>10. ~organisersEnabled => Draft(s).organisers = {}
  BY <1>6 DEF Draft
<1>11. Draft(s).rev = revision /\ Draft(s).date = tx[s].date /\ Draft(s).chosen = tx[s].chosen
       /\ Draft(s).start = tx[s].start
  BY <1>5 DEF Draft
<1> QED
  BY <1>5, <1>6, <1>7, <1>8, <1>9, <1>10, <1>11

LEMMA CommitStep == ASSUME IInv, NEW s \in Sessions, Commit(s) PROVE IInv'
<1> DEFINE e == Draft(s)
           n == Len(events) + 1
<1>1. /\ tx[s].op \in Generations /\ tx[s].pc = "commit" /\ tx[s] \in Transaction
      /\ events' = Append(events, e) /\ events \in Seq(Event)
      /\ slots' = IF "slot" \in tx[s].wrote THEN slots \cup {tx[s].date} ELSE slots
      /\ UNCHANGED <<template, revision, series, organisersEnabled, preset, source, issued, faults>>
      /\ source[revision] = template /\ revision \in Nat \ {0}
      /\ source \in [1 .. revision -> Template]
      /\ tx \in [Sessions -> Transaction]
  BY DEF Commit, Counted, IInv, TypeOK, StoredOK
<1>2. /\ e \in Event /\ e.rev = revision /\ e.date = tx[s].date /\ e.applied = template.preset
      /\ Copies(e, template) /\ (e.chosen \/ e.start = template.time)
      /\ ~organisersEnabled => e.organisers = {}
      /\ ("slot" \in tx[s].wrote) = (tx[s].op = "slot")
      /\ tx[s].op = "slot" => tx[s].date \in Dates \ slots
      /\ tx[s].op = "generate" => tx[s].date = NoDate
  BY <1>1, DraftIsACopy
<1> HIDE DEF e
<1>3. /\ events' \in Seq(Event) /\ DOMAIN events = 1 .. Len(events) /\ Len(events) \in Nat
      /\ DOMAIN events' = 1 .. n /\ events'[n] = e
      /\ \A i \in DOMAIN events : events'[i] = events[i]
  BY <1>1, <1>2, AppendProperties
<1>4. DOMAIN events' = DOMAIN events \cup {n} /\ n \notin DOMAIN events
  BY <1>3
<1> HIDE DEF n
<1>5. GeneratedFromOneRevision'
  <2>1. ASSUME NEW i \in DOMAIN events'
        PROVE  /\ events'[i].rev \in DOMAIN source
               /\ Copies(events'[i], source[events'[i].rev])
               /\ events'[i].chosen \/ events'[i].start = source[events'[i].rev].time
    <3>1. CASE i = n
      BY <1>1, <1>2, <1>3, <3>1
    <3>2. CASE i \in DOMAIN events
      BY <1>3, <3>2 DEF IInv, StoredOK, GeneratedFromOneRevision
    <3> QED
      BY <1>4, <2>1, <3>1, <3>2
  <2> QED
    BY <1>1, <2>1 DEF GeneratedFromOneRevision, Copies
<1>6. AllOrNothing'
  <2>1. ASSUME NEW i \in DOMAIN events'
        PROVE  events'[i].applied = source[events'[i].rev].preset
    <3>1. CASE i = n
      BY <1>1, <1>2, <1>3, <3>1
    <3>2. CASE i \in DOMAIN events
      BY <1>3, <3>2 DEF IInv, StoredOK, AllOrNothing
    <3> QED
      BY <1>4, <2>1, <3>1, <3>2
  <2>2. slots = {events[i].date : i \in DOMAIN events} \ {NoDate}
    BY DEF IInv, StoredOK, AllOrNothing
  <2>3. {events'[i].date : i \in DOMAIN events'}
          = {events[i].date : i \in DOMAIN events} \cup {tx[s].date}
    <3>1. ASSUME NEW d \in {events'[i].date : i \in DOMAIN events'}
          PROVE  d \in {events[i].date : i \in DOMAIN events} \cup {tx[s].date}
      <4>1. PICK i \in DOMAIN events' : d = events'[i].date
        BY <3>1
      <4>2. CASE i = n
        BY <1>2, <1>3, <4>1, <4>2
      <4>3. CASE i \in DOMAIN events
        BY <1>3, <4>1, <4>3
      <4> QED
        BY <1>4, <4>2, <4>3
    <3>2. ASSUME NEW d \in {events[i].date : i \in DOMAIN events}
          PROVE  d \in {events'[i].date : i \in DOMAIN events'}
      <4>1. PICK i \in DOMAIN events : d = events[i].date
        BY <3>2
      <4>2. events'[i].date = d /\ i \in DOMAIN events'
        BY <1>3, <1>4, <4>1
      <4> QED
        BY <4>2
    <3>3. tx[s].date \in {events'[i].date : i \in DOMAIN events'}
      <4>1. n \in DOMAIN events' /\ events'[n].date = tx[s].date
        BY <1>2, <1>3, <1>4
      <4> QED
        BY <4>1
    <3> QED
      BY <3>1, <3>2, <3>3
  <2>4. tx[s].op = "slot" => tx[s].date # NoDate
    BY <1>2, NothingAssumption
  <2>5. slots' = {events'[i].date : i \in DOMAIN events'} \ {NoDate}
    <3>1. CASE tx[s].op = "slot"
      BY <1>1, <1>2, <2>2, <2>3, <2>4, <3>1
    <3>2. CASE tx[s].op = "generate"
      BY <1>1, <1>2, <2>2, <2>3, <3>2
    <3> QED
      BY <1>1, <3>1, <3>2 DEF Generations
  <2>6. \A i \in DOMAIN events : events[i].date # NoDate => events[i].date \in slots
    BY <2>2
  <2>7. tx[s].date # NoDate => tx[s].date \notin slots
    BY <1>1, <1>2 DEF Generations
  <2>8. ASSUME NEW i \in DOMAIN events', NEW j \in DOMAIN events',
               events'[i].date # NoDate, events'[i].date = events'[j].date
        PROVE  i = j
    <3>1. CASE i \in DOMAIN events /\ j \in DOMAIN events
      BY <1>3, <2>8, <3>1 DEF IInv, StoredOK, AllOrNothing
    <3>2. CASE i = n \/ j = n
      BY <1>2, <1>3, <1>4, <2>6, <2>7, <2>8, <3>2
    <3> QED
      BY <1>4, <3>1, <3>2
  <2> QED
    BY <1>1, <2>1, <2>5, <2>8 DEF AllOrNothing
<1>7. NoNomineesWhileDisabled' /\ TemplateIsConsistent'
  BY <1>1, <1>2, <1>3, <1>4 DEF IInv, StoredOK, NoNomineesWhileDisabled, TemplateIsConsistent,
                                Acceptable, ChildrenAreSound, Of
<1>8. /\ tx' \in [Sessions -> Transaction] /\ \A u \in Sessions \ {s} : tx'[u] = tx[u]
      /\ SessionOK(s)' /\ Exclusive'
  <2>1. CASE End(s)
    BY <2>1, EndedLocks
  <2>2. CASE ~End(s)
    <3> DEFINE x == [tx[s] EXCEPT !.pc = "publish", !.event = n]
    <3>1. /\ tx' = [tx EXCEPT ![s].pc = "publish", ![s].event = n] /\ tx[s].op = "generate"
          /\ n \in Nat /\ n \in DOMAIN events'
      BY <1>3, <1>4, <2>2 DEF Commit, n
    <3>2. /\ x \in Transaction /\ x.op = "generate" /\ x.pc = "publish" /\ x.event = n
          /\ x.date = tx[s].date
      BY <1>1, <3>1 DEF Transaction
    <3>3. tx' = [tx EXCEPT ![s] = x]
      BY <1>1, <3>1
    <3> HIDE DEF x
    <3>4. /\ tx' \in [Sessions -> Transaction] /\ tx'[s] = x
          /\ \A u \in Sessions \ {s} : tx'[u] = tx[u]
      BY <3>2, <3>3, Advances DEF IInv
    <3>5. /\ ~OwnsTemplate(s)' /\ ~SharesTemplate(s)' /\ ~OwnsSeries(s)'
          /\ ~OwnsSettings(s)' /\ ~SharesSettings(s)'
      BY <3>2, <3>4 DEF OwnsTemplate, SharesTemplate, OwnsSeries, OwnsSettings, SharesSettings,
                        At, Drafting, Mutations, SeriesOps
    <3>6. Exclusive'
      BY <3>4, <3>5, LocksKept DEF IInv
    <3>7. SessionOK(s)'
      BY <1>2, <3>1, <3>2, <3>4, <3>5 DEF SessionOK, EditIsSound, RowIsSeen, StartIsSound,
                                          DraftIsSound, PublishesOwn, At, Drafting
    <3> QED
      BY <3>4, <3>6, <3>7
  <2> QED
    BY <2>1, <2>2
<1>9. slots' \subseteq Dates
  BY <1>1, <1>2 DEF IInv, TypeOK
<1>10. TypeOK'
  BY <1>1, <1>3, <1>8, <1>9 DEF IInv, TypeOK
<1>11. ASSUME NEW u \in Sessions \ {s} PROVE SessionOK(u)'
  <2>1. SessionOK(u) /\ tx'[u] = tx[u]
    BY <1>8 DEF IInv
  <2>2. EditIsSound(u)'
    BY <1>1, <2>1 DEF SessionOK, EditIsSound, EditSuitsSeries, EditSuitsReminders
  <2>3. RowIsSeen(u)'
    BY <1>1, <2>1 DEF SessionOK, RowIsSeen, OwnsTemplate, SharesTemplate, At
  <2>4. StartIsSound(u)'
    BY <1>1, <2>1 DEF SessionOK, StartIsSound, SharesTemplate, At
  <2>5. PublishesOwn(u)'
    BY <1>4, <2>1 DEF SessionOK, PublishesOwn, At
  <2>6. tx[u].op = "slot" /\ tx[u].pc = "commit" => slots' = slots
    <3>1. SUFFICES ASSUME tx[u].op = "slot", tx[u].pc = "commit", tx[s].op = "slot" PROVE FALSE
      BY <1>1, <1>2
    <3>2. OwnsSeries(u) /\ OwnsSeries(s)
      BY <1>1, <3>1 DEF OwnsSeries, Drafting
    <3> QED
      BY <1>11, <3>2 DEF IInv, Exclusive
  <2>7. DraftIsSound(u)
    BY <2>1 DEF SessionOK
  <2>8. DraftIsSound(u)'
    BY <1>1, <2>1, <2>6, <2>7 DEF DraftIsSound
  <2> QED
    BY <2>2, <2>3, <2>4, <2>5, <2>8 DEF SessionOK
<1> QED
  BY <1>1, <1>5, <1>6, <1>7, <1>8, <1>10, <1>11 DEF IInv, StoredOK


-----------------------------------------------------------------------------
(* Publication, the feature and the preset: events keep what they are a    *)
(* copy of.                                                                *)

LEMMA EventsStep ==
  ASSUME IInv, NEW s \in Sessions, End(s), issued' = issued, faults' = faults,
         UNCHANGED <<template, revision, series, slots, source>>,
         organisersEnabled' \in BOOLEAN, preset' \in PresetStates,
         organisersEnabled' # organisersEnabled => OwnsSettings(s),
         events' \in Seq(Event), DOMAIN events' = DOMAIN events,
         \A i \in DOMAIN events :
           LET e == events[i]  f == events'[i] IN
           /\ f.rev = e.rev /\ f.start = e.start /\ f.chosen = e.chosen /\ f.date = e.date
           /\ f.signups = e.signups /\ f.closes = e.closes /\ f.mode = e.mode /\ f.lead = e.lead
           /\ f.pings = e.pings /\ f.reminders = e.reminders /\ f.applied = e.applied
           /\ f.organisers \in {e.organisers, {}}
           /\ ~organisersEnabled' => f.organisers = {}
  PROVE  IInv'
<1>1. /\ template' = template /\ revision' = revision /\ series' = series /\ slots' = slots
      /\ source' = source /\ revision \in Nat \ {0} /\ source \in [1 .. revision -> Template]
  BY DEF IInv, TypeOK
<1>2. /\ tx' \in [Sessions -> Transaction] /\ Exclusive' /\ SessionOK(s)'
      /\ \A u \in Sessions \ {s} : tx'[u] = tx[u]
  BY EndedLocks
<1>3. TypeOK'
  BY <1>1, <1>2 DEF IInv, TypeOK
<1>4. GeneratedFromOneRevision' /\ AllOrNothing'
  <2>1. revision' \in Nat /\ revision' >= revision /\ DOMAIN source' = 1 .. revision'
        /\ \A r \in 1 .. revision : source'[r] = source[r]
    BY <1>1
  <2> QED
    BY <1>1, <2>1, EventsStay DEF IInv, StoredOK
<1>5. NoNomineesWhileDisabled'
  BY DEF NoNomineesWhileDisabled
<1>6. TemplateIsConsistent' /\ source'[revision'] = template'
  BY <1>1 DEF IInv, StoredOK, TemplateIsConsistent, Acceptable, ChildrenAreSound, Of
<1>7. ASSUME NEW u \in Sessions \ {s} PROVE SessionOK(u)'
  <2>1. SessionOK(u) /\ tx'[u] = tx[u]
    BY <1>2 DEF IInv
  <2>2. EditIsSound(u)'
    BY <1>1, <2>1 DEF SessionOK, EditIsSound, EditSuitsSeries, EditSuitsReminders
  <2>3. RowIsSeen(u)'
    BY <1>1, <2>1 DEF SessionOK, RowIsSeen, OwnsTemplate, SharesTemplate, At
  <2>4. StartIsSound(u)'
    BY <1>1, <2>1 DEF SessionOK, StartIsSound, SharesTemplate, At
  <2>5. PublishesOwn(u)'
    BY <2>1 DEF SessionOK, PublishesOwn, At
  <2>6. DraftIsSound(u)'
    <3>1. CASE organisersEnabled' = organisersEnabled
      BY <1>1, <2>1, <3>1 DEF SessionOK, DraftIsSound
    <3>2. CASE organisersEnabled' # organisersEnabled
      <4>1. ~SharesSettings(u)
        BY <1>7, <3>2 DEF IInv, Exclusive
      <4>2. ~(tx[u].op \in Generations /\ tx[u].pc \in Drafting) \/ tx[u].pc = "settings"
        BY <4>1 DEF SharesSettings
      <4> QED
        BY <2>1, <4>2 DEF DraftIsSound
    <3> QED
      BY <3>1, <3>2
  <2> QED
    BY <2>2, <2>3, <2>4, <2>5, <2>6 DEF SessionOK
<1> QED
  BY <1>2, <1>3, <1>4, <1>5, <1>6, <1>7 DEF IInv, StoredOK

LEMMA EventsAreSequence ==
  ASSUME events \in Seq(Event)
  PROVE  /\ DOMAIN events = 1 .. Len(events) /\ Len(events) \in Nat
         /\ \A i \in DOMAIN events : events[i] \in Event
OBVIOUS

LEMMA PublishStep == ASSUME IInv, NEW s \in Sessions, Publish(s) PROVE IInv'
<1>1. PICK published \in BOOLEAN : events' = [events EXCEPT ![tx[s].event].published = published]
  BY DEF Publish
<1>2. /\ events \in Seq(Event) /\ tx[s].event \in DOMAIN events
      /\ organisersEnabled \in BOOLEAN /\ preset \in PresetStates
  BY DEF Publish, IInv, TypeOK, SessionOK, PublishesOwn
<1> DEFINE n == tx[s].event
           e == [events[n] EXCEPT !.published = published]
<1>3. e \in Event /\ events' = [events EXCEPT ![n] = e]
  BY <1>1, <1>2, EventsAreSequence DEF Event
<1>4. /\ e.rev = events[n].rev /\ e.start = events[n].start /\ e.chosen = events[n].chosen
      /\ e.date = events[n].date /\ e.signups = events[n].signups
      /\ e.closes = events[n].closes /\ e.mode = events[n].mode /\ e.lead = events[n].lead
      /\ e.pings = events[n].pings /\ e.reminders = events[n].reminders
      /\ e.applied = events[n].applied /\ e.organisers = events[n].organisers
  BY <1>2, EventsAreSequence DEF Event
<1> HIDE DEF e
<1>5. events' \in Seq(Event) /\ DOMAIN events' = DOMAIN events
      /\ \A i \in DOMAIN events : events'[i] = IF i = n THEN e ELSE events[i]
  BY <1>2, <1>3, EventsAreSequence, SeqDef
<1>6. ~organisersEnabled => \A i \in DOMAIN events : events[i].organisers = {}
  BY DEF IInv, StoredOK, NoNomineesWhileDisabled
<1> HIDE DEF n
<1>8. End(s) /\ issued' = issued /\ faults' = faults
      /\ UNCHANGED <<template, revision, series, slots, source>>
      /\ organisersEnabled' = organisersEnabled /\ preset' = preset
  BY DEF Publish, Counted
<1>7. ASSUME NEW i \in DOMAIN events
      PROVE  LET d == events[i]  f == events'[i] IN
             /\ f.rev = d.rev /\ f.start = d.start /\ f.chosen = d.chosen /\ f.date = d.date
             /\ f.signups = d.signups /\ f.closes = d.closes /\ f.mode = d.mode /\ f.lead = d.lead
             /\ f.pings = d.pings /\ f.reminders = d.reminders /\ f.applied = d.applied
             /\ f.organisers \in {d.organisers, {}}
             /\ ~organisersEnabled' => f.organisers = {}
  BY <1>4, <1>5, <1>6, <1>8
<1> QED
  BY <1>2, <1>5, <1>7, <1>8, EventsStep

LEMMA SetFeatureStep == ASSUME IInv, NEW s \in Sessions, SetFeature(s) PROVE IInv'
<1>1. PICK enabled \in BOOLEAN :
        /\ organisersEnabled' = enabled
        /\ events' = IF enabled THEN events
                     ELSE [i \in DOMAIN events |-> [events[i] EXCEPT !.organisers = {}]]
  BY DEF SetFeature
<1>2. /\ events \in Seq(Event) /\ organisersEnabled \in BOOLEAN /\ preset \in PresetStates
      /\ End(s) /\ issued' = issued /\ faults' = faults
      /\ UNCHANGED <<template, revision, series, slots, source>>
      /\ preset' = preset /\ OwnsSettings(s)
  BY DEF SetFeature, Counted, IInv, TypeOK, OwnsSettings
<1>3. ASSUME NEW i \in DOMAIN events
      PROVE  [events[i] EXCEPT !.organisers = {}] \in Event
  BY <1>2, <1>3, EventsAreSequence DEF Event
<1>4. events' \in Seq(Event) /\ DOMAIN events' = DOMAIN events
      /\ \A i \in DOMAIN events :
           events'[i] = IF enabled THEN events[i] ELSE [events[i] EXCEPT !.organisers = {}]
  BY <1>1, <1>2, <1>3, EventsAreSequence, SeqDef
<1>5. ASSUME NEW i \in DOMAIN events
      PROVE  LET d == events[i]  f == events'[i] IN
             /\ f.rev = d.rev /\ f.start = d.start /\ f.chosen = d.chosen /\ f.date = d.date
             /\ f.signups = d.signups /\ f.closes = d.closes /\ f.mode = d.mode /\ f.lead = d.lead
             /\ f.pings = d.pings /\ f.reminders = d.reminders /\ f.applied = d.applied
             /\ f.organisers \in {d.organisers, {}}
             /\ ~organisersEnabled' => f.organisers = {}
  <2>1. events[i] \in Event
    BY <1>2, <1>5, EventsAreSequence
  <2>2. CASE enabled
    BY <1>1, <1>4, <1>5, <2>2
  <2>3. CASE ~enabled
    <3>1. events'[i] = [events[i] EXCEPT !.organisers = {}]
      BY <1>4, <1>5, <2>3
    <3> QED
      BY <2>1, <3>1 DEF Event
  <2> QED
    BY <2>2, <2>3
<1> QED
  BY <1>1, <1>2, <1>4, <1>5, EventsStep

LEMMA SetPresetStep == ASSUME IInv, NEW s \in Sessions, SetPreset(s) PROVE IInv'
<1>1. /\ End(s) /\ issued' = issued /\ faults' = faults /\ preset' \in PresetStates
      /\ UNCHANGED <<template, revision, series, slots, source>>
      /\ organisersEnabled' = organisersEnabled /\ events' = events
  BY DEF SetPreset, Counted
<1>2. organisersEnabled \in BOOLEAN /\ events \in Seq(Event)
  BY DEF IInv, TypeOK
<1>3. ~organisersEnabled => \A i \in DOMAIN events : events[i].organisers = {}
  BY DEF IInv, StoredOK, NoNomineesWhileDisabled
<1> QED
  BY <1>1, <1>2, <1>3, EventsStep

-----------------------------------------------------------------------------
(* The theorems.                                                           *)

LEMMA AdministerStep == ASSUME IInv, NEW s \in Sessions, Administer(s) PROVE IInv'
BY EditLockStep, EditSeriesStep, EditRemindersStep, EditRelationsStep, EditWriteStep,
   MutationLockStep, MutationRefusedStep, ReplacePingsStep, ReplaceOrganisersStep, SetActiveStep,
   AddOrEditReminderStep, RemoveReminderStep, ReplaceRemindersStep, SeriesLockStep, SeriesStep,
   SetSeriesLockStep, FeatureOrPresetLockStep, SetFeatureStep, SetPresetStep
   DEF Administer

LEMMA GenerateStep == ASSUME IInv, NEW s \in Sessions, Generate(s) PROVE IInv'
BY InspectStep, SlotTemplateStep, SlotSeriesStep, GenerationLockStep, GenerationSettingsStep,
   GenerationRefusedStep, ReadPingsStep, ReadOrganisersStep, ReadRemindersStep, InsertEventStep,
   ApplyPresetStep, RecordSlotStep, CommitStep, PublishStep
   DEF Generate

LEMMA Starts == ASSUME Init PROVE IInv
<1>1. /\ template \in Seeds /\ template \in Template /\ revision = 1 /\ Seeds # {}
      /\ source = [r \in {1} |-> template] /\ series \in {"none", "active"}
      /\ series = "active" => template.time # NoTime /\ template.mode # "immediate"
      /\ events = << >> /\ slots = {} /\ organisersEnabled = TRUE /\ preset = "usable"
      /\ tx = [s \in Sessions |-> Idle] /\ issued = 0 /\ faults = 0
  BY SeedsAssumption DEF Init
<1>2. TypeOK
  <2>1. Idle \in Transaction
    BY <1>1, IdleFits
  <2>2. {1} = 1 .. 1
    OBVIOUS
  <2> QED
    BY <1>1, <2>1, <2>2 DEF TypeOK, PresetStates
<1>3. TemplateIsConsistent
  BY <1>1, SeedsAssumption DEF TemplateIsConsistent
<1>4. GeneratedFromOneRevision /\ AllOrNothing /\ NoNomineesWhileDisabled
  BY <1>1 DEF GeneratedFromOneRevision, AllOrNothing, NoNomineesWhileDisabled
<1>5. ASSUME NEW s \in Sessions
      PROVE  tx[s].op = "none" /\ tx[s].pc = "idle" /\ tx[s].date = NoDate
  BY <1>1 DEF Idle
<1>6. ASSUME NEW s \in Sessions
      PROVE  /\ SessionOK(s)
             /\ ~OwnsTemplate(s) /\ ~SharesTemplate(s) /\ ~OwnsSeries(s)
             /\ ~OwnsSettings(s) /\ ~SharesSettings(s)
  BY <1>5 DEF SessionOK, EditIsSound, RowIsSeen, StartIsSound, DraftIsSound, PublishesOwn,
              OwnsTemplate, SharesTemplate, OwnsSeries, OwnsSettings, SharesSettings,
              At, Mutations, SeriesOps, Generations
<1>7. Exclusive
  BY <1>6 DEF Exclusive
<1> QED
  BY <1>1, <1>2, <1>3, <1>4, <1>6, <1>7 DEF IInv, StoredOK

LEMMA TxMoves == ASSUME IInv, [Next]_vars PROVE IInv'
<1>1. CASE UNCHANGED vars
  <2>1. UNCHANGED stored /\ tx' = tx /\ issued' = issued /\ faults' = faults
    BY <1>1 DEF vars
  <2>2. TypeOK' /\ StoredOK'
    BY <2>1 DEF IInv, stored, TypeOK, StoredOK, TemplateIsConsistent, Acceptable,
                ChildrenAreSound, Of, GeneratedFromOneRevision, Copies, AllOrNothing,
                NoNomineesWhileDisabled
  <2>3. Exclusive'
    BY <2>1 DEF IInv, Exclusive, OwnsTemplate, SharesTemplate, OwnsSeries, OwnsSettings,
                SharesSettings, At
  <2>4. \A u \in Sessions : SessionOK(u)'
    BY <2>1, OthersKeep DEF IInv
  <2> QED
    BY <2>2, <2>3, <2>4 DEF IInv
<1>2. ASSUME NEW s \in Sessions, Begin(s) \/ Abandon(s) \/ Step(s) PROVE IInv'
  BY <1>2, BeginStep, AbandonStep, AdministerStep, GenerateStep DEF Step
<1> QED
  BY <1>1, <1>2 DEF Next

LEMMA Invariance == Spec => []IInv
BY Starts, TxMoves, PTL DEF Spec

\* Every variable keeps its type: the templates, drafts and events that the
\* statements of administration and generation put together are rows.
THEOREM TypeCorrect == Spec => []TypeOK
<1>1. IInv => TypeOK
  BY DEF IInv
<1> QED
  BY <1>1, Invariance, PTL

\* The template, its child rows and its series agree whatever administration
\* interleaves: each command checks only what it changes, and holds the lock
\* that keeps the rest as it was when another command checked it.
THEOREM ConsistencyHolds == Spec => []TemplateIsConsistent
<1>1. IInv => TemplateIsConsistent
  BY DEF IInv, StoredOK
<1> QED
  BY <1>1, Invariance, PTL

LEMMA OffsetsAreNatural == \A n \in Offsets \cup {NoOffset} : n \in Nat
<1>1. \A n \in Offsets : n \in Nat
  BY OffsetsAssumption
<1> QED
  BY <1>1 DEF NoOffset

\* The checks that generation repeats on what it has read never refuse: the
\* lock keeps parent and children as administration left them.
THEOREM GenerationFindsNothingInvalid == Spec => []NeverInvalid
<1>1. ASSUME IInv, NEW s \in Sessions
      PROVE  /\ tx[s].op \in Generations /\ tx[s].pc = "settings" => RowIsSound(tx[s].seen)
             /\ tx[s].op \in Generations /\ tx[s].pc = "insert" => ChildrenAreSound(tx[s].seen)
             /\ At(s, "slot", "series") /\ series # "none" => tx[s].seen.time # NoTime
  <2>1. SharesTemplate(s) => \A c \in Columns : tx[s].seen[c] = template[c]
    BY <1>1 DEF IInv, SessionOK, RowIsSeen
  <2>2. /\ template \in Template /\ tx[s].seen \in Template /\ Acceptable(template)
        /\ ChildrenAreSound(template) /\ (series # "none" => template.time # NoTime)
    BY <1>1 DEF IInv, TypeOK, StoredOK, TemplateIsConsistent, Transaction
  <2>3. CASE tx[s].op \in Generations /\ tx[s].pc = "settings"
    <3>1. /\ tx[s].seen.mode = template.mode /\ tx[s].seen.lead = template.lead
          /\ tx[s].seen.signups = template.signups /\ tx[s].seen.closes = template.closes
      BY <2>1, <2>3 DEF SharesTemplate, Drafting, Columns
    <3>2. template.lead \in Nat
      <4>1. template \in Template
        BY <2>2
      <4>2. template.lead \in Offsets \cup {NoOffset}
        BY <4>1 DEF Template
      <4> QED
        BY <4>2, OffsetsAreNatural
    <3>3. template.lead # NoOffset => template.lead > 0
      BY <3>2 DEF NoOffset
    <3>4. (template.mode = "scheduled") <=> template.lead # NoOffset
      BY <2>2 DEF Acceptable
    <3>5. template.signups /\ template.mode = "scheduled" => template.lead > template.closes
      BY <2>2 DEF Acceptable
    <3>6. RowIsSound(tx[s].seen)
      BY <3>1, <3>3, <3>4, <3>5 DEF RowIsSound
    <3> QED
      BY <2>3, <3>6 DEF At
  <2>4. CASE tx[s].op \in Generations /\ tx[s].pc = "insert"
    <3>1. tx[s].seen.signups = template.signups
      BY <2>1, <2>4 DEF SharesTemplate, Drafting, Columns
    <3>2. tx[s].seen.organisers = template.organisers /\ tx[s].seen.reminders = template.reminders
      BY <1>1, <2>4 DEF IInv, SessionOK, DraftIsSound, Drafting
    <3>3. ChildrenAreSound(tx[s].seen)
      BY <2>2, <3>1, <3>2 DEF ChildrenAreSound, Of
    <3> QED
      BY <2>4, <3>3 DEF At
  <2>5. CASE At(s, "slot", "series")
    BY <2>1, <2>2, <2>5 DEF SharesTemplate, At, Columns
  <2> QED
    BY <2>3, <2>4, <2>5
<1>2. IInv => NeverInvalid
  BY <1>1 DEF NeverInvalid
<1> QED
  BY <1>2, Invariance, PTL

\* An event is a copy of one revision of its template, its start included,
\* although /template generate computes the start before it takes the lock.
THEOREM CopiesOneRevision == Spec => []GeneratedFromOneRevision
<1>1. IInv => GeneratedFromOneRevision
  BY DEF IInv, StoredOK
<1> QED
  BY <1>1, Invariance, PTL

\* An event that is listed as current is what the template would give now,
\* because every mutation moves updated_at.
THEOREM CurrentIsUnchanged == Spec => []CurrentMeansUnchanged
<1>1. IInv => CurrentMeansUnchanged
  BY DEF IInv, StoredOK, GeneratedFromOneRevision, CurrentMeansUnchanged, IsCurrent
<1> QED
  BY <1>1, Invariance, PTL

\* A generated event has its preset and its slot or is not there, whichever
\* statement of its transaction fails.
THEOREM GenerationIsAtomic == Spec => []AllOrNothing
<1>1. IInv => AllOrNothing
  BY DEF IInv, StoredOK
<1> QED
  BY <1>1, Invariance, PTL

\* Switching the organiser feature off leaves no nominee, also none of a
\* generation that had read the setting before.
THEOREM DisabledHasNoNominees == Spec => []NoNomineesWhileDisabled
<1>1. IInv => NoNomineesWhileDisabled
  BY DEF IInv, StoredOK
<1> QED
  BY <1>1, Invariance, PTL

-----------------------------------------------------------------------------
(* The sweeps of a recurring series: the fencing of their leases and the   *)
(* rule that a series is not published at once, for any number of          *)
(* processes, any rules and any horizon.                                   *)

\* A process whose token the series carries has its latest claim: the series
\* started with it and has not been edited, paused or resumed since.
ClaimCurrent ==
  \A w \in Workers :
    /\ worker[w].pc \in {"check", "read", "slots", "complete"}
    /\ recurrence.token = w
    => worker[w].clock = recurrence.started /\ worker[w].change >= revised

SweepInv == SweepTypeOK /\ NeverImmediate /\ ClaimCurrent

-----------------------------------------------------------------------------
(* Steps of a sweep and steps that leave the sweeps alone.                 *)

LEMMA IdleSweepFits == IdleSweep \in Sweep
BY SweepBoundsAssumption DEF IdleSweep, Sweep, Steps, Outcomes

\* A step of one process keeps every sweep well formed.
LEMMA MovesFits ==
  ASSUME SweepTypeOK, NEW w \in Workers, NEW r \in Sweep, Moves(w, r),
         UNCHANGED <<now, changes>>, SweepOK(r)
  PROVE  worker' \in [Workers -> Sweep] /\ \A v \in Workers : SweepOK(worker[v])'
<1>1. worker' \in [Workers -> Sweep]
  BY DEF SweepTypeOK, Moves
<1>2. ASSUME NEW v \in Workers PROVE SweepOK(worker[v])'
  <2>1. CASE v = w
    BY <2>1 DEF Moves, SweepOK, SweepTypeOK
  <2>2. CASE v # w
    BY <2>2 DEF Moves, SweepOK, SweepTypeOK
  <2> QED
    BY <2>1, <2>2
<1> QED
  BY <1>1, <1>2

\* Time and the count of changes only grow, so the other steps keep them too.
LEMMA SweepsKept ==
  ASSUME SweepTypeOK, UNCHANGED worker, now' \in Nat, changes' \in Nat,
         now' >= now, changes' >= changes
  PROVE  worker' \in [Workers -> Sweep] /\ \A v \in Workers : SweepOK(worker[v])'
<1>1. ASSUME NEW v \in Workers PROVE SweepOK(worker[v])'
  <2>1. worker[v].clock \in Nat /\ worker[v].change \in Nat /\ SweepOK(worker[v])
    BY SweepBoundsAssumption DEF SweepTypeOK, Sweep
  <2> QED
    BY <2>1, SweepBoundsAssumption DEF SweepOK, SweepTypeOK
<1> QED
  BY <1>1 DEF SweepTypeOK

-----------------------------------------------------------------------------
(* Type correctness.                                                       *)

LEMMA SweepInitType == SweepInit => SweepTypeOK
<1> SUFFICES ASSUME SweepInit PROVE SweepTypeOK
  OBVIOUS
<1>1. recurrence \in Series /\ recurrence.started <= now
  BY SweepBoundsAssumption DEF SweepInit, Series, Never, Outcomes
<1>2. worker \in [Workers -> Sweep] /\ \A w \in Workers : SweepOK(worker[w])
  BY IdleSweepFits DEF SweepInit, SweepOK, IdleSweep
<1> QED
  BY <1>1, <1>2, SweepBoundsAssumption DEF SweepInit, SweepTypeOK

LEMMA SweepsType ==
  ASSUME SweepTypeOK, NEW w \in Workers, Sweeps(w) \/ LoseProcess(w) \/ SweepThrows(w)
  PROVE  SweepTypeOK'
<1> DEFINE r == worker[w]
<1>0. r \in Sweep /\ SweepOK(r) /\ SweepOK(IdleSweep)
  BY SweepBoundsAssumption DEF SweepTypeOK, SweepOK, IdleSweep
<1>1. CASE Discover(w)
  <2> DEFINE s == [r EXCEPT !.pc = "claim", !.clock = now]
  <2>1. s \in Sweep
    BY <1>0, <1>1 DEF SweepTypeOK, Sweep, Steps
  <2>2. /\ s.clock = now /\ s.pc = "claim" /\ s.change = r.change
        /\ s.slots = {} /\ s.todo = {} /\ s.bad = {}
    BY <1>0, <1>1 DEF Discover, Sweep, SweepOK, IdleSweep
  <2>3. SweepOK(s)
    BY <1>0, <2>2 DEF SweepTypeOK, SweepOK
  <2> QED
    BY <1>1, <2>1, <2>3, MovesFits DEF Discover, sweepSource, SweepTypeOK
<1>2. CASE Claim(w)
  <2>1. CASE IdleWorker(w) /\ UNCHANGED recurrence
    BY <1>0, <1>2, <2>1, IdleSweepFits, MovesFits DEF Claim, IdleWorker, SweepTypeOK
  <2>2. CASE /\ recurrence' = [recurrence EXCEPT !.next = r.clock + 1, !.token = w, !.started = r.clock]
             /\ Moves(w, [r EXCEPT !.pc = "check", !.change = changes])
    <3> DEFINE s == [r EXCEPT !.pc = "check", !.change = changes]
    <3>1. s \in Sweep
      BY <1>0 DEF SweepTypeOK, Sweep, Steps
    <3>2. SweepOK(s)
      BY <1>0, <1>2 DEF Claim, SweepTypeOK, Sweep, SweepOK
    <3>3. r.clock \in 0 .. MaxTime /\ r.clock <= now /\ now \in 0 .. MaxTime /\ w \in Workers
      BY <1>0 DEF SweepTypeOK, Sweep, SweepOK
    <3>4. r.clock + 1 \in 0 .. MaxTime + 1
      BY <3>3, SweepBoundsAssumption
    <3>5. recurrence' \in Series
      BY <2>2, <3>3, <3>4 DEF SweepTypeOK, Series
    <3>6. recurrence'.started <= now
      BY <2>2, <3>3 DEF SweepTypeOK, Series
    <3> QED
      BY <1>2, <2>2, <3>1, <3>2, <3>5, <3>6, MovesFits DEF Claim, SweepTypeOK
  <2> QED
    BY <1>2, <2>1, <2>2 DEF Claim
<1>3. ASSUME NEW o \in Outcomes, Concludes(w, o), r.pc # "idle",
             UNCHANGED <<now, sweepSource, created, changes, since, revised>>,
             sweepFaults' \in 0 .. MaxSweepFaults
      PROVE  SweepTypeOK'
  <2> DEFINE s == [r EXCEPT !.pc = "complete", !.outcome = o]
  <2>1. s \in Sweep /\ SweepOK(s)
    BY <1>0 DEF SweepTypeOK, Sweep, Steps, SweepOK
  <2> QED
    BY <1>3, <2>1, MovesFits DEF Concludes, sweepSource, SweepTypeOK
<1>4. CASE CheckEligibility(w)
  <2>1. CASE Moves(w, [r EXCEPT !.pc = "read"])
    <3> DEFINE s == [r EXCEPT !.pc = "read"]
    <3>1. s \in Sweep /\ SweepOK(s)
      BY <1>0, <1>4 DEF SweepTypeOK, Sweep, Steps, SweepOK, CheckEligibility
    <3> QED
      BY <1>4, <2>1, <3>1, MovesFits DEF CheckEligibility, sweepSource, SweepTypeOK
  <2>2. CASE Concludes(w, "skipped")
    BY <1>3, <1>4, <2>2 DEF CheckEligibility, Outcomes, SweepTypeOK
  <2> QED
    BY <1>4, <2>1, <2>2 DEF CheckEligibility
<1>5. CASE ReadHorizon(w)
  <2> DEFINE found == recurrence.rule \cap (r.clock .. r.clock + Horizon - 1)
             s == [r EXCEPT !.pc = "slots", !.slots = found, !.todo = found]
  <2>1. CASE Moves(w, s)
    <3>1. found \in SUBSET CalendarSlots
      BY DEF SweepTypeOK, Series, CalendarSlots
    <3>2. s \in Sweep /\ SweepOK(s)
      BY <1>0, <1>5, <3>1 DEF ReadHorizon, SweepTypeOK, Sweep, Steps, SweepOK
    <3> QED
      BY <1>5, <2>1, <3>2, MovesFits DEF ReadHorizon, sweepSource, SweepTypeOK
  <2>2. CASE Concludes(w, "skipped") \/ Concludes(w, "failure")
    BY <1>3, <1>5, <2>2 DEF ReadHorizon, Outcomes, SweepTypeOK
  <2> QED
    BY <1>5, <2>1, <2>2 DEF ReadHorizon
<1>6. CASE GenerateSlot(w)
  <2>1. PICK d \in r.todo :
          /\ created' = IF SlotGenerates(w, d) /\ ~SlotFails(w, d) THEN created \cup {d} ELSE created
          /\ Moves(w, [r EXCEPT !.todo = @ \ {d}, !.bad = IF SlotFails(w, d) THEN @ \cup {d} ELSE @])
    BY <1>6 DEF GenerateSlot
  <2> DEFINE s == [r EXCEPT !.todo = @ \ {d}, !.bad = IF SlotFails(w, d) THEN @ \cup {d} ELSE @]
  <2>2. d \in CalendarSlots /\ r.todo \subseteq r.slots /\ r.bad \subseteq r.slots \ r.todo
    BY <1>0 DEF Sweep, SweepOK
  <2>3. s \in Sweep
    BY <1>0, <2>2 DEF Sweep
  <2>4. SweepOK(s)
    BY <1>0, <1>6, <2>2 DEF GenerateSlot, Sweep, SweepOK
  <2>5. created' \subseteq CalendarSlots \ Nonexistent
    BY <2>1, <2>2 DEF SweepTypeOK, SlotGenerates, SlotFails
  <2> QED
    BY <1>6, <2>1, <2>3, <2>4, <2>5, MovesFits DEF GenerateSlot, sweepSource, SweepTypeOK
<1>7. CASE FinishSlots(w)
  BY <1>3, <1>7 DEF FinishSlots, Outcomes, SweepTypeOK
<1>8. CASE Complete(w)
  <2>1. recurrence' \in Series /\ recurrence'.started <= now
    BY <1>0, <1>8 DEF Complete, SweepTypeOK, Series, Sweep
  <2>2. worker' \in [Workers -> Sweep] /\ \A v \in Workers : SweepOK(worker[v])'
    BY <1>0, <1>8, IdleSweepFits, MovesFits DEF Complete, IdleWorker
  <2> QED
    BY <1>8, <2>1, <2>2 DEF Complete, SweepTypeOK
<1>9. CASE LoseProcess(w)
  <2>1. worker' \in [Workers -> Sweep] /\ \A v \in Workers : SweepOK(worker[v])'
    BY <1>0, <1>9, IdleSweepFits, MovesFits DEF LoseProcess, IdleWorker
  <2>2. sweepFaults' \in 0 .. MaxSweepFaults
    BY <1>9, SweepBoundsAssumption DEF LoseProcess, SweepTypeOK
  <2>3. UNCHANGED <<now, recurrence, parent, guild, created, changes, since, revised>>
    BY <1>9 DEF LoseProcess, sweepSource
  <2> QED
    BY <2>1, <2>2, <2>3 DEF SweepTypeOK
<1>10. CASE SweepThrows(w)
  <2>1. sweepFaults' \in 0 .. MaxSweepFaults /\ "failure" \in Outcomes
    BY <1>10, SweepBoundsAssumption DEF SweepThrows, SweepTypeOK, Outcomes
  <2> QED
    BY <1>3, <1>10, <2>1 DEF SweepThrows
<1> QED
  BY <1>1, <1>2, <1>4, <1>5, <1>6, <1>7, <1>8, <1>9, <1>10 DEF Sweeps

LEMMA AdminType ==
  ASSUME SweepTypeOK,
         EditRecurrence \/ SetRecurrenceActive \/ SetTemplateActive \/ EditParent \/ SetEnabled \/ SetNeeds
  PROVE  SweepTypeOK'
<1>1. now' = now /\ UNCHANGED <<worker, created, sweepFaults>> /\ changes' = changes + 1
      /\ changes < MaxChanges /\ since' = now
  BY DEF EditRecurrence, SetRecurrenceActive, SetTemplateActive, EditParent, SetEnabled, SetNeeds,
         Revise, Change
<1>2. changes' \in 0 .. MaxChanges /\ changes' \in Nat /\ changes' >= changes /\ now' \in Nat
      /\ now' >= now /\ since' \in 0 .. now'
  BY <1>1, SweepBoundsAssumption DEF SweepTypeOK
<1>3. worker' \in [Workers -> Sweep] /\ \A v \in Workers : SweepOK(worker[v])'
  BY <1>1, <1>2, SweepsKept
<1>4. revised' \in 0 .. changes'
  <2>1. revised' = revised \/ revised' = changes'
    BY Zenon DEF EditRecurrence, SetRecurrenceActive, SetTemplateActive, EditParent, SetEnabled,
                 SetNeeds, Revise
  <2> QED
    BY <1>1, <2>1, SweepBoundsAssumption DEF SweepTypeOK
<1>5. recurrence' \in Series /\ recurrence'.started <= now
  <2>1. CASE EditRecurrence
    <3>1. now \in 0 .. MaxTime + 1 /\ Never <= now
      BY SweepBoundsAssumption DEF SweepTypeOK, Never
    <3> QED
      BY <2>1, <3>1 DEF EditRecurrence, Edited, SweepTypeOK, Series, Outcomes
  <2>2. CASE SetRecurrenceActive
    <3>1. now \in 0 .. MaxTime + 1
      BY SweepBoundsAssumption DEF SweepTypeOK
    <3> QED
      BY <2>2, <3>1 DEF SetRecurrenceActive, SweepTypeOK, Series
  <2>3. CASE UNCHANGED recurrence
    BY <2>3 DEF SweepTypeOK
  <2> QED
    BY <2>1, <2>2, <2>3 DEF SetTemplateActive, EditParent, SetEnabled, SetNeeds
<1>6. /\ parent' \in [active : BOOLEAN, immediate : BOOLEAN, lead : Leads]
      /\ guild' \in [enabled : BOOLEAN, lacks : SUBSET Needs]
  <2>1. CASE UNCHANGED <<parent, guild>>
    BY <2>1 DEF SweepTypeOK
  <2>2. CASE SetTemplateActive
    BY <2>2 DEF SetTemplateActive, SweepTypeOK
  <2>3. CASE EditParent
    BY <2>3 DEF EditParent, SweepTypeOK
  <2>4. CASE SetEnabled
    BY <2>4 DEF SetEnabled, SweepTypeOK
  <2>5. CASE SetNeeds
    BY <2>5 DEF SetNeeds, SweepTypeOK
  <2>6. CASE EditRecurrence \/ SetRecurrenceActive
    BY <2>1, <2>6, Zenon DEF EditRecurrence, SetRecurrenceActive, Revise
  <2> QED
    BY <2>2, <2>3, <2>4, <2>5, <2>6
<1> QED
  BY <1>1, <1>2, <1>3, <1>4, <1>5, <1>6 DEF SweepTypeOK

LEMMA SweepNextType == SweepTypeOK /\ [SweepNext]_sweepVars => SweepTypeOK'
<1> SUFFICES ASSUME SweepTypeOK, [SweepNext]_sweepVars PROVE SweepTypeOK'
  OBVIOUS
<1>1. CASE Tick
  <2>1. now' = now + 1 /\ now < MaxTime
        /\ UNCHANGED <<sweepSource, created, worker, changes, since, revised>>
        /\ sweepFaults' \in 0 .. MaxSweepFaults
    BY <1>1, SweepBoundsAssumption DEF Tick, SweepTypeOK
  <2>2. now' \in 0 .. MaxTime /\ now' \in Nat /\ changes' \in Nat /\ now' >= now /\ changes' >= changes
    BY <2>1, SweepBoundsAssumption DEF SweepTypeOK
  <2>3. worker' \in [Workers -> Sweep] /\ \A v \in Workers : SweepOK(worker[v])'
    BY <2>1, <2>2, SweepsKept
  <2>4. recurrence'.started <= now' /\ since' \in 0 .. now'
    BY <2>1, <2>2, SweepBoundsAssumption DEF SweepTypeOK, sweepSource, Series, Never
  <2> QED
    BY <2>1, <2>2, <2>3, <2>4 DEF SweepTypeOK, sweepSource
<1>2. CASE UNCHANGED sweepVars
  BY <1>2 DEF sweepVars, sweepSource, SweepTypeOK, SweepOK
<1> QED
  BY <1>1, <1>2, SweepsType, AdminType DEF SweepNext

-----------------------------------------------------------------------------
(* The publication rule and the fence.                                     *)

LEMMA NextImmediate == SweepTypeOK /\ NeverImmediate /\ [SweepNext]_sweepVars => NeverImmediate'
<1> SUFFICES ASSUME SweepTypeOK, NeverImmediate, [SweepNext]_sweepVars PROVE NeverImmediate'
  OBVIOUS
<1>1. CASE UNCHANGED <<recurrence, parent>>
  BY <1>1 DEF NeverImmediate
<1>2. ASSUME NEW w \in Workers, Claim(w) \/ Complete(w) PROVE NeverImmediate'
  <2>1. recurrence'.active = recurrence.active /\ parent' = parent
    BY <1>2 DEF Claim, Complete, SweepTypeOK, Series
  <2> QED
    BY <2>1 DEF NeverImmediate
<1>3. CASE EditRecurrence
  BY <1>3 DEF EditRecurrence, Edited, Revise, NeverImmediate, SweepTypeOK, Series
<1>4. CASE SetRecurrenceActive
  BY <1>4 DEF SetRecurrenceActive, CanActivate, Revise, NeverImmediate, SweepTypeOK, Series
<1>5. CASE SetTemplateActive \/ EditParent
  BY <1>5 DEF SetTemplateActive, EditParent, NeverImmediate, SweepTypeOK
<1> QED
  BY <1>1, <1>2, <1>3, <1>4, <1>5
  DEF SweepNext, sweepVars, sweepSource, Tick, Sweeps, Discover, CheckEligibility, ReadHorizon, GenerateSlot,
      FinishSlots, LoseProcess, SweepThrows, SetEnabled, SetNeeds

\* A step of one process that is not a claim leaves the claims of all as they were.
LEMMA ClaimKept ==
  ASSUME SweepTypeOK, ClaimCurrent, NEW w \in Workers, NEW r \in Sweep, Moves(w, r),
         UNCHANGED <<recurrence, revised>>,
         \/ r.pc \in {"idle", "claim"}
         \/ /\ worker[w].pc \in {"check", "read", "slots", "complete"}
            /\ r.clock = worker[w].clock /\ r.change = worker[w].change
  PROVE  ClaimCurrent'
BY DEF ClaimCurrent, Moves, SweepTypeOK

LEMMA ClaimNext == SweepTypeOK /\ ClaimCurrent /\ [SweepNext]_sweepVars => ClaimCurrent'
<1> SUFFICES ASSUME SweepTypeOK, ClaimCurrent, [SweepNext]_sweepVars PROVE ClaimCurrent'
  OBVIOUS
<1>1. ASSUME NEW w \in Workers, Discover(w) \/ CheckEligibility(w) \/ ReadHorizon(w) \/ GenerateSlot(w)
             \/ FinishSlots(w) \/ LoseProcess(w) \/ SweepThrows(w)
      PROVE  ClaimCurrent'
  <2>1. worker[w] \in Sweep /\ worker' \in [Workers -> Sweep] /\ worker'[w] \in Sweep
    BY <1>1, SweepsType DEF SweepTypeOK, Sweeps
  <2>2. /\ Moves(w, worker'[w])
        /\ \/ worker'[w].pc \in {"idle", "claim"}
           \/ /\ worker[w].pc \in {"check", "read", "slots", "complete"}
              /\ worker'[w].clock = worker[w].clock /\ worker'[w].change = worker[w].change
    <3>1. CASE Discover(w)
      BY <2>1, <3>1 DEF Discover, Moves, SweepTypeOK, Sweep
    <3>2. CASE CheckEligibility(w)
      <4>1. \/ Moves(w, [worker[w] EXCEPT !.pc = "read"])
            \/ Moves(w, [worker[w] EXCEPT !.pc = "complete", !.outcome = "skipped"])
        BY <3>2 DEF CheckEligibility, Concludes
      <4>2. CASE Moves(w, [worker[w] EXCEPT !.pc = "read"])
        BY <2>1, <3>2, <4>2 DEF CheckEligibility, Moves, SweepTypeOK, Sweep
      <4>3. CASE Moves(w, [worker[w] EXCEPT !.pc = "complete", !.outcome = "skipped"])
        BY <2>1, <3>2, <4>3 DEF CheckEligibility, Moves, SweepTypeOK, Sweep
      <4> QED
        BY <4>1, <4>2, <4>3
    <3>3. CASE ReadHorizon(w)
      <4>1. PICK found, o :
              \/ Moves(w, [worker[w] EXCEPT !.pc = "slots", !.slots = found, !.todo = found])
              \/ Moves(w, [worker[w] EXCEPT !.pc = "complete", !.outcome = o])
        BY <3>3 DEF ReadHorizon, Concludes
      <4>2. CASE Moves(w, [worker[w] EXCEPT !.pc = "slots", !.slots = found, !.todo = found])
        BY <2>1, <3>3, <4>2 DEF ReadHorizon, Moves, SweepTypeOK, Sweep
      <4>3. CASE Moves(w, [worker[w] EXCEPT !.pc = "complete", !.outcome = o])
        BY <2>1, <3>3, <4>3 DEF ReadHorizon, Moves, SweepTypeOK, Sweep
      <4> QED
        BY <4>1, <4>2, <4>3
    <3>4. CASE GenerateSlot(w)
      BY <2>1, <3>4 DEF GenerateSlot, Moves, SweepTypeOK, Sweep
    <3>5. CASE FinishSlots(w)
      BY <2>1, <3>5 DEF FinishSlots, Concludes, Moves, SweepTypeOK, Sweep
    <3>6. CASE LoseProcess(w)
      BY <2>1, <3>6 DEF LoseProcess, IdleWorker, IdleSweep, Moves, SweepTypeOK
    <3>7. CASE SweepThrows(w)
      BY <2>1, <3>7 DEF SweepThrows, Concludes, Moves, SweepTypeOK, Sweep
    <3> QED
      BY <1>1, <3>1, <3>2, <3>3, <3>4, <3>5, <3>6, <3>7
  <2>4. UNCHANGED <<recurrence, revised>>
    BY <1>1 DEF Discover, CheckEligibility, ReadHorizon, GenerateSlot, FinishSlots,
                LoseProcess, SweepThrows, sweepSource
  <2> QED
    BY <2>1, <2>2, <2>4, ClaimKept
<1>2. ASSUME NEW w \in Workers, Claim(w) PROVE ClaimCurrent'
  <2>1. CASE IdleWorker(w) /\ UNCHANGED recurrence
    BY <1>2, <2>1, IdleSweepFits, ClaimKept DEF Claim, IdleWorker, IdleSweep
  <2>2. CASE /\ recurrence' = [recurrence EXCEPT !.next = worker[w].clock + 1, !.token = w,
                                                 !.started = worker[w].clock]
             /\ Moves(w, [worker[w] EXCEPT !.pc = "check", !.change = changes])
    <3>1. recurrence'.token = w /\ recurrence'.started = worker[w].clock /\ changes >= revised
          /\ worker'[w].clock = worker[w].clock /\ worker'[w].change = changes /\ revised' = revised
      BY <1>2, <2>2, SweepBoundsAssumption DEF Claim, SweepTypeOK, Series, Sweep, Moves
    <3> QED
      BY <3>1 DEF ClaimCurrent
  <2> QED
    BY <1>2, <2>1, <2>2 DEF Claim
<1>3. ASSUME NEW w \in Workers, Complete(w) PROVE ClaimCurrent'
  <2>1. worker' = [worker EXCEPT ![w] = IdleSweep] /\ IdleSweep.pc = "idle" /\ revised' = revised
    BY <1>3 DEF Complete, IdleWorker, Moves, IdleSweep
  <2>2. \/ recurrence' = recurrence
        \/ recurrence'.token = NoOne
    BY <1>3 DEF Complete, SweepTypeOK, Series
  <2> QED
    BY <2>1, <2>2, WorkersAssumption DEF ClaimCurrent, SweepTypeOK
<1>4. CASE EditRecurrence \/ SetRecurrenceActive
  <2>1. recurrence'.token = NoOne
    BY <1>4 DEF EditRecurrence, Edited, SetRecurrenceActive, SweepTypeOK, Series
  <2> QED
    BY <2>1, WorkersAssumption DEF ClaimCurrent
<1>5. CASE Tick \/ SetTemplateActive \/ EditParent \/ SetEnabled \/ SetNeeds \/ UNCHANGED sweepVars
  <2>1. UNCHANGED <<worker, recurrence, revised>>
    BY <1>5 DEF Tick, SetTemplateActive, EditParent, SetEnabled, SetNeeds, Change, sweepVars, sweepSource
  <2> QED
    BY <2>1 DEF ClaimCurrent
<1> QED
  BY <1>1, <1>2, <1>3, <1>4, <1>5 DEF SweepNext, Sweeps

-----------------------------------------------------------------------------
(* The horizon.  Every fault pays for one lease that has to run out, so a  *)
(* series is behind by at most the slack.                                  *)

\* Unless the series changed after c, the slots of the rule up to the horizon
\* of a sweep at c have been made, those up to t excepted.
Covered(c, s, rule, t, made) ==
  s <= c => \A d \in rule \ Nonexistent : d > t /\ d < c + Horizon => d \in made

\* The sign-ups of slots up to here have closed.
Passed == now + parent.lead

\* The series can wait until x for its next sweep.
CanWait(x) == Covered(x - Slack, since, recurrence.rule, Passed, created)

Sweeping(w) == worker[w].pc \in {"check", "read", "slots", "complete"}

\* A claim sets the time of the next sweep with the lease, and only a fault
\* leaves the lease with a process that is not sweeping.
LeaseSound ==
  /\ recurrence.next <= now + 1
  /\ recurrence.token # NoOne
       => recurrence.started \in Nat /\ recurrence.next = recurrence.started + 1
  /\ \A w \in Workers : recurrence.token = w /\ ~Sweeping(w) => sweepFaults > 0

\* What the process with the lease has done so far, and who is next.
LeaseWatched(w) ==
  /\ ~Sweeping(w) => CanWait(recurrence.started + StaleAfter)
  /\ worker[w].pc = "slots" /\ since < worker[w].clock
       => Covered(worker[w].clock, since, recurrence.rule, Passed, created \cup worker[w].todo)
  /\ worker[w].pc = "complete" => CanWait(recurrence.next)

HorizonWatched ==
  Productive => /\ CanWait(now)
                /\ recurrence.token = NoOne => CanWait(recurrence.next)
                /\ \A w \in Workers : recurrence.token = w => LeaseWatched(w)

HorizonInv == LeaseSound /\ HorizonWatched

LEMMA SlackFacts ==
  ASSUME SweepTypeOK
  PROVE  /\ Slack \in Nat /\ Slack >= 2 /\ StaleAfter \in Nat /\ StaleAfter > 1
         /\ sweepFaults > 0 => Slack >= 2 + StaleAfter
<1> DEFINE f == sweepFaults
<1>1. f \in Nat /\ StaleAfter \in Nat /\ StaleAfter > 1
  BY LeaseAssumption, SweepBoundsAssumption DEF SweepTypeOK
<1>2. StaleAfter * f \in Nat /\ (f > 0 => StaleAfter * f >= StaleAfter)
  <2> HIDE DEF f
  <2> QED
    BY <1>1
<1> QED
  BY <1>1, <1>2 DEF Slack

\* A fault pays for one lease.
LEMMA SlackGrows ==
  ASSUME SweepTypeOK
  PROVE  /\ sweepFaults' = sweepFaults => Slack' = Slack
         /\ sweepFaults' = sweepFaults + 1 => Slack' = Slack + StaleAfter
<1>1. \A f \in Nat : StaleAfter * (f + 1) = StaleAfter * f + StaleAfter /\ StaleAfter * f \in Nat
  BY LeaseAssumption
<1>2. sweepFaults \in Nat /\ StaleAfter \in Nat
  BY LeaseAssumption, SweepBoundsAssumption DEF SweepTypeOK
<1> QED
  BY <1>1, <1>2 DEF Slack

LEMMA PassedFacts ==
  ASSUME SweepTypeOK
  PROVE  Passed \in Nat /\ now \in Nat /\ Passed >= now /\ parent.lead \in Nat
<1>1. parent.lead \in Leads /\ now \in Nat
  BY SweepBoundsAssumption DEF SweepTypeOK
<1>2. parent.lead \in Nat
  BY <1>1, LeadsAssumption
<1> QED
  BY <1>1, <1>2 DEF Passed

LEMMA LaterIsLess ==
  ASSUME NEW a \in Int, NEW b \in Int, a <= b, NEW x \in Int
  PROVE  x - b <= x - a
OBVIOUS

\* What is covered stays covered as events are made and time passes.
LEMMA CoveredKept ==
  ASSUME NEW c \in Int, NEW b \in Int, b <= c, NEW s \in Int, NEW t \in Int, NEW u \in Int, t <= u,
         NEW rule \in Rules, NEW made, NEW more, made \subseteq more,
         Covered(c, s, rule, t, made)
  PROVE  Covered(b, s, rule, u, more)
BY LeaseAssumption, RulesAssumption DEF Covered

LEMMA WaitKept ==
  ASSUME SweepTypeOK, SweepTypeOK', recurrence'.rule = recurrence.rule, since' = since,
         parent' = parent, now <= now', created \subseteq created',
         NEW x \in Int, NEW y \in Int, y - Slack' <= x - Slack,
         Covered(x - Slack, since, recurrence.rule, Passed, created)
  PROVE  Covered(y - Slack', since', recurrence'.rule, Passed', created')
<1>1. Slack \in Int /\ Slack' \in Int
  BY SlackFacts, SlackGrows, LeaseAssumption, SweepBoundsAssumption DEF SweepTypeOK, Slack
<1>2. /\ since \in Int /\ recurrence.rule \in Rules
      /\ Passed \in Int /\ Passed' \in Int /\ Passed <= Passed'
  <2>1. Passed \in Nat /\ now \in Nat /\ now' \in Nat /\ parent.lead \in Nat
    BY PassedFacts, SweepBoundsAssumption DEF SweepTypeOK
  <2>2. Passed' = now' + parent.lead
    BY DEF Passed
  <2> QED
    BY <2>1, <2>2, SweepBoundsAssumption DEF SweepTypeOK, Series, Passed
<1>3. created \subseteq created'
  OBVIOUS
<1> DEFINE b == y - Slack'
           c == x - Slack
<1>4. b \in Int /\ c \in Int
  BY <1>1
<1>5. Covered(c, since, recurrence.rule, Passed, created) /\ b <= c
  OBVIOUS
<1>6. Covered(b, since, recurrence.rule, Passed', created')
  <2> HIDE DEF b, c
  <2> SUFFICES ASSUME since <= b, NEW d \in recurrence.rule \ Nonexistent, d > Passed',
                      d < b + Horizon
               PROVE  d \in created'
    BY Zenon DEF Covered
  <2>1. d \in Nat
    BY <1>2, RulesAssumption, Zenon
  <2>2. since <= c /\ d > Passed /\ d < c + Horizon
    BY <1>2, <1>4, <1>5, <2>1, LeaseAssumption
  <2>3. d \in created
    BY <1>5, <2>2, Zenon DEF Covered
  <2> QED
    BY <1>3, <2>3
<1> QED
  BY <1>6

\* A step of one sweep that leaves the series as it is.
LEMMA WatchKept ==
  ASSUME SweepTypeOK, SweepTypeOK', HorizonInv, NEW w \in Workers, NEW r, Moves(w, r),
         UNCHANGED <<now, sweepSource, since>>, created \subseteq created',
         sweepFaults' \in {sweepFaults, sweepFaults + 1},
         recurrence.token = w /\ ~Sweeping(w)' => sweepFaults' > 0,
         recurrence.token = w /\ Productive => LeaseWatched(w)'
  PROVE  HorizonInv'
<1>1. sweepFaults' >= sweepFaults /\ sweepFaults \in Nat /\ sweepFaults' \in Nat
  BY SweepBoundsAssumption DEF SweepTypeOK
<1>2. Slack <= Slack' /\ Slack \in Int /\ Slack' \in Int
  BY SlackFacts, SlackGrows
<1>3. UNCHANGED <<now, recurrence, parent, guild, since>> /\ Passed' = Passed
  BY DEF sweepSource, Passed
<1>4. \A v \in Workers \ {w} : worker'[v] = worker[v]
  BY DEF Moves, SweepTypeOK
<1>5. now \in Int /\ recurrence.next \in Int /\ recurrence.started \in Int /\ StaleAfter \in Int
  BY LeaseAssumption, SweepBoundsAssumption DEF SweepTypeOK, Series, Never
<1>6. ASSUME NEW x \in Int, Covered(x - Slack, since, recurrence.rule, Passed, created)
      PROVE  Covered(x - Slack', since', recurrence'.rule, Passed', created')
  <2>1. x - Slack' <= x - Slack
    BY <1>2, <1>6, LaterIsLess
  <2>2. now <= now'
    BY <1>3, <1>5
  <2> QED
    BY <1>3, <1>6, <2>1, <2>2, WaitKept
<1>7. LeaseSound'
  BY <1>1, <1>3, <1>4 DEF HorizonInv, LeaseSound, Sweeping
<1>8. ASSUME Productive PROVE CanWait(now)' /\ (recurrence'.token = NoOne => CanWait(recurrence.next)')
  BY <1>3, <1>5, <1>6, <1>8 DEF HorizonInv, HorizonWatched, CanWait
<1>9. ASSUME Productive, NEW v \in Workers, recurrence.token = v PROVE LeaseWatched(v)'
  <2>1. CASE v = w
    BY <1>9, <2>1
  <2>2. CASE v # w
    <3>1. LeaseWatched(v) /\ worker'[v] = worker[v] /\ Sweeping(v)' = Sweeping(v)
      BY <1>4, <1>9, <2>2 DEF HorizonInv, HorizonWatched, Sweeping
    <3>2. ~Sweeping(v)' => CanWait(recurrence.started + StaleAfter)'
      BY <1>3, <1>5, <1>6, <3>1 DEF LeaseWatched, CanWait
    <3>3. worker'[v].pc = "complete" => CanWait(recurrence.next)'
      BY <1>3, <1>5, <1>6, <3>1 DEF LeaseWatched, CanWait
    <3>4. worker[v].pc = "slots" /\ since < worker[v].clock
            => Covered(worker'[v].clock, since', recurrence'.rule, Passed', created' \cup worker'[v].todo)
      BY <1>3, <3>1 DEF LeaseWatched, Covered
    <3> QED
      BY <1>3, <3>1, <3>2, <3>3, <3>4 DEF LeaseWatched
  <2> QED
    BY <2>1, <2>2
<1> QED
  BY <1>3, <1>7, <1>8, <1>9 DEF HorizonInv, HorizonWatched, Productive, Eligible

LEMMA SweepsHorizon ==
  ASSUME SweepInv, SweepInv', HorizonInv, NEW w \in Workers,
         Sweeps(w) \/ LoseProcess(w) \/ SweepThrows(w)
  PROVE  HorizonInv'
<1>0. /\ SweepTypeOK /\ SweepTypeOK' /\ ClaimCurrent /\ NeverImmediate
      /\ worker[w] \in Sweep /\ SweepOK(worker[w]) /\ now \in Nat /\ worker[w].clock \in Nat
      /\ recurrence.next \in Nat /\ recurrence.started \in Int /\ recurrence.rule \in Rules
      /\ sweepFaults \in Nat /\ StaleAfter \in Nat /\ StaleAfter > 1 /\ Horizon \in Nat
      /\ since \in Nat
  BY LeaseAssumption, SweepBoundsAssumption DEF SweepInv, SweepTypeOK, Sweep, Series, Never
<1>1. CASE Discover(w)
  <2>1. Moves(w, worker'[w]) /\ worker'[w].pc = "claim" /\ worker[w].pc = "idle"
        /\ UNCHANGED <<now, sweepSource, since, created, sweepFaults>>
    BY <1>0, <1>1 DEF Discover, Moves, SweepTypeOK, Sweep
  <2>2. ~Sweeping(w) /\ ~Sweeping(w)' /\ Slack' = Slack
    BY <1>0, <2>1, SlackGrows DEF Sweeping
  <2>3. recurrence.token = w => sweepFaults' > 0
    BY <2>1, <2>2 DEF HorizonInv, LeaseSound
  <2>4. recurrence.token = w /\ Productive => LeaseWatched(w)'
    BY <2>1, <2>2 DEF HorizonInv, HorizonWatched, LeaseWatched, CanWait, sweepSource, Passed
  <2> QED
    BY <1>0, <2>1, <2>3, <2>4, WatchKept
<1>2. CASE Claim(w)
  <2>1. CASE IdleWorker(w) /\ UNCHANGED recurrence
    <3>1. Moves(w, IdleSweep) /\ worker'[w] = IdleSweep /\ worker[w].pc = "claim"
          /\ UNCHANGED <<now, sweepSource, since, created, sweepFaults>>
      BY <1>0, <1>2, <2>1 DEF Claim, IdleWorker, Moves, SweepTypeOK, sweepSource
    <3>2. ~Sweeping(w) /\ ~Sweeping(w)' /\ worker'[w].pc = "idle" /\ Slack' = Slack
      BY <1>0, <3>1, SlackGrows DEF Sweeping, IdleSweep
    <3>3. recurrence.token = w => sweepFaults' > 0
      BY <3>1, <3>2 DEF HorizonInv, LeaseSound
    <3>4. recurrence.token = w /\ Productive => LeaseWatched(w)'
      BY <3>1, <3>2 DEF HorizonInv, HorizonWatched, LeaseWatched, CanWait, sweepSource, Passed
    <3> QED
      BY <1>0, <3>1, <3>3, <3>4, WatchKept
  <2>2. CASE /\ recurrence' = [recurrence EXCEPT !.next = worker[w].clock + 1, !.token = w,
                                                 !.started = worker[w].clock]
             /\ Moves(w, [worker[w] EXCEPT !.pc = "check", !.change = changes])
    <3>1. /\ recurrence'.next = worker[w].clock + 1 /\ recurrence'.token = w
          /\ recurrence'.started = worker[w].clock /\ recurrence'.rule = recurrence.rule
          /\ recurrence'.active = recurrence.active /\ worker'[w].pc = "check"
      BY <1>0, <2>2 DEF SweepTypeOK, Series, Sweep, Moves
    <3>2. UNCHANGED <<now, parent, guild, since, created, sweepFaults>> /\ Slack' = Slack
      BY <1>0, <1>2, SlackGrows DEF Claim
    <3>3. LeaseSound'
      BY <1>0, <3>1, <3>2, WorkersAssumption DEF LeaseSound, Sweeping, SweepOK
    <3>4. Productive => CanWait(now)'
      BY <1>0, <3>1, <3>2
      DEF HorizonInv, HorizonWatched, CanWait, Productive, Eligible, Passed
    <3>5. LeaseWatched(w)'
      BY <3>1 DEF LeaseWatched, Sweeping
    <3> QED
      BY <3>1, <3>2, <3>3, <3>4, <3>5, WorkersAssumption DEF HorizonInv, HorizonWatched, Productive, Eligible
  <2> QED
    BY <1>2, <2>1, <2>2 DEF Claim
<1>3. CASE CheckEligibility(w)
  <2>1. PICK r : Moves(w, r) /\ worker'[w] = r /\ (r.pc = "read" \/ (r.pc = "complete" /\ ~Eligible))
    <3>1. CASE Eligible
      <4> DEFINE r == [worker[w] EXCEPT !.pc = "read"]
      <4>1. Moves(w, r) /\ r.pc = "read" /\ worker'[w] = r
        BY <1>0, <1>3, <3>1 DEF CheckEligibility, Moves, SweepTypeOK, Sweep
      <4> QED
        BY <4>1
    <3>2. CASE ~Eligible
      <4> DEFINE r == [worker[w] EXCEPT !.pc = "complete", !.outcome = "skipped"]
      <4>1. Moves(w, r) /\ r.pc = "complete" /\ worker'[w] = r
        BY <1>0, <1>3, <3>2 DEF CheckEligibility, Concludes, Moves, SweepTypeOK, Sweep
      <4> QED
        BY <3>2, <4>1
    <3> QED
      BY <3>1, <3>2
  <2>2. UNCHANGED <<now, sweepSource, since, created, sweepFaults>>
    BY <1>3 DEF CheckEligibility
  <2>3. Sweeping(w)' /\ (Productive => LeaseWatched(w)')
    BY <2>1 DEF Sweeping, LeaseWatched, Productive
  <2> QED
    BY <1>0, <2>1, <2>2, <2>3, WatchKept
<1>4. CASE ReadHorizon(w)
  <2> DEFINE found == recurrence.rule \cap (worker[w].clock .. worker[w].clock + Horizon - 1)
  <2>1. UNCHANGED <<now, sweepSource, since, created, sweepFaults>>
    BY <1>4 DEF ReadHorizon
  <2>2. CASE ~parent.active \/ ~recurrence.active \/ parent.immediate
    <3>1. ~Productive
      BY <1>0, <2>2 DEF Productive, Eligible, NeverImmediate
    <3> DEFINE o == IF parent.active /\ recurrence.active THEN "failure" ELSE "skipped"
    <3>2. Moves(w, [worker[w] EXCEPT !.pc = "complete", !.outcome = o])
      BY <1>4, <2>2 DEF ReadHorizon, Concludes
    <3>3. worker'[w].pc = "complete"
      BY <1>0, <3>2 DEF Moves, SweepTypeOK, Sweep
    <3> QED
      BY <1>0, <2>1, <3>1, <3>2, <3>3, WatchKept DEF Sweeping
  <2>3. CASE parent.active /\ recurrence.active /\ ~parent.immediate
    <3>1. Moves(w, [worker[w] EXCEPT !.pc = "slots", !.slots = found, !.todo = found])
      BY <1>4, <2>3 DEF ReadHorizon
    <3>2. worker'[w].pc = "slots" /\ worker'[w].todo = found /\ worker'[w].clock = worker[w].clock
      BY <1>0, <3>1 DEF Moves, SweepTypeOK, Sweep
    <3>3. worker[w].clock <= Passed /\ Passed \in Nat
      BY <1>0, PassedFacts DEF SweepOK
    <3>4. Covered(worker[w].clock, since, recurrence.rule, Passed, created \cup found)
      <4>1. ASSUME NEW d \in recurrence.rule, d > Passed, d < worker[w].clock + Horizon PROVE d \in found
        <5>1. d \in Nat
          BY <1>0, <4>1, RulesAssumption
        <5>2. d \in worker[w].clock .. worker[w].clock + Horizon - 1
          BY <1>0, <3>3, <4>1, <5>1
        <5> QED
          BY <4>1, <5>2
      <4> QED
        BY <4>1 DEF Covered
    <3>5. LeaseWatched(w)' /\ Sweeping(w)'
      BY <2>1, <3>2, <3>4 DEF LeaseWatched, Sweeping, sweepSource, Passed
    <3> QED
      BY <1>0, <2>1, <3>1, <3>5, WatchKept
  <2> QED
    BY <2>2, <2>3
<1>5. CASE GenerateSlot(w)
  <2>1. PICK d \in worker[w].todo :
          /\ \A e \in worker[w].todo : d <= e
          /\ created' = IF SlotGenerates(w, d) /\ ~SlotFails(w, d) THEN created \cup {d} ELSE created
          /\ Moves(w, [worker[w] EXCEPT !.todo = @ \ {d},
                                        !.bad = IF SlotFails(w, d) THEN @ \cup {d} ELSE @])
    BY <1>5, Zenon DEF GenerateSlot
  <2>2. UNCHANGED <<now, sweepSource, since, sweepFaults>> /\ worker[w].pc = "slots"
    BY <1>5 DEF GenerateSlot
  <2>3. /\ worker'[w].pc = "slots" /\ worker'[w].todo = worker[w].todo \ {d}
        /\ worker'[w].clock = worker[w].clock
    BY <1>0, <2>1, <2>2 DEF Moves, SweepTypeOK, Sweep
  <2>4. created \subseteq created' /\ Sweeping(w)' /\ Sweeping(w)
    BY <2>1, <2>2, <2>3 DEF Sweeping
  <2>5. ASSUME Productive, recurrence.token = w PROVE LeaseWatched(w)'
    <3>1. d \in recurrence.rule /\ d \notin Nonexistent /\ d > Passed => d \in created'
      <4>1. worker[w].clock <= now /\ d \in Nat /\ parent.lead \in Nat
        BY <1>0, RulesAssumption, LeadsAssumption DEF SweepOK, Sweep, CalendarSlots, SweepTypeOK
      <4>2. ~parent.immediate /\ recurrence.active /\ parent.active /\ guild.lacks = {}
        BY <1>0, <2>5 DEF Productive, Eligible, NeverImmediate
      <4>3. ASSUME d \in recurrence.rule, d \notin Nonexistent, d > Passed PROVE d \in created'
        <5>1. InTime(w, d)
          BY <1>0, <4>1, <4>3 DEF InTime, Passed
        <5>2. ~SlotFails(w, d)
          BY <4>2, <4>3 DEF SlotFails, Missing
        <5>3. d \in created \/ SlotGenerates(w, d)
          BY <4>2, <4>3, <5>1 DEF SlotGenerates, Missing
        <5> QED
          BY <2>1, <2>4, <5>2, <5>3
      <4> QED
        BY <4>1, <4>3
    <3>2. ASSUME since < worker[w].clock
          PROVE  Covered(worker[w].clock, since, recurrence.rule, Passed, created' \cup worker'[w].todo)
      <4>1. Covered(worker[w].clock, since, recurrence.rule, Passed, created \cup worker[w].todo)
        BY <2>2, <2>5, <3>2 DEF HorizonInv, HorizonWatched, LeaseWatched
      <4> QED
        BY <2>3, <2>4, <3>1, <4>1 DEF Covered
    <3> QED
      BY <2>2, <2>3, <2>4, <3>2 DEF LeaseWatched, sweepSource, Passed
  <2> QED
    BY <1>0, <2>1, <2>2, <2>4, <2>5, WatchKept
<1>6. CASE FinishSlots(w)
  <2> DEFINE o == IF worker[w].bad = {} THEN "success"
                  ELSE IF worker[w].bad = worker[w].slots THEN "failure"
                  ELSE "partial_failure"
  <2>1. Moves(w, [worker[w] EXCEPT !.pc = "complete", !.outcome = o])
    BY <1>6 DEF FinishSlots, Concludes
  <2>2. UNCHANGED <<now, sweepSource, since, created, sweepFaults>> /\ Slack' = Slack
        /\ worker[w].pc = "slots" /\ worker[w].todo = {}
    BY <1>0, <1>6, SlackGrows DEF FinishSlots
  <2>3. worker'[w].pc = "complete" /\ Sweeping(w)'
    <3> HIDE DEF o
    <3> QED
      BY <1>0, <2>1 DEF Moves, SweepTypeOK, Sweep, Sweeping
  <2>4. ASSUME Productive, recurrence.token = w PROVE CanWait(recurrence.next)
    <3>1. recurrence.next = worker[w].clock + 1
      BY <1>0, <2>2, <2>4, WorkersAssumption DEF ClaimCurrent, HorizonInv, LeaseSound
    <3>2. Slack \in Nat /\ Slack >= 2
      BY <1>0, SlackFacts
    <3>3. CASE since < worker[w].clock
      <4>1. Covered(worker[w].clock, since, recurrence.rule, Passed, created)
        BY <2>2, <2>4, <3>3 DEF HorizonInv, HorizonWatched, LeaseWatched
      <4> DEFINE b == recurrence.next - Slack
                 c == worker[w].clock
      <4>2. b \in Int /\ c \in Int /\ b <= c
        BY <1>0, <3>1, <3>2
      <4>3. Covered(b, since, recurrence.rule, Passed, created)
        <5> HIDE DEF b
        <5> QED
          BY <1>0, <4>1, <4>2, CoveredKept, PassedFacts
      <4> QED
        BY <4>3 DEF CanWait
    <3>4. CASE since >= worker[w].clock
      BY <1>0, <3>1, <3>2, <3>4 DEF CanWait, Covered
    <3> QED
      BY <1>0, <3>3, <3>4
  <2>5. recurrence.token = w /\ Productive => LeaseWatched(w)'
    BY <2>2, <2>3, <2>4 DEF LeaseWatched, CanWait, sweepSource, Productive, Eligible, Passed
  <2> QED
    BY <1>0, <2>1, <2>2, <2>3, <2>5, WatchKept
<1>7. CASE Complete(w)
  <2>1. UNCHANGED <<now, parent, guild, since, created, sweepFaults>> /\ Slack' = Slack
        /\ Moves(w, IdleSweep) /\ worker[w].pc = "complete" /\ worker'[w] = IdleSweep
    BY <1>0, <1>7, SlackGrows DEF Complete, IdleWorker, Moves, SweepTypeOK
  <2>2. CASE Owns(w)
    <3>1. /\ recurrence'.token = NoOne /\ recurrence'.next = recurrence.next
          /\ recurrence'.rule = recurrence.rule /\ recurrence'.active = recurrence.active
      BY <1>0, <1>7, <2>2 DEF Complete, SweepTypeOK, Series
    <3>2. LeaseSound'
      BY <2>1, <3>1, WorkersAssumption DEF HorizonInv, LeaseSound
    <3>3. Productive => CanWait(now)' /\ CanWait(recurrence.next)'
      BY <2>1, <2>2, <3>1
      DEF HorizonInv, HorizonWatched, LeaseWatched, CanWait, Owns, Productive, Eligible, Passed
    <3> QED
      BY <2>1, <3>1, <3>2, <3>3, WorkersAssumption DEF HorizonInv, HorizonWatched, Productive, Eligible
  <2>3. CASE ~Owns(w)
    <3>1. recurrence' = recurrence /\ recurrence.token # w
      BY <1>7, <2>3 DEF Complete, Owns
    <3> QED
      BY <1>0, <2>1, <3>1, WatchKept DEF sweepSource
  <2> QED
    BY <2>2, <2>3
<1>8. CASE LoseProcess(w)
  <2>1. UNCHANGED <<now, sweepSource, since, created>> /\ sweepFaults' = sweepFaults + 1
        /\ Moves(w, IdleSweep) /\ worker'[w].pc = "idle"
    BY <1>0, <1>8 DEF LoseProcess, IdleWorker, Moves, SweepTypeOK, IdleSweep
  <2>2. Slack' = Slack + StaleAfter /\ Slack \in Nat
    BY <1>0, <2>1, SlackGrows, SlackFacts
  <2>3. ~Sweeping(w)' /\ sweepFaults' > 0
    BY <1>0, <2>1 DEF Sweeping
  <2>4. ASSUME Productive PROVE LeaseWatched(w)'
    <3>1. recurrence.started <= now /\ Covered(now - Slack, since, recurrence.rule, Passed, created)
      BY <1>0, <2>4 DEF SweepTypeOK, HorizonInv, HorizonWatched, CanWait
    <3> DEFINE x == recurrence.started + StaleAfter
    <3>2. x \in Int /\ x - Slack' <= now - Slack
      BY <1>0, <2>2, <3>1
    <3>3. Covered(x - Slack', since', recurrence'.rule, Passed', created')
      <4> HIDE DEF x
      <4> QED
        BY <1>0, <2>1, <3>1, <3>2, WaitKept DEF sweepSource
    <3>4. CanWait(recurrence.started + StaleAfter)'
      BY <2>1, <3>3 DEF CanWait, sweepSource
    <3> QED
      BY <2>1, <2>3, <3>4 DEF LeaseWatched
  <2> QED
    BY <1>0, <2>1, <2>3, <2>4, WatchKept
<1>9. CASE SweepThrows(w)
  <2>1. UNCHANGED <<now, sweepSource, since, created>> /\ sweepFaults' = sweepFaults + 1
        /\ Moves(w, [worker[w] EXCEPT !.pc = "complete", !.outcome = "failure"])
    BY <1>9 DEF SweepThrows, Concludes
  <2>2. Slack' = Slack + StaleAfter /\ Slack \in Nat
    BY <1>0, <2>1, SlackGrows, SlackFacts
  <2>3. worker'[w].pc = "complete" /\ Sweeping(w)'
    BY <1>0, <2>1 DEF Moves, SweepTypeOK, Sweep, Sweeping
  <2>4. ASSUME Productive PROVE LeaseWatched(w)'
    <3>1. recurrence.next <= now + 1 /\ Covered(now - Slack, since, recurrence.rule, Passed, created)
      BY <1>0, <2>4 DEF HorizonInv, HorizonWatched, LeaseSound, CanWait
    <3>2. recurrence.next - Slack' <= now - Slack
      BY <1>0, <2>2, <3>1
    <3>3. Covered(recurrence.next - Slack', since', recurrence'.rule, Passed', created')
      BY <1>0, <2>1, <3>1, <3>2, WaitKept DEF sweepSource
    <3> QED
      BY <2>1, <2>3, <3>3 DEF LeaseWatched, CanWait, sweepSource
  <2> QED
    BY <1>0, <2>1, <2>3, <2>4, WatchKept
<1> QED
  BY <1>1, <1>2, <1>3, <1>4, <1>5, <1>6, <1>7, <1>8, <1>9 DEF Sweeps

\* Whoever changed the series has all the time of a new one.
LEMMA AdminHorizon ==
  ASSUME SweepTypeOK, SweepTypeOK', HorizonInv,
         EditRecurrence \/ SetRecurrenceActive \/ SetTemplateActive \/ EditParent \/ SetEnabled \/ SetNeeds
  PROVE  HorizonInv'
<1>1. UNCHANGED <<now, worker, created, sweepFaults>> /\ since' = now
  BY DEF EditRecurrence, SetRecurrenceActive, SetTemplateActive, EditParent, SetEnabled, SetNeeds,
         Revise, Change
<1>2. /\ now \in Nat /\ recurrence.next \in Nat /\ recurrence.started \in Int /\ recurrence.started <= now
      /\ sweepFaults \in Nat /\ StaleAfter \in Nat /\ Slack' = Slack /\ Slack \in Nat /\ Slack >= 2
      /\ sweepFaults > 0 => Slack >= 2 + StaleAfter
  BY <1>1, LeaseAssumption, SweepBoundsAssumption, SlackFacts, SlackGrows
  DEF SweepTypeOK, Series, Never
<1>3. \/ recurrence' = recurrence
      \/ recurrence'.token = NoOne /\ recurrence'.next \in {recurrence.next, now}
  <2>1. CASE SetRecurrenceActive
    BY <2>1 DEF SetRecurrenceActive, SweepTypeOK, Series
  <2>2. CASE EditRecurrence
    <3>1. PICK rule \in Rules : recurrence' = Edited(rule)
      BY <2>2 DEF EditRecurrence
    <3> QED
      BY <3>1 DEF Edited, SweepTypeOK, Series
  <2> QED
    BY <2>1, <2>2 DEF SetTemplateActive, EditParent, SetEnabled, SetNeeds
<1>4. LeaseSound'
  BY <1>1, <1>2, <1>3, WorkersAssumption DEF HorizonInv, LeaseSound, Sweeping
<1>5. ASSUME NEW x \in Int, x - Slack' < since'
      PROVE  Covered(x - Slack', since', recurrence'.rule, Passed', created')
  BY <1>1, <1>2, <1>5 DEF Covered
<1>6. CanWait(now)' /\ CanWait(recurrence.next)'
  <2>1. recurrence'.next \in Int /\ recurrence'.next <= now + 1
    BY <1>2, <1>3 DEF HorizonInv, LeaseSound
  <2> QED
    BY <1>1, <1>2, <1>5, <2>1 DEF CanWait
<1>7. ASSUME NEW w \in Workers, recurrence'.token = w PROVE LeaseWatched(w)'
  <2>1. recurrence' = recurrence
    BY <1>3, <1>7, WorkersAssumption
  <2>2. ~Sweeping(w)' => CanWait(recurrence.started + StaleAfter)'
    <3> SUFFICES ASSUME ~Sweeping(w)' PROVE CanWait(recurrence.started + StaleAfter)'
      OBVIOUS
    <3>1. sweepFaults > 0
      BY <1>1, <1>7, <2>1 DEF Sweeping, HorizonInv, LeaseSound
    <3>2. (recurrence.started + StaleAfter) - Slack' < since'
      BY <1>1, <1>2, <3>1
    <3> QED
      BY <1>2, <1>5, <2>1, <3>2 DEF CanWait
  <2>3. worker[w].clock <= now /\ worker[w].clock \in Nat
    BY SweepBoundsAssumption DEF SweepTypeOK, Sweep, SweepOK
  <2> QED
    BY <1>1, <1>2, <1>6, <2>2, <2>3 DEF LeaseWatched
<1> QED
  BY <1>4, <1>6, <1>7 DEF HorizonInv, HorizonWatched

\* Time passes without a fault only if no sweep is due or under way: the next
\* one is still to come, or the lease of a lost process has not run out.
LEMMA TickHorizon ==
  ASSUME SweepTypeOK, SweepTypeOK', HorizonInv, Tick
  PROVE  HorizonInv'
<1>1. now' = now + 1 /\ UNCHANGED <<recurrence, parent, guild, created, worker, since>>
      /\ sweepFaults' \in {sweepFaults, sweepFaults + 1}
  BY DEF Tick, sweepSource
<1>2. /\ now \in Nat /\ recurrence.next \in Nat /\ recurrence.started \in Int
      /\ sweepFaults \in Nat /\ StaleAfter \in Nat /\ StaleAfter > 1
      /\ Slack \in Int /\ Slack' \in Int /\ Slack <= Slack'
  BY <1>1, LeaseAssumption, SweepBoundsAssumption, SlackFacts, SlackGrows
  DEF SweepTypeOK, Series, Never
<1>3. LeaseSound'
  BY <1>1, <1>2 DEF HorizonInv, LeaseSound, Sweeping
<1>4. ASSUME NEW x \in Int, NEW y \in Int, y - Slack' <= x - Slack,
             Covered(x - Slack, since, recurrence.rule, Passed, created)
      PROVE  Covered(y - Slack', since', recurrence'.rule, Passed', created')
  <2>1. now <= now'
    BY <1>1, <1>2
  <2> QED
    BY <1>1, <1>4, <2>1, WaitKept
<1> DEFINE Longer(x) == Covered(x - Slack', since', recurrence'.rule, Passed', created')
<1>8. ASSUME NEW x \in Int, CanWait(x) PROVE Longer(x)
  <2>1. x - Slack' <= x - Slack
    BY <1>2, <1>8, LaterIsLess
  <2> QED
    BY <1>4, <1>8, <2>1 DEF CanWait
<1>9. ASSUME NEW x \in Int, CanWait(x), (now + 1) - Slack' <= x - Slack PROVE CanWait(now)'
  <2> DEFINE y == now'
  <2>1. y = now + 1 /\ y \in Int
    BY <1>1, <1>2
  <2>2. Longer(y)
    <3> HIDE DEF y
    <3>1. y - Slack' <= x - Slack
      BY <1>9, <2>1
    <3>2. Covered(x - Slack, since, recurrence.rule, Passed, created)
      BY <1>9 DEF CanWait
    <3> QED
      BY <1>4, <1>9, <2>1, <3>1, <3>2
  <2> QED
    BY <2>2 DEF CanWait
<1>10. recurrence.next \in Int /\ recurrence.started + StaleAfter \in Int /\ now \in Int
  BY <1>2
<1>5. ASSUME Productive PROVE CanWait(now)'
  <2>1. CASE sweepFaults' = sweepFaults + 1
    <3>1. (now + 1) - Slack' <= now - Slack
      BY <1>2, <2>1, SlackGrows
    <3> QED
      BY <1>5, <1>9, <1>10, <3>1 DEF HorizonInv, HorizonWatched
  <2>2. CASE Punctual /\ sweepFaults' = sweepFaults
    <3>1. Slack' = Slack
      BY <2>2, SlackGrows
    <3>2. recurrence.next > now \/ ~LeaseFree(now)
      BY <1>2, <1>5, <2>2 DEF Punctual, Due, Productive
    <3>3. CASE recurrence.token = NoOne
      <4>1. recurrence.next > now /\ CanWait(recurrence.next)
        BY <1>5, <3>2, <3>3 DEF LeaseFree, HorizonInv, HorizonWatched
      <4>2. (now + 1) - Slack' <= recurrence.next - Slack
        BY <1>2, <3>1, <4>1
      <4> QED
        BY <1>9, <1>10, <4>1, <4>2
    <3>4. CASE recurrence.token # NoOne
      <4>1. PICK w \in Workers : recurrence.token = w
        BY <3>4 DEF SweepTypeOK, Series
      <4>2. ~Sweeping(w)
        BY <2>2 DEF Punctual, Sweeping
      <4>3. CanWait(recurrence.started + StaleAfter)
        BY <1>5, <4>1, <4>2 DEF HorizonInv, HorizonWatched, LeaseWatched
      <4>4. recurrence.started + StaleAfter > now
        BY <1>2, <3>2, <3>4 DEF LeaseFree, HorizonInv, LeaseSound
      <4>5. (now + 1) - Slack' <= (recurrence.started + StaleAfter) - Slack
        BY <1>2, <3>1, <4>4
      <4> QED
        <5> DEFINE x == recurrence.started + StaleAfter
        <5>1. x \in Int /\ CanWait(x)
          BY <1>10, <4>3
        <5>2. (now + 1) - Slack' <= x - Slack
          BY <4>5
        <5> HIDE DEF x
        <5> QED
          BY <1>9, <5>1, <5>2
    <3> QED
      BY <3>3, <3>4
  <2> QED
    BY <2>1, <2>2 DEF Tick
<1>6. ASSUME Productive, recurrence.token = NoOne PROVE CanWait(recurrence.next)'
  <2>1. Longer(recurrence.next)
    BY <1>6, <1>8, <1>10 DEF HorizonInv, HorizonWatched
  <2> QED
    BY <1>1, <2>1 DEF CanWait
<1>7. ASSUME Productive, NEW w \in Workers, recurrence.token = w PROVE LeaseWatched(w)'
  <2>1. LeaseWatched(w)
    BY <1>7 DEF HorizonInv, HorizonWatched
  <2>2. ~Sweeping(w)' => CanWait(recurrence.started + StaleAfter)'
    <3>1. ~Sweeping(w)' => Longer(recurrence.started + StaleAfter)
      BY <1>1, <1>8, <1>10, <2>1 DEF LeaseWatched, Sweeping
    <3> QED
      BY <1>1, <3>1 DEF CanWait
  <2>3. worker[w].pc = "complete" => CanWait(recurrence.next)'
    <3>1. worker[w].pc = "complete" => Longer(recurrence.next)
      BY <1>8, <1>10, <2>1 DEF LeaseWatched
    <3> QED
      BY <1>1, <3>1 DEF CanWait
  <2>4. worker[w].pc = "slots" /\ since < worker[w].clock
          => Covered(worker[w].clock, since, recurrence.rule, Passed', created \cup worker[w].todo)
    <3>1. Passed \in Nat /\ Passed' = Passed + 1
      BY <1>1, <1>2, PassedFacts DEF Passed
    <3>2. \A d \in recurrence.rule : d \in Nat
      BY RulesAssumption DEF SweepTypeOK, Series
    <3> QED
      BY <2>1, <3>1, <3>2 DEF LeaseWatched, Covered
  <2> QED
    BY <1>1, <2>2, <2>3, <2>4 DEF LeaseWatched
<1> QED
  BY <1>1, <1>3, <1>5, <1>6, <1>7 DEF HorizonInv, HorizonWatched, Productive, Eligible

LEMMA InitHorizon == SweepInit => HorizonInv
<1> SUFFICES ASSUME SweepInit PROVE HorizonInv
  OBVIOUS
<1>1. /\ now = 0 /\ since = 0 /\ recurrence.token = NoOne /\ recurrence.next = 0
      /\ Slack \in Nat /\ Slack >= 2
  <2>1. now = 0 /\ since = 0 /\ recurrence.token = NoOne /\ recurrence.next = 0
    BY DEF SweepInit
  <2>2. Slack \in Nat /\ Slack >= 2
    BY SweepInitType, SlackFacts
  <2> QED
    BY <2>1, <2>2
<1>2. LeaseSound
  BY <1>1, WorkersAssumption DEF LeaseSound
<1>3. CanWait(0)
  BY <1>1 DEF CanWait, Covered
<1> QED
  BY <1>1, <1>2, <1>3, WorkersAssumption DEF HorizonInv, HorizonWatched

LEMMA NextHorizon ==
  SweepInv /\ SweepInv' /\ HorizonInv /\ [SweepNext]_sweepVars => HorizonInv'
<1> SUFFICES ASSUME SweepInv, SweepInv', HorizonInv, [SweepNext]_sweepVars PROVE HorizonInv'
  OBVIOUS
<1>1. CASE UNCHANGED sweepVars
  BY <1>1 DEF sweepVars, sweepSource, HorizonInv, HorizonWatched, LeaseSound, LeaseWatched, CanWait,
              Slack, Sweeping, Passed, Productive, Eligible
<1> QED
  BY <1>1, SweepsHorizon, AdminHorizon, TickHorizon DEF SweepNext, SweepInv

-----------------------------------------------------------------------------
(* The theorems.                                                           *)

LEMMA InitSweepInv == SweepInit => SweepInv
<1>1. SweepInit => NeverImmediate /\ ClaimCurrent
  BY DEF SweepInit, NeverImmediate, ClaimCurrent, IdleSweep
<1> QED
  BY <1>1, SweepInitType DEF SweepInv

LEMMA NextSweepInv == SweepInv /\ [SweepNext]_sweepVars => SweepInv'
BY SweepNextType, NextImmediate, ClaimNext DEF SweepInv

LEMMA SweepInvariance == SweepSpec => []SweepInv
BY InitSweepInv, NextSweepInv, PTL DEF SweepSpec

\* The rows of a series and its template, and what each process remembers of
\* its sweep, keep their shape (sweep-service.ts, schema.ts).
THEOREM SweepsTypeCorrect == SweepSpec => []SweepTypeOK
<1>1. SweepInv => SweepTypeOK
  BY DEF SweepInv
<1> QED
  BY SweepInvariance, <1>1, PTL

\* No interleaving of resuming a series and editing its template makes an
\* active series generate events for immediate publication.
THEOREM ImmediateRefused == SweepSpec => []NeverImmediate
<1>1. SweepInv => NeverImmediate
  BY DEF SweepInv
<1> QED
  BY SweepInvariance, <1>1, PTL

\* Completion is fenced: whatever leases run out and whatever is edited, only
\* the process with the current claim of the current source records an outcome.
THEOREM CompletionIsFenced == SweepSpec => RecordedOutcomeIsCurrent
<1> DEFINE Recorded ==
      \A w \in Workers :
        worker[w].pc = "complete" /\ worker'[w].pc = "idle" /\ recurrence' # recurrence
          => worker[w].change >= revised /\ worker[w].clock = recurrence.started
<1>1. SweepInv /\ [SweepNext]_sweepVars => [Recorded]_sweepVars
  <2> SUFFICES ASSUME SweepInv, SweepNext, NEW w \in Workers,
                      worker[w].pc = "complete", worker'[w].pc = "idle", recurrence' # recurrence
               PROVE  worker[w].change >= revised /\ worker[w].clock = recurrence.started
    OBVIOUS
  <2>1. CASE Complete(w)
    BY <2>1 DEF SweepInv, ClaimCurrent, Complete, Owns
  <2>2. ASSUME NEW v \in Workers, v # w, Complete(v) \/ Claim(v) PROVE FALSE
    BY <2>2 DEF Complete, Claim, IdleWorker, Moves, SweepInv, SweepTypeOK
  <2>3. CASE Claim(w)
    BY <2>3 DEF Claim
  <2>4. CASE EditRecurrence \/ SetRecurrenceActive
    BY <2>4 DEF EditRecurrence, SetRecurrenceActive, Revise, Change
  <2>5. CASE UNCHANGED recurrence
    BY <2>5
  <2> QED
    BY <2>1, <2>2, <2>3, <2>4, <2>5
    DEF SweepNext, Sweeps, Tick, Discover, CheckEligibility, ReadHorizon, GenerateSlot, FinishSlots,
        LoseProcess, SweepThrows, SetTemplateActive, EditParent, SetEnabled, SetNeeds, sweepSource
<1> QED
  BY SweepInvariance, <1>1, PTL DEF SweepSpec, RecordedOutcomeIsCurrent

\* A series keeps its horizon full: through lost processes, leases that have to
\* run out, failed sweeps and stalls, one that has been unchanged, eligible and
\* provided for long enough has an event for every slot whose sign-ups are still
\* to close, late by one lease for each fault.
THEOREM HorizonIsFull == SweepSpec => []SlotsMaterialise
<1>1. SweepInv /\ HorizonInv => SlotsMaterialise
  <2> SUFFICES ASSUME SweepInv, HorizonInv, Productive, since + Slack <= now,
                      NEW d \in recurrence.rule \ Nonexistent,
                      d - parent.lead > now, d < now + Horizon - Slack
               PROVE  d \in created
    BY DEF SlotsMaterialise
  <2>1. now \in Int /\ since \in Int /\ Slack \in Nat /\ Horizon \in Nat /\ d \in Nat
    BY SlackFacts, LeaseAssumption, SweepBoundsAssumption, RulesAssumption
    DEF SweepInv, SweepTypeOK, Series
  <2>2. Covered(now - Slack, since, recurrence.rule, Passed, created)
    BY DEF HorizonInv, HorizonWatched, CanWait
  <2>3. d > Passed
    BY <2>1, PassedFacts DEF SweepInv, Passed
  <2> QED
    BY <2>1, <2>2, <2>3 DEF Covered
<1> QED
  BY SweepInvariance, InitHorizon, NextHorizon, <1>1, PTL DEF SweepSpec
=============================================================================
