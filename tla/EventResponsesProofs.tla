------------------------ MODULE EventResponsesProofs ------------------------
(***************************************************************************)
(* Proofs about EventResponses, for any members, options, groups, button   *)
(* presses in flight and bounds.                                           *)
(***************************************************************************)
EXTENDS EventResponses, TLAPS

\* A handler knows its member, its option and its group.
Named(h) == /\ h.op # "none" => h.who \in Members
            /\ h.op \in {"add", "withdraw"} => h.what \in Options
            /\ h.op = "add" => h.via \in Groups
AllNamed == \A c \in Clicks : Named(click[c])

\* The answer a statement saw in its snapshot is one its guard allows.
Weighed == \A c \in Clicks : At(c, "add", "write") => Allows(c, click[c].saw)

IInv == TypeOK /\ AllNamed /\ Weighed

WeighedAs(h) ==
  h.op = "add" /\ h.pc = "write" =>
    /\ event.signups => h.saw # "not_attending"
    /\ group[h.via].positive => event.signups /\ h.saw = "attending"

\* What a step of a handler may do to the handlers.
Steps(c, h) == click' = [click EXCEPT ![c] = h] /\ h \in Handler /\ Named(h)

-----------------------------------------------------------------------------
(* The handlers stay well-formed.                                          *)

LEMMA IdleHandler == Idle \in Handler /\ Named(Idle)
  BY BoundsAssumption DEF Idle, Handler, Named, Answers, Times

\* A step that only moves on.
LEMMA GotoSteps ==
  ASSUME TypeOK, AllNamed, NEW c \in Clicks,
         NEW pc \in {"idle", "read", "signup", "snapshot", "write", "close", "reply",
                     "requests", "answers"},
         Goto(c, pc)
  PROVE  Steps(c, [click[c] EXCEPT !.pc = pc])
  <1>1. click[c] \in Handler /\ Named(click[c])
    BY DEF TypeOK, AllNamed
  <1>2. [click[c] EXCEPT !.pc = pc] \in Handler
    BY <1>1 DEF Handler
  <1>3. Named([click[c] EXCEPT !.pc = pc])
    BY <1>1 DEF Named, Handler
  <1> QED BY <1>2, <1>3 DEF Goto, Steps

LEMMA StopSteps ==
  ASSUME NEW c \in Clicks, Stop(c)
  PROVE  Steps(c, Idle)
  BY IdleHandler DEF Stop, Steps

\* The answer that a handler of a request looks at is one.
LEMMA AnswerTyped ==
  ASSUME TypeOK, AllNamed, NEW c \in Clicks, click[c].op # "none"
  PROVE  answer[click[c].who] \in Answers
  <1>1. click[c].who \in Members
    BY DEF AllNamed, Named
  <1> QED BY <1>1 DEF TypeOK

LEMMA PairTyped ==
  ASSUME TypeOK, AllNamed, NEW c \in Clicks, click[c].op \in {"add", "withdraw"}
  PROVE  Pair(c) \in Pairs /\ request[Pair(c)] \in Request
  <1>1. click[c].who \in Members /\ click[c].what \in Options
    BY DEF AllNamed, Named
  <1> QED BY <1>1 DEF TypeOK, Pair, Pairs

LEMMA PressSteps ==
  ASSUME TypeOK, NEW c \in Clicks, Press(c)
  PROVE  \E h : Steps(c, h) /\ h.pc = "read"
  <1>1. PICK m \in Members :
          \/ \E a \in Chosen :
               click' = [click EXCEPT ![c] = [Idle EXCEPT !.op = "answer", !.pc = "read",
                                                          !.who = m, !.want = a]]
          \/ \E o \in Options, g \in Groups :
               click' = [click EXCEPT ![c] = [Idle EXCEPT !.op = "add", !.pc = "read",
                                                          !.who = m, !.what = o, !.via = g]]
          \/ \E o \in Options :
               click' = [click EXCEPT ![c] = [Idle EXCEPT !.op = "withdraw", !.pc = "read",
                                                          !.who = m, !.what = o]]
    BY DEF Press
  <1>2. CASE \E a \in Chosen :
               click' = [click EXCEPT ![c] = [Idle EXCEPT !.op = "answer", !.pc = "read",
                                                          !.who = m, !.want = a]]
    <2>1. PICK a \in Chosen :
            click' = [click EXCEPT ![c] = [Idle EXCEPT !.op = "answer", !.pc = "read",
                                                       !.who = m, !.want = a]]
      BY <1>2
    <2> DEFINE h == [Idle EXCEPT !.op = "answer", !.pc = "read", !.who = m, !.want = a]
    <2>2. h \in Handler /\ Named(h) /\ h.pc = "read"
      BY IdleHandler DEF Idle, Handler, Named, Chosen, Answers, Ops
    <2> QED BY <2>1, <2>2 DEF Steps
  <1>3. CASE \E o \in Options, g \in Groups :
               click' = [click EXCEPT ![c] = [Idle EXCEPT !.op = "add", !.pc = "read",
                                                          !.who = m, !.what = o, !.via = g]]
    <2>1. PICK o \in Options, g \in Groups :
            click' = [click EXCEPT ![c] = [Idle EXCEPT !.op = "add", !.pc = "read",
                                                       !.who = m, !.what = o, !.via = g]]
      BY <1>3
    <2> DEFINE h == [Idle EXCEPT !.op = "add", !.pc = "read", !.who = m, !.what = o, !.via = g]
    <2>2. h \in Handler /\ Named(h) /\ h.pc = "read"
      BY IdleHandler DEF Idle, Handler, Named, Answers, Ops
    <2> QED BY <2>1, <2>2 DEF Steps
  <1>4. CASE \E o \in Options :
               click' = [click EXCEPT ![c] = [Idle EXCEPT !.op = "withdraw", !.pc = "read",
                                                          !.who = m, !.what = o]]
    <2>1. PICK o \in Options :
            click' = [click EXCEPT ![c] = [Idle EXCEPT !.op = "withdraw", !.pc = "read",
                                                       !.who = m, !.what = o]]
      BY <1>4
    <2> DEFINE h == [Idle EXCEPT !.op = "withdraw", !.pc = "read", !.who = m, !.what = o]
    <2>2. h \in Handler /\ Named(h) /\ h.pc = "read"
      BY IdleHandler DEF Idle, Handler, Named, Answers, Ops
    <2> QED BY <2>1, <2>2 DEF Steps
  <1> QED BY <1>1, <1>2, <1>3, <1>4

LEMMA MovedOn ==
  ASSUME TypeOK, AllNamed, NEW c \in Clicks,
         NEW pc \in {"idle", "read", "signup", "snapshot", "write", "close", "reply",
                     "requests", "answers"},
         Goto(c, pc), click[c].op = "add" => pc # "write"
  PROVE  \E h : Steps(c, h) /\ WeighedAs(h)
  <1>1. click[c] \in Handler
    BY DEF TypeOK
  <1>2. WeighedAs([click[c] EXCEPT !.pc = pc])
    BY <1>1 DEF WeighedAs, Handler
  <1> QED BY <1>2, GotoSteps

LEMMA Stopped ==
  ASSUME NEW c \in Clicks, Stop(c)
  PROVE  \E h : Steps(c, h) /\ WeighedAs(h)
  <1>1. WeighedAs(Idle)
    BY DEF WeighedAs, Idle
  <1> QED BY <1>1, StopSteps

\* Every step of a handler leaves a well-formed one.
LEMMA HandlesSteps ==
  ASSUME IInv, NEW c \in Clicks, Handles(c)
  PROVE  \E h : Steps(c, h) /\ WeighedAs(h)
  <1> USE DEF IInv
  <1>0. click[c] \in Handler /\ Named(click[c]) /\ now \in Times
    BY BoundsAssumption DEF TypeOK, AllNamed, Times
  <1>1. CASE AnswerRead(c)
    <2>1. CASE Stop(c)
      BY <2>1, Stopped
    <2>2. CASE Goto(c, "reply")
      BY <2>2, MovedOn
    <2>3. CASE Goto(c, "close")
      BY <2>3, MovedOn
    <2>4. CASE click' = [click EXCEPT ![c].pc = "snapshot", ![c].at = now]
      <3> DEFINE h == [click[c] EXCEPT !.pc = "snapshot", !.at = now]
      <3>1. h \in Handler /\ Named(h) /\ WeighedAs(h)
        BY <1>0 DEF Handler, Named, WeighedAs
      <3>2. click' = [click EXCEPT ![c] = h]
        BY <2>4
      <3> QED BY <3>1, <3>2 DEF Steps
    <2> QED BY <1>1, <2>1, <2>2, <2>3, <2>4 DEF AnswerRead
  <1>2. CASE AnswerClose(c)
    <2>1. Goto(c, "reply")
      BY <1>2 DEF AnswerClose
    <2> QED BY <2>1, MovedOn
  <1>3. CASE AnswerSnapshot(c)
    <2>1. At(c, "answer", "snapshot") /\ (Goto(c, "write") \/ Goto(c, "reply"))
      BY <1>3 DEF AnswerSnapshot
    <2> QED BY <2>1, MovedOn DEF At
  <1>4. CASE AnswerWrite(c)
    <2>1. Goto(c, "reply")
      BY <1>4 DEF AnswerWrite
    <2> QED BY <2>1, MovedOn
  <1>5. CASE AnswerReply(c)
    <2>1. Stop(c)
      BY <1>5 DEF AnswerReply
    <2> QED BY <2>1, Stopped
  <1>6. CASE AddRead(c)
    <2>1. Stop(c) \/ Goto(c, "signup")
      BY <1>6 DEF AddRead
    <2> QED BY <2>1, Stopped, MovedOn
  <1>7. CASE AddSignup(c)
    <2>1. CASE Stop(c)
      BY <2>1, Stopped
    <2>2. CASE click' = [click EXCEPT ![c].pc = "snapshot", ![c].at = now]
      <3> DEFINE h == [click[c] EXCEPT !.pc = "snapshot", !.at = now]
      <3>1. h \in Handler /\ Named(h) /\ WeighedAs(h)
        BY <1>0 DEF Handler, Named, WeighedAs
      <3>2. click' = [click EXCEPT ![c] = h]
        BY <2>2
      <3> QED BY <3>1, <3>2 DEF Steps
    <2> QED BY <1>7, <2>1, <2>2 DEF AddSignup
  <1>8. CASE AddSnapshot(c)
    <2> DEFINE a == answer[click[c].who]
    <2>1. CASE Stop(c)
      BY <2>1, Stopped
    <2>2. CASE /\ Allows(c, a)
               /\ click' = [click EXCEPT ![c].pc = "write", ![c].saw = a]
      <3> DEFINE h == [click[c] EXCEPT !.pc = "write", !.saw = a]
      <3>1. a \in Answers
        BY <1>8, AnswerTyped DEF AddSnapshot, At
      <3>2. h \in Handler /\ Named(h)
        BY <1>0, <3>1 DEF Handler, Named
      <3>3. h.saw = a /\ h.via = click[c].via
        BY <1>0 DEF Handler
      <3>4. WeighedAs(h)
        BY <2>2, <3>3, Zenon DEF WeighedAs, Allows
      <3>5. click' = [click EXCEPT ![c] = h]
        BY <2>2
      <3> QED BY <3>2, <3>4, <3>5 DEF Steps
    <2> QED BY <1>8, <2>1, <2>2 DEF AddSnapshot
  <1>9. CASE AddWrite(c)
    <2>1. Stop(c) \/ Goto(c, "requests")
      BY <1>9 DEF AddWrite
    <2> QED BY <2>1, Stopped, MovedOn
  <1>10. CASE WithdrawRead(c)
    <2>1. At(c, "withdraw", "read") /\ (Stop(c) \/ Goto(c, "snapshot"))
      BY <1>10 DEF WithdrawRead
    <2> QED BY <2>1, Stopped, MovedOn
  <1>11. CASE WithdrawSnapshot(c)
    <2>1. CASE Stop(c)
      BY <2>1, Stopped
    <2>2. CASE click' = [click EXCEPT ![c].pc = "write", ![c].id = request[Pair(c)].id]
      <3> DEFINE h == [click[c] EXCEPT !.pc = "write", !.id = request[Pair(c)].id]
      <3>1. click[c].op = "withdraw"
        BY <1>11 DEF WithdrawSnapshot, At
      <3>2. request[Pair(c)].id \in Nat
        BY <3>1, PairTyped DEF Request, NoRequest
      <3>3. h \in Handler /\ Named(h) /\ WeighedAs(h)
        BY <1>0, <3>1, <3>2 DEF Handler, Named, WeighedAs
      <3>4. click' = [click EXCEPT ![c] = h]
        BY <2>2
      <3> QED BY <3>3, <3>4 DEF Steps
    <2> QED BY <1>11, <2>1, <2>2 DEF WithdrawSnapshot
  <1>12. CASE WithdrawWrite(c)
    <2>1. Stop(c) \/ Goto(c, "requests")
      BY <1>12 DEF WithdrawWrite
    <2> QED BY <2>1, Stopped, MovedOn
  <1>13. CASE HandlerReads(c)
    <2>1. Stop(c) \/ Goto(c, "answers")
      BY <1>13 DEF HandlerReads
    <2> QED BY <2>1, Stopped, MovedOn
  <1> QED BY <1>1, <1>2, <1>3, <1>4, <1>5, <1>6, <1>7, <1>8, <1>9, <1>10, <1>11, <1>12, <1>13 DEF Handles

\* Every step changes the handlers in one of three ways.
LEMMA ClickStep ==
  ASSUME IInv, [Next]_vars
  PROVE  \/ click' = click
         \/ \E c \in Clicks : \E h : Steps(c, h) /\ WeighedAs(h)
         \/ click' = [c \in Clicks |-> Idle]
  <1> USE DEF IInv
  <1>1. CASE \E c \in Clicks : Press(c)
    <2>1. PICK c \in Clicks : Press(c)
      BY <1>1
    <2>2. PICK h : Steps(c, h) /\ h.pc = "read"
      BY <2>1, PressSteps
    <2>3. WeighedAs(h)
      BY <2>2 DEF WeighedAs
    <2> QED BY <2>2, <2>3
  <1>2. CASE \E c \in Clicks : Handles(c)
    BY <1>2, HandlesSteps
  <1>3. CASE Fault
    <2>1. CASE \E c \in Clicks : Stop(c)
      BY <2>1, Stopped
    <2>2. CASE click' = [c \in Clicks |-> Idle]
      BY <2>2
    <2> QED BY <1>3, <2>1, <2>2 DEF Fault
  <1>4. CASE Tick \/ Fire \/ (\E k \in Kinds : TimerReads(k))
    BY <1>4 DEF Tick, Fire, TimerReads
  <1>5. CASE \/ Open \/ Close \/ MoveGroups \/ (\E s \in Final : End(s))
             \/ (\E s \in Status : Move(s)) \/ (\E g \in Groups : CloseGroup(g))
    BY <1>5 DEF Open, Close, MoveGroups, End, Move, CloseGroup, Others
  <1>6. CASE UNCHANGED vars
    BY <1>6 DEF vars
  <1> QED BY <1>1, <1>2, <1>3, <1>4, <1>5, <1>6 DEF Next

LEMMA ClickTyped ==
  ASSUME IInv, [Next]_vars
  PROVE  click' \in [Clicks -> Handler] /\ AllNamed'
  <1> USE DEF IInv
  <1>0. click \in [Clicks -> Handler]
    BY DEF TypeOK
  <1>1. CASE click' = click
    BY <1>0, <1>1 DEF AllNamed, Named
  <1>2. CASE \E c \in Clicks : \E h : Steps(c, h) /\ WeighedAs(h)
    BY <1>0, <1>2 DEF Steps, AllNamed, Named
  <1>3. CASE click' = [c \in Clicks |-> Idle]
    BY <1>3, IdleHandler DEF AllNamed, Named
  <1> QED BY <1>1, <1>2, <1>3, ClickStep

\* The event and its groups keep their kind.
SameKind == /\ event'.signups = event.signups
            /\ \A g \in Groups : group'[g].positive = group[g].positive

LEMMA WorldTyped ==
  ASSUME TypeOK, [Next]_vars
  PROVE  now' \in 0 .. MaxTime /\ event' \in Event /\ group' \in [Groups -> Group] /\ SameKind
  <1> USE BoundsAssumption
  <1>0. now \in 0 .. MaxTime /\ event \in Event /\ group \in [Groups -> Group]
    BY DEF TypeOK
  <1>1. CASE UNCHANGED world
    BY <1>0, <1>1 DEF world, SameKind
  <1>2. CASE Tick
    BY <1>0, <1>2 DEF Tick, SameKind
  <1>3. CASE Open \/ Close
    BY <1>0, <1>3 DEF Open, Close, Others, Event, Status, SameKind
  <1>4. CASE \E s \in Final : End(s)
    BY <1>0, <1>4 DEF End, Others, Event, Status, Final, SameKind
  <1>5. CASE \E s \in Status : Move(s)
    BY <1>0, <1>5 DEF Move, Others, Event, SameKind
  <1>6. CASE MoveGroups
    <2>1. PICK t \in Times :
            group' = [g \in Groups |-> [group[g] EXCEPT !.until =
                                          IF group[g].closed THEN @ ELSE t]]
      BY <1>6 DEF MoveGroups
    <2>2. \A g \in Groups : group'[g] \in Group /\ group'[g].positive = group[g].positive
      BY <1>0, <2>1 DEF Group
    <2>3. now' = now /\ event' = event
      BY <1>6 DEF MoveGroups, Others
    <2> QED BY <1>0, <2>1, <2>2, <2>3 DEF SameKind
  <1>7. CASE \E g \in Groups : CloseGroup(g)
    <2>1. PICK g \in Groups : CloseGroup(g)
      BY <1>7
    <2> QED BY <1>0, <2>1 DEF CloseGroup, Others, Group, SameKind
  <1>8. CASE \E c \in Clicks : AnswerClose(c)
    <2>1. event' \in Event /\ event'.signups = event.signups
      BY <1>0, <1>8 DEF AnswerClose, Event, Status
    <2>2. now' = now /\ group' = group
      BY <1>8 DEF AnswerClose
    <2> QED BY <1>0, <2>1, <2>2 DEF SameKind
  <1>9. CASE \E c \in Clicks : Press(c) \/ (Handles(c) /\ ~AnswerClose(c))
    BY <1>1, <1>9 DEF Press, Handles, Quiet, AnswerRead, AnswerSnapshot, AnswerWrite, AnswerReply,
                      AddRead, AddSignup, AddSnapshot, AddWrite, WithdrawRead, WithdrawSnapshot,
                      WithdrawWrite, HandlerReads
  <1>10. CASE Fire \/ (\E k \in Kinds : TimerReads(k)) \/ Fault
    BY <1>1, <1>10 DEF Fire, TimerReads, Fault
  <1>11. CASE UNCHANGED vars
    BY <1>1, <1>11 DEF vars
  <1> QED BY <1>2, <1>3, <1>4, <1>5, <1>6, <1>7, <1>8, <1>9, <1>10, <1>11 DEF Next

-----------------------------------------------------------------------------
(* The answers, the requests and what refreshes have read.                 *)

\* What the handlers do that write neither.
Reading(c) ==
  \/ AnswerRead(c) \/ AnswerClose(c) \/ AnswerSnapshot(c) \/ AnswerReply(c)
  \/ AddRead(c) \/ AddSignup(c) \/ AddSnapshot(c) \/ WithdrawRead(c) \/ WithdrawSnapshot(c)

LEMMA ReadingKeeps ==
  ASSUME NEW c \in Clicks, Reading(c)
  PROVE  UNCHANGED <<answer, request, unseen, dropped, made, clicked, commands, faults, reading>>
  BY DEF Reading, AnswerRead, AnswerClose, AnswerSnapshot, AnswerReply, AddRead, AddSignup,
         AddSnapshot, WithdrawRead, WithdrawSnapshot, Kept, Quiet, bounds

\* The steps of Next that leave answers and requests alone.
LEMMA OthersKeep ==
  ASSUME NEW g \in Groups, NEW s \in Status, NEW k \in Kinds,
         \/ Tick \/ Open \/ Close \/ MoveGroups \/ End(s) \/ Move(s) \/ CloseGroup(g)
         \/ Fire \/ TimerReads(k) \/ Fault \/ UNCHANGED vars
  PROVE  UNCHANGED <<answer, request, made>>
  BY DEF Tick, Open, Close, MoveGroups, End, Move, CloseGroup, Others, Fire, TimerReads, Fault,
         Kept, vars

\* So only three statements write them.
LEMMA Writers ==
  ASSUME [Next]_vars
  PROVE  \/ UNCHANGED <<answer, request, made>>
         \/ \E c \in Clicks : AnswerWrite(c) \/ AddWrite(c) \/ WithdrawWrite(c)
  <1>1. CASE \E c \in Clicks : Press(c)
    BY <1>1 DEF Press, Kept
  <1>2. CASE \E c \in Clicks : Handles(c)
    <2>1. PICK c \in Clicks : Handles(c)
      BY <1>2
    <2>2. CASE HandlerReads(c)
      BY <2>2 DEF HandlerReads
    <2>3. CASE Reading(c)
      BY <2>3, ReadingKeeps
    <2> QED BY <2>1, <2>2, <2>3 DEF Handles, Reading
  <1>3. CASE Tick \/ Open \/ Close \/ MoveGroups \/ Fire \/ Fault \/ UNCHANGED vars
    BY <1>3 DEF Tick, Open, Close, MoveGroups, Others, Fire, Fault, Kept, vars
  <1>4. CASE \/ \E s \in Final : End(s)
             \/ \E s \in Status : Move(s)
             \/ \E g \in Groups : CloseGroup(g)
             \/ \E k \in Kinds : TimerReads(k)
    BY <1>4 DEF End, Move, CloseGroup, Others, TimerReads
  <1> QED BY <1>1, <1>2, <1>3, <1>4 DEF Next

LEMMA RowsTyped ==
  ASSUME IInv, [Next]_vars
  PROVE  answer' \in [Members -> Answers] /\ request' \in [Pairs -> Request] /\ made' \in Nat
  <1> USE DEF IInv
  <1>0. /\ answer \in [Members -> Answers] /\ request \in [Pairs -> Request] /\ made \in Nat
        /\ click \in [Clicks -> Handler]
    BY DEF TypeOK
  <1>1. CASE UNCHANGED <<answer, request, made>>
    BY <1>0, <1>1
  <1>2. ASSUME NEW c \in Clicks, AnswerWrite(c)
        PROVE  answer' \in [Members -> Answers] /\ UNCHANGED <<request, made>>
    <2>1. click[c].want \in Answers
      BY <1>0 DEF Handler
    <2> QED BY <1>0, <1>2, <2>1 DEF AnswerWrite
  <1>3. ASSUME NEW c \in Clicks, AddWrite(c)
        PROVE  UNCHANGED answer /\ request' \in [Pairs -> Request] /\ made' \in Nat
    <2>1. click[c].via \in Groups
      BY <1>3 DEF AddWrite, At, AllNamed, Named
    <2>2. Stored(c) \in Request
      BY <1>0, <2>1 DEF Stored, Request
    <2> QED BY <1>0, <1>3, <2>2 DEF AddWrite
  <1>4. ASSUME NEW c \in Clicks, WithdrawWrite(c)
        PROVE  request' \in [Pairs -> Request] /\ UNCHANGED <<answer, made>>
    <2>1. NoRequest \in Request
      BY DEF Request
    <2> QED BY <1>0, <1>4, <2>1 DEF WithdrawWrite
  <1> QED BY <1>0, <1>1, <1>2, <1>3, <1>4, Writers

LEMMA RefreshTyped ==
  ASSUME TypeOK, [Next]_vars
  PROVE  /\ unseen' \subseteq Kinds /\ dropped' \subseteq unseen'
         /\ timer' \in BOOLEAN /\ reading' \in [Kinds -> Nat]
         /\ clicked' \in Nat /\ commands' \in Nat /\ faults' \in Nat
  <1>0. /\ unseen \subseteq Kinds /\ dropped \subseteq unseen
        /\ timer \in BOOLEAN /\ reading \in [Kinds -> Nat]
        /\ clicked \in Nat /\ commands \in Nat /\ faults \in Nat
    BY DEF TypeOK
  <1> DEFINE Same == UNCHANGED <<unseen, dropped, timer, reading, clicked, commands, faults>>
  <1>1. CASE Same
    BY <1>0, <1>1
  <1>2. CASE Tick \/ Open \/ Close \/ UNCHANGED vars
    BY <1>1, <1>2 DEF Tick, Open, Close, Others, bounds, vars
  <1>3. CASE (\E s \in Final : End(s)) \/ (\E g \in Groups : CloseGroup(g))
    BY <1>1, <1>3, Zenon DEF End, CloseGroup, Others
  <1>4. CASE MoveGroups \/ (\E s \in Status : Move(s))
    <2>1. commands' = commands + 1
      BY <1>4 DEF MoveGroups, Move
    <2>2. UNCHANGED <<unseen, dropped, timer, reading, clicked, faults>>
      BY <1>4, Zenon DEF MoveGroups, Move, Others
    <2> QED BY <1>0, <2>1, <2>2
  <1>5. CASE \E c \in Clicks : Press(c)
    <2>1. clicked' = clicked + 1
      BY <1>5 DEF Press
    <2>2. UNCHANGED <<unseen, dropped, timer, reading, commands, faults>>
      BY <1>5, Zenon DEF Press, Kept
    <2> QED BY <1>0, <2>1, <2>2
  <1>6. CASE \E c \in Clicks : Handles(c)
    <2>1. PICK c \in Clicks : Handles(c)
      BY <1>6
    <2>2. CASE Reading(c) /\ ~AnswerReply(c)
      BY <1>1, <2>2 DEF Reading, AnswerRead, AnswerClose, AnswerSnapshot, AddRead, AddSignup,
                        AddSnapshot, WithdrawRead, WithdrawSnapshot, Kept, Quiet, bounds
    <2>3. CASE AnswerReply(c)
      BY <1>0, <2>3 DEF AnswerReply, Kept, bounds
    <2>4. CASE AnswerWrite(c) \/ AddWrite(c) \/ WithdrawWrite(c)
      <3>1. unseen' \subseteq Kinds /\ unseen \subseteq unseen'
        BY <1>0, <2>4 DEF AnswerWrite, AddWrite, WithdrawWrite, Kinds
      <3>2. UNCHANGED <<dropped, timer, reading, clicked, commands, faults>>
        BY <2>4 DEF AnswerWrite, AddWrite, WithdrawWrite, Quiet, bounds
      <3> QED BY <1>0, <3>1, <3>2
    <2>5. CASE HandlerReads(c)
      BY <1>0, <2>5 DEF HandlerReads, Read, Quiet, bounds
    <2> QED BY <2>1, <2>2, <2>3, <2>4, <2>5 DEF Handles, Reading
  <1>7. CASE Fire
    <2>1. reading' \in [Kinds -> Nat] /\ timer' = FALSE
      BY <1>0, <1>7 DEF Fire, Kinds
    <2>2. UNCHANGED <<unseen, dropped, clicked, commands, faults>>
      BY <1>7 DEF Fire, Kept, bounds
    <2> QED BY <1>0, <2>1, <2>2
  <1>8. CASE \E k \in Kinds : TimerReads(k)
    <2>1. PICK k \in Kinds : TimerReads(k)
      BY <1>8
    <2>2. reading' \in [Kinds -> Nat]
      BY <1>0, <2>1 DEF TimerReads, Kinds
    <2> QED BY <1>0, <2>1, <2>2 DEF TimerReads, Read, bounds
  <1>9. CASE Fault
    <2>1. dropped' = unseen /\ unseen' = unseen /\ faults' = faults + 1
      BY <1>9 DEF Fault
    <2>2. timer' \in BOOLEAN
      BY <1>0, <1>9, Zenon DEF Fault
    <2>4. reading' = reading \/ reading' = NoReads
      BY <1>9, Zenon DEF Fault
    <2>5. reading' \in [Kinds -> Nat]
      BY <1>0, <2>4 DEF NoReads
    <2>3. UNCHANGED <<clicked, commands>>
      BY <1>9 DEF Fault
    <2> QED BY <1>0, <2>1, <2>2, <2>3, <2>5
  <1> QED BY <1>2, <1>3, <1>4, <1>5, <1>6, <1>7, <1>8, <1>9 DEF Next

LEMMA WeighedKept ==
  ASSUME IInv, [Next]_vars
  PROVE  Weighed'
  <1> USE DEF IInv
  <1>1. SameKind
    BY WorldTyped
  <1>2. click \in [Clicks -> Handler]
    BY DEF TypeOK
  <1>3. \A c \in Clicks : WeighedAs(click[c])
    BY Zenon DEF Weighed, WeighedAs, At, Allows
  <1>4. ASSUME NEW h, WeighedAs(h), Named(h)
        PROVE  WeighedAs(h)'
    <2>1. SUFFICES ASSUME h.op = "add"
                   PROVE  WeighedAs(h)'
      BY DEF WeighedAs
    <2>2. h.via \in Groups
      BY <1>4, <2>1 DEF Named
    <2>3. group'[h.via].positive = group[h.via].positive /\ event'.signups = event.signups
      BY <1>1, <2>2 DEF SameKind
    <2> QED BY <1>4, <2>3 DEF WeighedAs
  <1>5. \A c \in Clicks : \E h : click'[c] = h /\ WeighedAs(h) /\ Named(h)
    <2>1. CASE click' = click
      BY <1>3, <2>1 DEF AllNamed
    <2>2. CASE \E c \in Clicks : \E h : Steps(c, h) /\ WeighedAs(h)
      BY <1>2, <1>3, <2>2 DEF Steps, AllNamed
    <2>3. CASE click' = [c \in Clicks |-> Idle]
      <3>1. WeighedAs(Idle) /\ Named(Idle)
        BY IdleHandler DEF WeighedAs, Idle
      <3> QED BY <2>3, <3>1
    <2> QED BY <2>1, <2>2, <2>3, ClickStep
  <1>6. SUFFICES ASSUME NEW c \in Clicks, click'[c].op = "add", click'[c].pc = "write"
                 PROVE  Allows(c, click[c].saw)'
    BY DEF Weighed, At
  <1>7. PICK h : click'[c] = h /\ WeighedAs(h) /\ Named(h)
    BY <1>5
  <1>8. WeighedAs(h)'
    BY <1>4, <1>7
  <1>9. /\ event'.signups => click'[c].saw # "not_attending"
        /\ group'[click'[c].via].positive => event'.signups /\ click'[c].saw = "attending"
    BY <1>6, <1>7, <1>8 DEF WeighedAs
  <1> QED BY <1>9 DEF Allows

-----------------------------------------------------------------------------
(* The invariant, and the properties that follow from it.                  *)

LEMMA InvInit == Init => IInv /\ UnseenIsAwaited
  <1> SUFFICES ASSUME Init PROVE IInv /\ UnseenIsAwaited
    OBVIOUS
  <1>1. /\ now \in 0 .. MaxTime /\ event \in Event
        /\ clicked \in Nat /\ commands \in Nat /\ faults \in Nat /\ made \in Nat
    BY BoundsAssumption DEF Init, Event, Times, Status
  <1>2. group \in [Groups -> Group]
    <2>1. group \in [Groups -> [positive : BOOLEAN, closed : {FALSE}, until : {1}]]
      BY DEF Init
    <2>2. 1 \in Times /\ FALSE \in BOOLEAN
      BY BoundsAssumption DEF Times
    <2>3. [positive : BOOLEAN, closed : {FALSE}, until : {1}] \subseteq Group
      BY <2>2, Zenon DEF Group
    <2> QED BY <2>1, <2>3
  <1>3. answer \in [Members -> Answers] /\ request \in [Pairs -> Request]
    BY DEF Init, Answers, Request
  <1>4. unseen = {} /\ dropped = {} /\ timer \in BOOLEAN /\ reading \in [Kinds -> Nat]
    BY DEF Init, NoReads
  <1>5. click \in [Clicks -> Handler] /\ AllNamed
    BY IdleHandler DEF Init, AllNamed
  <1>6. Weighed
    BY DEF Init, Weighed, At, Idle
  <1> QED BY <1>1, <1>2, <1>3, <1>4, <1>5, <1>6, Zenon DEF IInv, TypeOK, UnseenIsAwaited

LEMMA InvNext == IInv /\ [Next]_vars => IInv'
  <1> SUFFICES ASSUME IInv, [Next]_vars PROVE IInv'
    OBVIOUS
  <1>1. TypeOK'
    BY ClickTyped, WorldTyped, RowsTyped, RefreshTyped, Zenon DEF IInv, TypeOK
  <1> QED BY <1>1, ClickTyped, WeighedKept, Zenon DEF IInv

LEMMA Invariance == Spec => []IInv
  BY InvInit, InvNext, PTL DEF Spec

\* The shape of the rows, the refreshes and the handlers.
THEOREM TypeCorrect == Spec => []TypeOK
  <1>1. IInv => TypeOK
    BY DEF IInv
  <1> QED BY <1>1, Invariance, PTL

\* No answer in flight when attendance closes is stored, and nothing a member has
\* in flight changes the requests of an event that is over.
THEOREM LateClicks == Spec => LateClicksChangeNothing
  <1>1. [Next]_vars => [/\ answer' # answer => event.status = "open"
                        /\ request' # request => ~Ended]_vars
    <2>1. ASSUME [Next]_vars, answer' # answer
          PROVE  event.status = "open"
      <3>1. PICK c \in Clicks : AnswerWrite(c) \/ AddWrite(c) \/ WithdrawWrite(c)
        BY <2>1, Writers
      <3> QED BY <2>1, <3>1 DEF AnswerWrite, AddWrite, WithdrawWrite, TakesAnswer
    <2>2. ASSUME [Next]_vars, Ended, request' # request
          PROVE  FALSE
      <3>1. PICK c \in Clicks : AnswerWrite(c) \/ AddWrite(c) \/ WithdrawWrite(c)
        BY <2>2, Writers
      <3>2. ~TakesAnswer(c) /\ ~TakesRequest(c) /\ ~Withdraws(c)
        BY <2>2 DEF Ended, Final, TakesAnswer, TakesRequest, Withdraws
      <3> QED BY <2>2, <3>1, <3>2 DEF AnswerWrite, AddWrite, WithdrawWrite
    <2> QED BY <2>1, <2>2
  <1> QED BY <1>1, PTL DEF Spec, LateClicksChangeNothing

\* What the statement accepts comes through a group that is not closed, though
\* the statement may have waited while it was being closed, and agrees with what
\* the message lists, but for an answer given while the statement ran.
THEOREM AcceptedAvailable == Spec => AcceptedIsAvailable
  <1>1. IInv /\ [Next]_vars =>
          [\A p \in Pairs : Added(p) =>
             /\ ~group[request'[p].from].closed
             /\ \/ Available(p[1], request'[p].from)
                \/ \E c \in Clicks : Pair(c) = p /\ click[c].saw # answer[p[1]]]_vars
    <2> SUFFICES ASSUME IInv, [Next]_vars, NEW p \in Pairs, Added(p)
                 PROVE  /\ ~group[request'[p].from].closed
                        /\ \/ Available(p[1], request'[p].from)
                           \/ \E c \in Clicks : Pair(c) = p /\ click[c].saw # answer[p[1]]
      OBVIOUS
    <2>1. request \in [Pairs -> Request] /\ answer \in [Members -> Answers]
      BY DEF IInv, TypeOK
    <2>2. PICK c \in Clicks : AddWrite(c) \/ WithdrawWrite(c) \/ AnswerWrite(c)
      BY Writers DEF Added
    <2>3. AddWrite(c)
      BY <2>1, <2>2 DEF Added, WithdrawWrite, AnswerWrite
    <2>4. TakesRequest(c) /\ request' = [request EXCEPT ![Pair(c)] = Stored(c)]
      BY <2>3 DEF AddWrite, Added
    <2>5. Pair(c) = p /\ request'[p] = Stored(c) /\ request'[p].from = click[c].via
      BY <2>1, <2>4 DEF Added, Stored
    <2>6. ~group[request'[p].from].closed
      BY <2>4, <2>5 DEF TakesRequest
    <2>7. Allows(c, click[c].saw)
      BY <2>3 DEF IInv, Weighed, AddWrite
    <2>8. ASSUME click[c].saw = answer[p[1]]
          PROVE  Available(p[1], request'[p].from)
      <3>1. answer[p[1]] \in Answers
        BY <2>1 DEF Pairs
      <3> QED BY <2>5, <2>7, <2>8, <3>1 DEF Allows, Available, Answers
    <2> QED BY <2>5, <2>6, <2>8
  <1> QED BY <1>1, Invariance, PTL DEF Spec, AcceptedIsAvailable

\* A stored request is only ever withdrawn.
THEOREM FirstRequestKept == Spec => KeepsFirstRequest
  <1>1. IInv /\ [Next]_vars =>
          [\A p \in Pairs : request[p] # NoRequest => request'[p] \in {request[p], NoRequest}]_vars
    <2> SUFFICES ASSUME IInv, [Next]_vars, NEW p \in Pairs, request[p] # NoRequest
                 PROVE  request'[p] \in {request[p], NoRequest}
      OBVIOUS
    <2>1. request \in [Pairs -> Request]
      BY DEF IInv, TypeOK
    <2>2. ASSUME NEW c \in Clicks, AddWrite(c)
          PROVE  request'[p] = request[p]
      <3>1. CASE Conflicts(c)
        BY <2>2, <3>1 DEF AddWrite
      <3>2. CASE ~Conflicts(c)
        BY <2>1, <2>2, <3>2 DEF AddWrite, Conflicts
      <3> QED BY <3>1, <3>2
    <2>3. ASSUME NEW c \in Clicks, WithdrawWrite(c)
          PROVE  request'[p] \in {request[p], NoRequest}
      BY <2>1, <2>3 DEF WithdrawWrite
    <2>4. ASSUME NEW c \in Clicks, AnswerWrite(c)
          PROVE  request'[p] = request[p]
      BY <2>4 DEF AnswerWrite
    <2> QED BY <2>2, <2>3, <2>4, Writers
  <1> QED BY <1>1, Invariance, PTL DEF Spec, KeepsFirstRequest

-----------------------------------------------------------------------------
(* Refreshes.                                                              *)

\* Who is about to read kind k: a handler at one of these places.
Waits(h, k) == \/ h.pc = "reply" /\ k # "requests"
               \/ h.pc = k
               \/ h.pc = "requests" /\ k = "answers"

\* A step of a handler that is about to read nothing loses nothing.
LEMMA OtherClicksWait ==
  ASSUME IInv, NEW k \in Kinds, NEW c \in Clicks, NEW h, Steps(c, h),
         Waits(click[c], k) => Waits(h, k),
         Awaited(k), reading' = reading, timer' = timer
  PROVE  Awaited(k)'
  <1>1. click \in [Clicks -> Handler] /\ click' = [click EXCEPT ![c] = h]
    BY DEF IInv, TypeOK, Steps
  <1>2. CASE timer \/ reading[k] > 0 \/ (k = "answers" /\ reading["requests"] > 0)
    BY <1>2 DEF Awaited
  <1>3. CASE \E d \in Clicks : Waits(click[d], k)
    <2>1. PICK d \in Clicks : Waits(click[d], k)
      BY <1>3
    <2>2. \E d2 \in Clicks : Waits(click'[d2], k)
      <3>1. CASE d = c
        <4>1. Waits(h, k) /\ click'[c] = h
          BY <1>1, <2>1, <3>1
        <4> QED BY <4>1
      <3>2. CASE d # c
        BY <1>1, <2>1, <3>2
      <3> QED BY <3>1, <3>2
    <2> QED BY <2>2 DEF Awaited, Waits
  <1> QED BY <1>2, <1>3 DEF Awaited, Waits

\* A handler at such a place makes its kind awaited.
LEMMA WaitsAwaits ==
  ASSUME IInv, NEW k \in Kinds, NEW c \in Clicks, NEW h, Steps(c, h), Waits(h, k)
  PROVE  Awaited(k)'
  <1>1. click'[c] = h
    BY DEF IInv, TypeOK, Steps
  <1> QED BY <1>1 DEF Awaited, Waits

\* A click is pressed, or goes on without having anything read for it.
LEMMA ReadingWaits ==
  ASSUME IInv, NEW c \in Clicks, Press(c) \/ (Reading(c) /\ ~AnswerReply(c))
  PROVE  (\E h : Steps(c, h)) /\ \A k \in Kinds : ~Waits(click[c], k)
  <1>1. CASE Press(c)
    <2>1. click[c].pc = "idle"
      BY <1>1 DEF Press
    <2> QED BY <1>1, <2>1, PressSteps DEF IInv, Waits, Kinds
  <1>2. CASE Reading(c) /\ ~AnswerReply(c)
    <2>1. click[c].pc \in {"read", "close", "signup", "snapshot"}
      BY <1>2 DEF Reading, At, AnswerRead, AnswerClose, AnswerSnapshot, AddRead, AddSignup,
                  AddSnapshot, WithdrawRead, WithdrawSnapshot
    <2>2. Handles(c)
      BY <1>2 DEF Reading, Handles
    <2> QED BY <2>1, <2>2, HandlesSteps DEF Waits, Kinds
  <1> QED BY <1>1, <1>2

LEMMA UnseenKept ==
  ASSUME IInv, UnseenIsAwaited, [Next]_vars
  PROVE  UnseenIsAwaited'
  <1> SUFFICES ASSUME NEW k \in Kinds, k \in unseen' \ dropped'
               PROVE  Awaited(k)'
    <2>1. unseen' \subseteq Kinds
      BY RefreshTyped DEF IInv
    <2> QED BY <2>1 DEF UnseenIsAwaited
  <1>0. /\ click \in [Clicks -> Handler] /\ reading \in [Kinds -> Nat]
        /\ unseen \subseteq Kinds /\ TypeOK /\ AllNamed
    BY DEF IInv, TypeOK
  <1> DEFINE Still == UNCHANGED <<unseen, dropped, timer, reading>>
  <1>1. Still => Awaited(k)
    BY DEF UnseenIsAwaited
  <1>2. CASE Still /\ click' = click
    BY <1>1, <1>2 DEF Awaited
  <1>3. CASE \/ Tick \/ Open \/ Close \/ MoveGroups \/ (\E s \in Final : End(s))
             \/ (\E s \in Status : Move(s)) \/ (\E g \in Groups : CloseGroup(g))
             \/ UNCHANGED vars
    <2>1. Still /\ click' = click
      BY <1>3, Zenon DEF Tick, Open, Close, MoveGroups, End, Move, CloseGroup, Others, vars
    <2> QED BY <2>1, <1>2
  <1>4. ASSUME NEW c \in Clicks, Press(c) \/ (Reading(c) /\ ~AnswerReply(c))
        PROVE  Awaited(k)'
    <2>1. Still
      BY <1>4, Zenon DEF Press, Reading, AnswerRead, AnswerClose, AnswerSnapshot, AddRead,
                         AddSignup, AddSnapshot, WithdrawRead, WithdrawSnapshot, Kept, Quiet
    <2>2. PICK h : Steps(c, h)
      BY <1>4, ReadingWaits
    <2>3. ~Waits(click[c], k)
      BY <1>4, ReadingWaits
    <2> QED BY <1>1, <2>1, <2>2, <2>3, OtherClicksWait
  <1>5. ASSUME NEW c \in Clicks, AnswerReply(c)
        PROVE  Awaited(k)'
    <2>1. timer'
      BY <1>5 DEF AnswerReply, Coalesces
    <2> QED BY <2>1 DEF Awaited
  <1>6. ASSUME NEW c \in Clicks, AnswerWrite(c) \/ AddWrite(c) \/ WithdrawWrite(c)
        PROVE  Awaited(k)'
    <2>1. PICK h : Steps(c, h)
      BY <1>6, HandlesSteps DEF Handles
    <2>2. click'[c] = h
      BY <1>0, <2>1 DEF Steps
    <2>3. timer' = timer /\ reading' = reading /\ dropped' = dropped
      BY <1>6, Zenon DEF AnswerWrite, AddWrite, WithdrawWrite, Quiet
    <2>4. CASE k \in unseen
      <3>1. Awaited(k)
        BY <2>3, <2>4 DEF UnseenIsAwaited
      <3>2. ~Waits(click[c], k)
        BY <1>6 DEF AnswerWrite, AddWrite, WithdrawWrite, At, Waits, Kinds
      <3> QED BY <2>1, <2>3, <3>1, <3>2, OtherClicksWait
    <2>5. CASE k \notin unseen
      <3>1. CASE AnswerWrite(c)
        <4>1. k \in {"counts", "answers"} /\ Goto(c, "reply")
          BY <2>5, <3>1 DEF AnswerWrite
        <4>2. click'[c].pc = "reply"
          BY <1>0, <4>1 DEF Goto, Handler
        <4> QED BY <2>1, <2>2, <4>1, <4>2, WaitsAwaits DEF Waits
      <3>2. CASE AddWrite(c) \/ WithdrawWrite(c)
        <4>1. k = "requests" /\ Goto(c, "requests")
          BY <2>5, <3>2 DEF AddWrite, WithdrawWrite
        <4>2. click'[c].pc = "requests"
          BY <1>0, <4>1 DEF Goto, Handler
        <4> QED BY <2>1, <2>2, <4>1, <4>2, WaitsAwaits DEF Waits
      <3> QED BY <1>6, <3>1, <3>2
    <2> QED BY <2>4, <2>5
  <1>7. ASSUME NEW c \in Clicks, HandlerReads(c)
        PROVE  Awaited(k)'
    <2>1. /\ click[c].pc \in {"requests", "answers"} /\ timer' = timer /\ reading' = reading
          /\ unseen' = unseen \ {click[c].pc} /\ dropped' = dropped \ {click[c].pc}
      BY <1>7, Zenon DEF HandlerReads, Read, Quiet
    <2>2. k \in unseen \ dropped /\ k # click[c].pc
      BY <2>1
    <2>3. Awaited(k)
      BY <2>2 DEF UnseenIsAwaited
    <2>4. PICK h : Steps(c, h)
      BY <1>7, HandlesSteps DEF Handles
    <2>5. CASE click[c].pc = "requests"
      <3>1. Goto(c, "answers")
        BY <1>7, <2>5 DEF HandlerReads
      <3>2. click'[c].pc = "answers" /\ click'[c] = h
        BY <1>0, <2>4, <3>1 DEF Goto, Handler, Steps
      <3>3. Waits(click[c], k) => Waits(h, k)
        BY <2>2, <2>5, <3>2 DEF Waits
      <3> QED BY <2>1, <2>3, <2>4, <3>3, OtherClicksWait
    <2>6. CASE click[c].pc = "answers"
      <3>1. ~Waits(click[c], k)
        BY <2>2, <2>6 DEF Waits
      <3> QED BY <2>1, <2>3, <2>4, <3>1, OtherClicksWait
    <2> QED BY <2>1, <2>5, <2>6
  <1>8. CASE Fire
    <2>1. reading'["counts"] > 0 /\ reading'["requests"] > 0
      BY <1>0, <1>8 DEF Fire, Kinds
    <2> QED BY <2>1 DEF Awaited, Kinds
  <1>9. ASSUME NEW r \in Kinds, TimerReads(r)
        PROVE  Awaited(k)'
    <2>1. /\ unseen' = unseen \ {r} /\ dropped' = dropped \ {r}
          /\ timer' = timer /\ click' = click
      BY <1>9, Zenon DEF TimerReads, Read
    <2>2. k \in unseen \ dropped /\ k # r
      BY <2>1
    <2>3. Awaited(k)
      BY <2>2 DEF UnseenIsAwaited
    <2>4. reading[k] > 0 => reading'[k] > 0
      BY <1>0, <1>9, <2>2 DEF TimerReads, Kinds
    <2>5. k = "answers" /\ reading["requests"] > 0 =>
            reading'["requests"] > 0 \/ reading'["answers"] > 0
      BY <1>0, <1>9 DEF TimerReads, Kinds
    <2> QED BY <2>1, <2>3, <2>4, <2>5 DEF Awaited
  <1>10. CASE Fault
    <2>1. dropped' = unseen'
      BY <1>10 DEF Fault
    <2> QED BY <2>1
  <1> QED BY <1>3, <1>4, <1>5, <1>6, <1>7, <1>8, <1>9, <1>10 DEF Next, Handles, Reading

\* What was written and is unread will be read, but for what a fault dropped:
\* coalescing clicks into one timer loses none of them.
THEOREM NothingForgotten == Spec => []UnseenIsAwaited
  <1>1. IInv /\ UnseenIsAwaited /\ [Next]_vars => (IInv /\ UnseenIsAwaited)'
    BY InvNext, UnseenKept
  <1> QED BY <1>1, InvInit, PTL DEF Spec
=============================================================================
