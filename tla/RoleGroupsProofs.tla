-------------------------- MODULE RoleGroupsProofs --------------------------
(***************************************************************************)
(* Role-request groups for any groups, workers, handlers, commands, faults *)
(* and times: one message for each group, and, where the code guarantees   *)
(* it, an opening and a closing that are still going to happen.            *)
(***************************************************************************)
EXTENDS RoleGroups, FiniteSetTheorems, TLAPS

-----------------------------------------------------------------------------
(* What processes and groups are, beyond their types.                      *)

StepsOf(op) ==
  CASE op = "none" -> {"idle"}
    [] op = "open" -> {"load", "check", "recheck", "send", "link", "explain",
                       "requeue", "failed", "done"}
    [] op = "close" -> {"load", "write", "mark", "refresh", "edit", "swap", "done"}
    [] op = "post" -> {"insert", "send", "link", "schedule"}
    [] op = "move" -> {"groups"}
    [] op \in {"cancel", "complete"} -> {"retire", "refresh", "edit", "swap"}
    [] op = "refresh" -> {"refresh", "edit", "swap"}
    [] OTHER -> {}

Single(p) == \E g \in Groups : proc[p].on = {g}

\* Workers run rows, handlers commands; whoever works on a group knows which.
WellFormed(p) ==
  /\ proc[p].pc = "idle" => proc[p] = Idle
  /\ proc[p].pc \in StepsOf(proc[p].op)
  /\ p \in Workers => proc[p].op \in {"none", "open", "close"} /\ proc[p].pc # "mark"
  /\ p \in Handlers => proc[p].op # "open" /\ proc[p].pc \notin {"load", "done", "failed"}
  /\ proc[p].op \in {"open", "close", "post"} \/ proc[p].pc \in {"edit", "swap"} => Single(p)
  /\ proc[p].op = "close" => proc[p].todo \subseteq proc[p].on

\* A row that opens a group belongs to a planned group, and the message of a
\* group that is not there is not linked.
GroupSound(g) ==
  /\ group[g].link = 0 => ~group[g].gone
  /\ group[g].state # "kept" => group[g].link = 0 /\ ~group[g].planned
  /\ row[g]["open"].status \in Live => group[g].planned

\* What a process relies on while it works on a group: only the group's poster
\* links a posted group, and a refresher never knows a link that is to come.
\* If it has sent a replacement and the link still is the one it knows, that
\* message is gone.
Knows(p) ==
  \A g \in proc[p].on :
    /\ proc[p].op = "open" => group[g].planned
    /\ proc[p].op = "post" =>
         /\ ~group[g].planned
         /\ group[g].state = IF proc[p].pc = "insert" THEN "absent" ELSE "kept"
         /\ proc[p].pc # "schedule" <=> group[g].link = 0
    /\ proc[p].pc \in {"edit", "swap"} =>
         /\ group[g].state # "absent" /\ proc[p].msg # 0
         /\ group[g].state = "kept" => proc[p].msg <= group[g].link
         /\ proc[p].pc = "swap" /\ proc[p].msg = group[g].link => group[g].gone

\* A group is posted by one command.
PostersAlone ==
  \A p, q \in Procs :
    p # q /\ proc[p].op = "post" /\ proc[q].op = "post" => proc[p].on \cap proc[q].on = {}

Sound ==
  /\ TypeOK
  /\ \A p \in Procs : WellFormed(p) /\ Knows(p)
  /\ \A g \in Groups : GroupSound(g)
  /\ PostersAlone

-----------------------------------------------------------------------------
(* What a step of a process does to the groups.                            *)

Visible(r) == IF r.link # 0 /\ ~r.gone THEN 1 ELSE 0
Balance(r) == r.messages - Visible(r) - r.strays

Holds(p, g) == Unlinked(p) /\ proc[p].on = {g}
Holders(g) == {p \in Procs : Holds(p, g)}
Weight(b) == IF b THEN 1 ELSE 0

\* The message is left alone, deleted by hand, replaced, or linked by the
\* scheduler or the poster; or the poster inserts or deletes the group.
GroupMoves(p) ==
  \A g \in Groups :
    /\ group'[g].planned = group[g].planned
    /\ \/ /\ group'[g].state = group[g].state /\ group'[g].link = group[g].link
          /\ group'[g].gone = group[g].gone \/ (group'[g].gone /\ group[g].link # 0)
       \/ /\ proc[p].on = {g} /\ proc[p].pc = "swap" /\ proc[p].msg = group[g].link
          /\ group'[g].state = group[g].state /\ group'[g].link = group[g].link + 1
          /\ ~group'[g].gone
       \/ /\ proc[p].on = {g} /\ proc[p].op = "open" /\ group[g].link = 0
          /\ group'[g].state = group[g].state /\ group'[g].link = 1
          /\ group'[g].gone = group[g].gone
       \/ /\ proc[p].on = {g} /\ proc[p].op = "post" /\ proc[p].pc = "link"
          /\ group'[g].state = group[g].state /\ group'[g].link = 1
          /\ group'[g].gone = group[g].gone
       \/ /\ proc[p].on = {g} /\ proc[p].op = "post" /\ proc[p].pc = "insert"
          /\ group'[g].state = "kept" /\ group'[g].link = group[g].link
          /\ group'[g].gone = group[g].gone
       \/ /\ proc[p].on = {g} /\ proc[p].op = "post" /\ proc[p].pc # "insert"
          /\ group'[g].state = "deleted" /\ group'[g].link = 0 /\ ~group'[g].gone

\* No message appears or goes but in the hands of the process.
Balanced(p) ==
  \A g \in Groups :
    Balance(group'[g]) = Balance(group[g]) + Weight(Holds(p, g)') - Weight(Holds(p, g))

\* A row that comes alive opens a planned group.
RowMoves ==
  \A g \in Groups :
    row'[g]["open"].status \in Live => row[g]["open"].status \in Live \/ group[g].planned

\* A step of one process, which still is well formed and knows its group.
Turn(p) ==
  /\ \A q \in Procs \ {p} : proc'[q] = proc[q]
  /\ WellFormed(p)' /\ Knows(p)'
  /\ proc'[p].op = "post" /\ proc[p].op # "post" =>
       \A q \in Procs : proc'[p].on \cap proc[q].on = {}
  /\ proc'[p].op = "post" /\ proc[p].op = "post" => proc'[p].on = proc[p].on
  /\ GroupMoves(p) /\ Balanced(p) /\ RowMoves

LEMMA OnIs == ASSUME NEW p, NEW g, proc[p].on = {g} PROVE On(p) = g
BY DEF On

\* What one process does to the groups keeps what another knows of them.
LEMMA OthersKnow ==
  ASSUME Sound, TypeOK', NEW p \in Procs, NEW q \in Procs, p # q, proc'[q] = proc[q],
         GroupMoves(p)
  PROVE  WellFormed(q)' /\ Knows(q)'
<1>1. WellFormed(q)'
  BY DEF Sound, WellFormed, Single
<1>2. ASSUME NEW g \in proc[q].on
      PROVE  /\ proc[q].op = "open" => group'[g].planned
             /\ proc[q].op = "post" =>
                  /\ ~group'[g].planned
                  /\ group'[g].state = IF proc[q].pc = "insert" THEN "absent" ELSE "kept"
                  /\ proc[q].pc # "schedule" <=> group'[g].link = 0
             /\ proc[q].pc \in {"edit", "swap"} =>
                  /\ group'[g].state # "absent" /\ proc[q].msg # 0
                  /\ group'[g].state = "kept" => proc[q].msg <= group'[g].link
                  /\ proc[q].pc = "swap" /\ proc[q].msg = group'[g].link => group'[g].gone
  <2>1. g \in Groups /\ group[g] \in Group /\ group'[g] \in Group /\ proc[q].msg \in Nat
    BY DEF Sound, TypeOK, Process
  <2>2. /\ group[g].link \in Nat /\ group'[g].link \in Nat
        /\ GroupSound(g) /\ Knows(p)
        /\ proc[p].op = "post" /\ proc[p].on = {g} => proc[q].op # "post"
    BY <2>1 DEF Sound, Group, PostersAlone
  <2>3. /\ proc[q].op = "open" => group[g].planned
        /\ proc[q].op = "post" =>
             /\ ~group[g].planned
             /\ group[g].state = IF proc[q].pc = "insert" THEN "absent" ELSE "kept"
             /\ proc[q].pc # "schedule" <=> group[g].link = 0
        /\ proc[q].pc \in {"edit", "swap"} =>
             /\ group[g].state # "absent" /\ proc[q].msg # 0
             /\ group[g].state = "kept" => proc[q].msg <= group[g].link
             /\ proc[q].pc = "swap" /\ proc[q].msg = group[g].link => group[g].gone
    BY DEF Sound, Knows
  <2>4. /\ proc[p].on = {g} /\ proc[p].op = "open" => group[g].planned
        /\ proc[p].on = {g} /\ proc[p].op = "post" =>
             /\ ~group[g].planned
             /\ group[g].state = IF proc[p].pc = "insert" THEN "absent" ELSE "kept"
             /\ proc[p].pc # "schedule" <=> group[g].link = 0
        /\ proc[p].on = {g} /\ proc[p].pc = "swap" => proc[p].msg # 0
    BY <2>2 DEF Knows
  <2>5. group'[g].planned = group[g].planned
    BY <2>1 DEF GroupMoves
  <2> QED
    BY <2>1, <2>2, <2>3, <2>4, <2>5 DEF GroupMoves, GroupSound
<1> QED
  BY <1>1, <1>2 DEF Knows

LEMMA GroupsStaySound ==
  ASSUME Sound, TypeOK', NEW p \in Procs, GroupMoves(p), RowMoves, NEW g \in Groups
  PROVE  GroupSound(g)'
<1>1. group[g] \in Group /\ group'[g] \in Group /\ GroupSound(g) /\ Knows(p)
  BY DEF Sound, TypeOK
<1>2. group[g].link \in Nat
  BY <1>1 DEF Group
<1>3. /\ proc[p].on = {g} /\ proc[p].op = "open" => group[g].planned
      /\ proc[p].on = {g} /\ proc[p].op = "post" =>
           /\ ~group[g].planned
           /\ group[g].state = IF proc[p].pc = "insert" THEN "absent" ELSE "kept"
           /\ proc[p].pc # "schedule" <=> group[g].link = 0
      /\ proc[p].on = {g} /\ proc[p].pc = "swap" => proc[p].msg # 0
  BY <1>1 DEF Knows
<1>4. row'[g]["open"].status \in Live => group'[g].planned
  BY <1>1 DEF RowMoves, GroupMoves, GroupSound
<1> QED
  BY <1>1, <1>2, <1>3, <1>4 DEF GroupMoves, GroupSound

LEMMA PostersStayAlone ==
  ASSUME Sound, TypeOK', NEW p \in Procs, Turn(p) PROVE PostersAlone'
<1>1. ASSUME NEW q \in Procs, q # p, proc'[p].op = "post", proc'[q].op = "post"
      PROVE  proc'[p].on \cap proc'[q].on = {}
  BY <1>1 DEF Turn, Sound, PostersAlone
<1>2. ASSUME NEW q \in Procs, NEW r \in Procs, q # p, r # p, q # r,
             proc'[q].op = "post", proc'[r].op = "post"
      PROVE  proc'[q].on \cap proc'[r].on = {}
  BY <1>2 DEF Turn, Sound, PostersAlone
<1> QED
  BY <1>1, <1>2 DEF PostersAlone

LEMMA TurnKeeps ==
  ASSUME Sound, TypeOK', NEW p \in Procs, Turn(p) PROVE Sound'
<1>1. \A q \in Procs : WellFormed(q)' /\ Knows(q)'
  BY OthersKnow DEF Turn
<1>2. \A g \in Groups : GroupSound(g)'
  BY GroupsStaySound DEF Turn
<1> QED
  BY <1>1, <1>2, PostersStayAlone DEF Sound

-----------------------------------------------------------------------------
(* Counting the unlinked messages of a group.                              *)

LEMMA HoldersFinite ==
  ASSUME NEW g \in Groups PROVE IsFiniteSet(Holders(g)) /\ Cardinality(Holders(g)) \in Nat
BY ProcsAssumption, FS_Subset, FS_CardinalityType DEF Holders

LEMMA Counting ==
  ASSUME NEW p \in Procs, NEW g \in Groups, \A q \in Procs \ {p} : proc'[q] = proc[q]
  PROVE  Cardinality(Holders(g)') =
           Cardinality(Holders(g)) + Weight(Holds(p, g)') - Weight(Holds(p, g))
<1>1. \A q \in Procs \ {p} : Holds(q, g)' <=> Holds(q, g)
  BY DEF Holds, Unlinked
<1>2. IsFiniteSet(Holders(g)) /\ Cardinality(Holders(g)) \in Nat
  BY HoldersFinite
<1>3. CASE Holds(p, g)' <=> Holds(p, g)
  <2>1. Holders(g)' = Holders(g)
    BY <1>1, <1>3 DEF Holders
  <2> QED
    BY <1>2, <1>3, <2>1 DEF Weight
<1>4. CASE ~Holds(p, g) /\ Holds(p, g)'
  <2>1. Holders(g)' = Holders(g) \cup {p} /\ p \notin Holders(g)
    BY <1>1, <1>4 DEF Holders
  <2>2. Cardinality(Holders(g)') = Cardinality(Holders(g)) + 1
    BY <1>2, <2>1, FS_AddElement
  <2> QED
    BY <1>2, <1>4, <2>2 DEF Weight
<1>5. CASE Holds(p, g) /\ ~Holds(p, g)'
  <2>1. Holders(g)' = Holders(g) \ {p} /\ p \in Holders(g)
    BY <1>1, <1>5 DEF Holders
  <2>2. Cardinality(Holders(g)') = Cardinality(Holders(g)) - 1
    BY <1>2, <2>1, FS_RemoveElement
  <2> QED
    BY <1>2, <1>5, <2>2 DEF Weight
<1> QED
  BY <1>3, <1>4, <1>5

LEMMA BalanceIsCount ==
  ASSUME TypeOK
  PROVE  OneGroupMessage <=> \A g \in Groups : Balance(group[g]) = Cardinality(Holders(g))
<1>1. ASSUME NEW g \in Groups
      PROVE  /\ Cardinality(Holders(g)) \in Nat
             /\ group[g].messages \in Int /\ group[g].strays \in Nat /\ Visible(group[g]) \in {0, 1}
             /\ Holders(g) = {p \in Procs : Unlinked(p) /\ proc[p].on = {g}}
             /\ Visible(group[g]) = IF group[g].link # 0 /\ ~group[g].gone THEN 1 ELSE 0
  BY HoldersFinite DEF TypeOK, Group, Visible, Holders, Holds
<1>2. \A g \in Groups :
        (group[g].messages = Cardinality(Holders(g)) + Visible(group[g]) + group[g].strays)
          <=> Balance(group[g]) = Cardinality(Holders(g))
  BY <1>1 DEF Balance
<1> QED
  BY <1>1, <1>2 DEF OneGroupMessage

LEMMA TurnBalances ==
  ASSUME TypeOK, TypeOK', NEW p \in Procs, Turn(p), OneGroupMessage PROVE OneGroupMessage'
<1>1. \A g \in Groups : Balance(group[g]) = Cardinality(Holders(g))
  BY BalanceIsCount
<1>2. ASSUME NEW g \in Groups PROVE Balance(group'[g]) = Cardinality(Holders(g)')
  BY <1>1, Counting DEF Turn, Balanced
<1>3. (\A g \in Groups : Balance(group[g]) = Cardinality(Holders(g)))'
  BY <1>2
<1>4. (OneGroupMessage <=> \A g \in Groups : Balance(group[g]) = Cardinality(Holders(g)))'
  BY BalanceIsCount, PTL
<1> QED
  BY <1>3, <1>4

-----------------------------------------------------------------------------
(* The steps of refreshers.                                                *)

LEMMA IdleFits == Idle \in Process /\ Idle.pc = "idle" /\ Idle.op = "none" /\ Idle.on = {}
BY DEF Idle, Process

LEMMA ProcSteps ==
  ASSUME TypeOK, NEW p \in Procs, NEW r \in Process, r.pc = "idle" => r = Idle,
         proc' = [proc EXCEPT ![p] = r]
  PROVE  /\ proc' \in [Procs -> Process] /\ proc'[p] = r
         /\ \A q \in Procs \ {p} : proc'[q] = proc[q]
         /\ \A q \in Procs : proc'[q].pc = "idle" => proc'[q] = Idle
BY DEF TypeOK

\* The process goes on, or rests.
LEMMA GoesOn ==
  ASSUME TypeOK, NEW p \in Procs, NEW pc, Goto(p, pc),
         pc \in {"load", "check", "recheck", "send", "link", "explain", "requeue", "failed",
                 "done", "insert", "schedule", "write", "mark", "groups", "retire",
                 "refresh", "edit", "swap"}
  PROVE  /\ proc' \in [Procs -> Process]
         /\ \A q \in Procs \ {p} : proc'[q] = proc[q]
         /\ \A q \in Procs : proc'[q].pc = "idle" => proc'[q] = Idle
         /\ proc'[p] = [proc[p] EXCEPT !.pc = pc]
         /\ proc'[p].pc = pc /\ proc'[p].op = proc[p].op /\ proc'[p].on = proc[p].on
         /\ proc'[p].todo = proc[p].todo /\ proc'[p].at = proc[p].at
         /\ proc'[p].msg = proc[p].msg /\ proc'[p].attempt = proc[p].attempt
<1>1. proc[p] \in Process
  BY DEF TypeOK
<1>2. [proc[p] EXCEPT !.pc = pc] \in Process
  BY <1>1 DEF Process
<1> QED
  BY <1>1, <1>2, ProcSteps DEF Goto, Process

LEMMA Rests ==
  ASSUME TypeOK, NEW p \in Procs, Stop(p)
  PROVE  /\ proc' \in [Procs -> Process]
         /\ \A q \in Procs \ {p} : proc'[q] = proc[q]
         /\ \A q \in Procs : proc'[q].pc = "idle" => proc'[q] = Idle
         /\ proc'[p] = Idle /\ proc'[p].pc = "idle" /\ proc'[p].op = "none" /\ proc'[p].on = {}
BY IdleFits, ProcSteps DEF Stop

\* A process at rest is well formed and relies on nothing.
LEMMA RestIsSound ==
  ASSUME NEW p \in Procs, proc'[p] = Idle PROVE WellFormed(p)' /\ Knows(p)' /\ ~Unlinked(p)'
BY IdleFits DEF WellFormed, Knows, StepsOf, Idle, Unlinked

\* Steps that write no group and no row.
LEMMA QuietTurns ==
  ASSUME Sound, NEW p \in Procs, UNCHANGED <<group, row>>,
         \A q \in Procs \ {p} : proc'[q] = proc[q],
         WellFormed(p)', Knows(p)', ~Unlinked(p), ~Unlinked(p)',
         proc'[p].op = "post" =>
           IF proc[p].op = "post" THEN proc'[p].on = proc[p].on
           ELSE \A q \in Procs : proc'[p].on \cap proc[q].on = {}
  PROVE  Turn(p)
<1>1. GroupMoves(p) /\ RowMoves
  BY DEF GroupMoves, RowMoves
<1>2. Balanced(p)
  <2> SUFFICES ASSUME NEW g \in Groups
               PROVE  Balance(group'[g]) = Balance(group[g]) + Weight(Holds(p, g)')
                                             - Weight(Holds(p, g))
    BY DEF Balanced
  <2>1. Balance(group[g]) \in Int
    BY DEF Sound, TypeOK, Group, Balance, Visible
  <2>2. ~Holds(p, g) /\ ~Holds(p, g)'
    BY DEF Holds
  <2> QED
    BY <2>1, <2>2 DEF Weight
<1> QED
  BY <1>1, <1>2 DEF Turn

LEMMA RefreshNextTurns ==
  ASSUME Sound, NEW p \in Procs, RefreshNext(p) PROVE TypeOK' /\ Turn(p)
<1>1. /\ TypeOK /\ WellFormed(p) /\ proc[p] \in Process /\ proc[p].pc = "refresh"
      /\ p \in Workers => p \notin Handlers
      /\ p \notin Workers => p \in Handlers
  BY ProcsAssumption DEF Sound, TypeOK, RefreshNext, Procs
<1>2. proc[p].op \in {"close", "cancel", "complete", "refresh"} /\ ~Unlinked(p)
  BY <1>1 DEF WellFormed, StepsOf, Unlinked, Process
<1>3. UNCHANGED <<now, event, group, row, issued, faults>>
  BY DEF RefreshNext, Clock
<1>4. CASE proc[p].todo = {} /\ p \in Workers /\ Goto(p, "done")
  <2>1. /\ proc' \in [Procs -> Process] /\ \A q \in Procs \ {p} : proc'[q] = proc[q]
        /\ \A q \in Procs : proc'[q].pc = "idle" => proc'[q] = Idle
        /\ proc'[p].pc = "done" /\ proc'[p].op = proc[p].op /\ proc'[p].on = proc[p].on
        /\ proc'[p].todo = proc[p].todo
    BY <1>1, <1>4, GoesOn
  <2>2. WellFormed(p)' /\ Knows(p)' /\ ~Unlinked(p)'
    BY <1>1, <1>2, <1>4, <2>1 DEF WellFormed, Knows, StepsOf, Single, Unlinked
  <2>3. Turn(p)
    BY <1>2, <1>3, <2>1, <2>2, QuietTurns
  <2> QED
    BY <1>1, <1>3, <2>1, <2>3 DEF TypeOK
<1>5. CASE Stop(p)
  <2>1. /\ proc' \in [Procs -> Process] /\ \A q \in Procs \ {p} : proc'[q] = proc[q]
        /\ \A q \in Procs : proc'[q].pc = "idle" => proc'[q] = Idle
        /\ proc'[p] = Idle /\ proc'[p].op = "none"
    BY <1>1, <1>5, Rests
  <2>2. Turn(p)
    BY <1>2, <1>3, <2>1, RestIsSound, QuietTurns
  <2> QED
    BY <1>1, <1>3, <2>1, <2>2 DEF TypeOK
<1>6. ASSUME NEW g \in proc[p].todo,
             proc' = [proc EXCEPT ![p].todo = @ \ {g}, ![p].on = {g}, ![p].msg = group[g].link,
                                  ![p].pc = IF group[g].link = 0 THEN "refresh" ELSE "edit"]
      PROVE  TypeOK' /\ Turn(p)
  <2> DEFINE r == [proc[p] EXCEPT !.todo = @ \ {g}, !.on = {g}, !.msg = group[g].link,
                                  !.pc = IF group[g].link = 0 THEN "refresh" ELSE "edit"]
  <2>1. g \in Groups /\ group[g] \in Group /\ group[g].link \in Nat /\ GroupSound(g)
    BY <1>1 DEF Process, Sound, TypeOK, Group
  <2>2. r \in Process /\ r.pc # "idle" /\ r.op = proc[p].op /\ r.on = {g}
        /\ r.todo = proc[p].todo \ {g} /\ r.msg = group[g].link
        /\ r.pc = IF group[g].link = 0 THEN "refresh" ELSE "edit"
    BY <1>1, <2>1 DEF Process
  <2>3. proc' = [proc EXCEPT ![p] = r]
    BY <1>6
  <2> HIDE DEF r
  <2>4. /\ proc' \in [Procs -> Process] /\ \A q \in Procs \ {p} : proc'[q] = proc[q]
        /\ \A q \in Procs : proc'[q].pc = "idle" => proc'[q] = Idle
        /\ proc'[p] = r
    BY <1>1, <2>2, <2>3, ProcSteps
  <2>5. WellFormed(p)'
    <3>1. proc[p].op = "close" => proc[p].todo \ {g} \subseteq {g}
      BY <1>1, <2>1 DEF WellFormed, Single
    <3> QED
      BY <1>1, <1>2, <2>1, <2>2, <2>4, <3>1 DEF WellFormed, StepsOf, Single
  <2>6. Knows(p)' /\ ~Unlinked(p)'
    BY <1>2, <1>3, <2>1, <2>2, <2>4 DEF Knows, Unlinked, GroupSound
  <2>7. Turn(p)
    BY <1>2, <1>3, <2>2, <2>4, <2>5, <2>6, QuietTurns
  <2> QED
    BY <1>1, <1>3, <2>4, <2>7 DEF TypeOK
<1> QED
  BY <1>4, <1>5, <1>6 DEF RefreshNext

\* Steps that change one group only.
LEMMA OneGroupTurns ==
  ASSUME Sound, NEW p \in Procs, NEW g \in Groups, proc[p].on = {g}, NEW r \in Group,
         group' = [group EXCEPT ![g] = r],
         proc'[p].on = {g} \/ ~Unlinked(p)',
         Balance(r) = Balance(group[g]) + Weight(Unlinked(p)') - Weight(Unlinked(p))
  PROVE  /\ group' \in [Groups -> Group] /\ group'[g] = r
         /\ \A f \in Groups \ {g} : group'[f] = group[f]
         /\ Balanced(p)
<1>1. group' \in [Groups -> Group] /\ group'[g] = r /\ \A f \in Groups \ {g} : group'[f] = group[f]
  BY DEF Sound, TypeOK
<1>2. ASSUME NEW f \in Groups
      PROVE  Balance(group'[f]) = Balance(group[f]) + Weight(Holds(p, f)') - Weight(Holds(p, f))
  <2>1. Balance(group[f]) \in Int
    BY DEF Sound, TypeOK, Group, Balance, Visible
  <2>2. CASE f = g
    <3>1. (Holds(p, g) <=> Unlinked(p)) /\ (Holds(p, g)' <=> Unlinked(p)')
      BY DEF Holds
    <3> QED
      BY <1>1, <2>1, <2>2, <3>1 DEF Weight
  <2>3. CASE f # g
    <3>1. ~Holds(p, f) /\ ~Holds(p, f)'
      BY <2>3 DEF Holds
    <3> QED
      BY <1>1, <2>1, <2>3, <3>1 DEF Weight
  <2> QED
    BY <2>2, <2>3
<1> QED
  BY <1>1, <1>2 DEF Balanced

LEMMA RefreshEditTurns ==
  ASSUME Sound, NEW p \in Procs, RefreshEdit(p) PROVE TypeOK' /\ Turn(p)
<1>1. /\ TypeOK /\ WellFormed(p) /\ Knows(p) /\ proc[p] \in Process /\ proc[p].pc = "edit"
      /\ proc[p].op \in {"close", "cancel", "complete", "refresh"} /\ ~Unlinked(p)
  BY DEF Sound, TypeOK, RefreshEdit, WellFormed, StepsOf, Unlinked, Process
<1>2. UNCHANGED <<now, event, row, issued, faults>> /\ RowMoves
  BY DEF RefreshEdit, Clock, RowMoves
<1>3. PICK g \in Groups : proc[p].on = {g}
  BY <1>1 DEF WellFormed, Single
<1>4. On(p) = g /\ group[g] \in Group /\ GroupSound(g)
  BY <1>1, <1>3, OnIs DEF TypeOK, Sound
<1>5. CASE Goto(p, "refresh") /\ UNCHANGED group
  <2>1. /\ proc' \in [Procs -> Process] /\ \A q \in Procs \ {p} : proc'[q] = proc[q]
        /\ \A q \in Procs : proc'[q].pc = "idle" => proc'[q] = Idle
        /\ proc'[p].pc = "refresh" /\ proc'[p].op = proc[p].op /\ proc'[p].on = proc[p].on
        /\ proc'[p].todo = proc[p].todo
    BY <1>1, <1>5, GoesOn
  <2>2. WellFormed(p)' /\ Knows(p)' /\ ~Unlinked(p)'
    BY <1>1, <2>1 DEF WellFormed, Knows, StepsOf, Single, Unlinked
  <2>3. Turn(p)
    BY <1>1, <1>2, <1>5, <2>1, <2>2, QuietTurns
  <2> QED
    BY <1>1, <1>2, <1>5, <2>1, <2>3 DEF TypeOK
<1>6. CASE /\ ~(proc[p].msg = group[g].link /\ ~group[g].gone) /\ Goto(p, "swap")
           /\ group' = [group EXCEPT ![g].messages = @ + 1]
  <2>1. /\ proc' \in [Procs -> Process] /\ \A q \in Procs \ {p} : proc'[q] = proc[q]
        /\ \A q \in Procs : proc'[q].pc = "idle" => proc'[q] = Idle
        /\ proc'[p].pc = "swap" /\ proc'[p].op = proc[p].op /\ proc'[p].on = proc[p].on
        /\ proc'[p].todo = proc[p].todo /\ proc'[p].msg = proc[p].msg
    BY <1>1, <1>6, GoesOn
  <2> DEFINE r == [group[g] EXCEPT !.messages = @ + 1]
  <2>2. /\ r \in Group /\ r.state = group[g].state /\ r.link = group[g].link
        /\ r.gone = group[g].gone /\ r.planned = group[g].planned
        /\ r.messages = group[g].messages + 1 /\ r.strays = group[g].strays
    BY <1>4 DEF Group
  <2>3. Balance(r) = Balance(group[g]) + 1
    BY <1>4, <2>2 DEF Balance, Visible, Group
  <2>4. group' = [group EXCEPT ![g] = r] /\ Unlinked(p)'
    BY <1>6, <2>1 DEF Unlinked
  <2> HIDE DEF r
  <2>5. Balance(group[g]) \in Int
    BY <1>4 DEF Balance, Visible, Group
  <2>6. /\ group' \in [Groups -> Group] /\ group'[g] = r
        /\ \A f \in Groups \ {g} : group'[f] = group[f]
        /\ Balanced(p)
    <3>1. Weight(Unlinked(p)') = 1 /\ Weight(Unlinked(p)) = 0
      BY <1>1, <2>4 DEF Weight
    <3>2. Balance(r) = Balance(group[g]) + Weight(Unlinked(p)') - Weight(Unlinked(p))
      BY <2>3, <2>5, <3>1
    <3> QED
      BY <1>3, <2>1, <2>2, <2>4, <3>2, OneGroupTurns
  <2>7. WellFormed(p)'
    BY <1>1, <2>1 DEF WellFormed, StepsOf, Single
  <2>8. Knows(p)'
    BY <1>1, <1>3, <1>6, <2>1, <2>2, <2>6 DEF Knows
  <2>9. GroupMoves(p)
    BY <2>2, <2>6 DEF GroupMoves
  <2> QED
    BY <1>1, <1>2, <2>1, <2>6, <2>7, <2>8, <2>9 DEF TypeOK, Turn
<1> QED
  BY <1>4, <1>5, <1>6 DEF RefreshEdit

LEMMA RefreshSwapTurns ==
  ASSUME Sound, NEW p \in Procs, RefreshSwap(p) PROVE TypeOK' /\ Turn(p)
<1>1. /\ TypeOK /\ WellFormed(p) /\ Knows(p) /\ proc[p] \in Process /\ proc[p].pc = "swap"
      /\ proc[p].op \in {"close", "cancel", "complete", "refresh"} /\ Unlinked(p)
  BY DEF Sound, TypeOK, RefreshSwap, WellFormed, StepsOf, Unlinked, Process
<1>2. UNCHANGED <<now, event, row, issued, faults>> /\ RowMoves
  BY DEF RefreshSwap, Clock, RowMoves
<1>3. PICK g \in Groups : proc[p].on = {g}
  BY <1>1 DEF WellFormed, Single
<1>4. On(p) = g /\ group[g] \in Group /\ GroupSound(g) /\ proc[p].msg # 0
  BY <1>1, <1>3, OnIs DEF TypeOK, Sound, Knows
<1>5. Goto(p, "refresh")
  BY DEF RefreshSwap
<1>6. /\ proc' \in [Procs -> Process] /\ \A q \in Procs \ {p} : proc'[q] = proc[q]
      /\ \A q \in Procs : proc'[q].pc = "idle" => proc'[q] = Idle
      /\ proc'[p].pc = "refresh" /\ proc'[p].op = proc[p].op /\ proc'[p].on = proc[p].on
      /\ proc'[p].todo = proc[p].todo
  BY <1>1, <1>5, GoesOn
<1>7. WellFormed(p)' /\ Knows(p)' /\ ~Unlinked(p)'
  BY <1>1, <1>6 DEF WellFormed, Knows, StepsOf, Single, Unlinked
<1>8. PICK r \in Group :
        /\ group' = [group EXCEPT ![g] = r] /\ Balance(r) = Balance(group[g]) - 1
        /\ r.planned = group[g].planned /\ r.state = group[g].state
        /\ \/ r.link = group[g].link /\ r.gone = group[g].gone
           \/ proc[p].msg = group[g].link /\ r.link = group[g].link + 1 /\ ~r.gone
  <2>1. CASE SwapApplies(p)
    <3> DEFINE r == [group[g] EXCEPT !.link = @ + 1, !.gone = FALSE]
    <3>1. group' = [group EXCEPT ![g] = r]
      BY <1>4, <2>1 DEF RefreshSwap
    <3>2. proc[p].msg = group[g].link
      BY <1>4, <2>1 DEF SwapApplies
    <3>3. group[g].gone /\ group[g].link # 0
      BY <1>1, <1>3, <1>4, <3>2 DEF Knows
    <3>4. /\ r \in Group /\ r.planned = group[g].planned /\ r.state = group[g].state
          /\ r.link = group[g].link + 1 /\ ~r.gone
          /\ r.messages = group[g].messages /\ r.strays = group[g].strays
      <4>1. group[g].link + 1 \in Nat
        BY <1>4 DEF Group
      <4> QED
        BY <1>4, <4>1 DEF Group
    <3>5. Visible(r) = 1 /\ Visible(group[g]) = 0
      BY <1>4, <3>3, <3>4 DEF Visible, Group
    <3>6. Balance(r) = Balance(group[g]) - 1
      BY <1>4, <3>4, <3>5 DEF Balance, Group
    <3> HIDE DEF r
    <3> QED
      BY <3>1, <3>2, <3>4, <3>6
  <2>2. CASE ~SwapApplies(p)
    <3> DEFINE r == [group[g] EXCEPT !.messages = @ - 1]
    <3>1. group' = [group EXCEPT ![g] = r]
      BY <1>4, <2>2 DEF RefreshSwap
    <3>2. /\ r \in Group /\ r.planned = group[g].planned /\ r.state = group[g].state
          /\ r.link = group[g].link /\ r.gone = group[g].gone
          /\ r.messages = group[g].messages - 1 /\ r.strays = group[g].strays
      BY <1>4 DEF Group
    <3>3. Balance(r) = Balance(group[g]) - 1
      BY <1>4, <3>2 DEF Balance, Visible, Group
    <3> HIDE DEF r
    <3> QED
      BY <3>1, <3>2, <3>3
  <2> QED
    BY <2>1, <2>2
<1>9. Balance(group[g]) \in Int
  BY <1>4 DEF Balance, Visible, Group
<1>10. /\ group' \in [Groups -> Group] /\ group'[g] = r
       /\ \A f \in Groups \ {g} : group'[f] = group[f]
       /\ Balanced(p)
  <2>1. Weight(Unlinked(p)') = 0 /\ Weight(Unlinked(p)) = 1
    BY <1>1, <1>7 DEF Weight
  <2>2. Balance(r) = Balance(group[g]) + Weight(Unlinked(p)') - Weight(Unlinked(p))
    BY <1>8, <1>9, <2>1
  <2> QED
    BY <1>3, <1>6, <1>7, <1>8, <2>2, OneGroupTurns
<1>11. GroupMoves(p)
  BY <1>1, <1>3, <1>8, <1>10 DEF GroupMoves
<1> QED
  BY <1>1, <1>2, <1>6, <1>7, <1>10, <1>11 DEF TypeOK, Turn

-----------------------------------------------------------------------------
(* The steps of the scheduler.                                             *)

LEMMA MovesOn ==
  ASSUME Sound, NEW p \in Procs, NEW pc, Goto(p, pc), pc \in StepsOf(proc[p].op), pc # "idle",
         p \in Workers => pc # "mark",
         p \in Handlers => pc \notin {"load", "done", "failed"},
         pc \in {"edit", "swap"} => Single(p)
  PROVE  /\ proc' \in [Procs -> Process]
         /\ \A q \in Procs \ {p} : proc'[q] = proc[q]
         /\ \A q \in Procs : proc'[q].pc = "idle" => proc'[q] = Idle
         /\ proc'[p].pc = pc /\ proc'[p].op = proc[p].op /\ proc'[p].on = proc[p].on
         /\ proc'[p].todo = proc[p].todo /\ proc'[p].at = proc[p].at
         /\ proc'[p].msg = proc[p].msg /\ proc'[p].attempt = proc[p].attempt
         /\ WellFormed(p)'
<1>1. TypeOK /\ WellFormed(p)
  BY DEF Sound
<1>2. proc[p].op \in AllOps \cup Kinds \cup {"none"}
  BY <1>1 DEF TypeOK, Process
<1>3. pc \in {"load", "check", "recheck", "send", "link", "explain", "requeue", "failed",
              "done", "insert", "schedule", "write", "mark", "groups", "retire",
              "refresh", "edit", "swap"}
  BY <1>2 DEF StepsOf, AllOps, Kinds
<1>4. /\ proc' \in [Procs -> Process]
      /\ \A q \in Procs \ {p} : proc'[q] = proc[q]
      /\ \A q \in Procs : proc'[q].pc = "idle" => proc'[q] = Idle
      /\ proc'[p].pc = pc /\ proc'[p].op = proc[p].op /\ proc'[p].on = proc[p].on
      /\ proc'[p].todo = proc[p].todo /\ proc'[p].at = proc[p].at
      /\ proc'[p].msg = proc[p].msg /\ proc'[p].attempt = proc[p].attempt
  BY <1>1, <1>3, GoesOn
<1>5. WellFormed(p)'
  BY <1>1, <1>4 DEF WellFormed, Single
<1> QED
  BY <1>4, <1>5

\* One row changes, and if it comes alive its group is planned.
LEMMA OneRowTurns ==
  ASSUME TypeOK, NEW g \in Groups, NEW k \in Kinds, NEW r \in Row,
         row' = [row EXCEPT ![g][k] = r],
         k = "open" /\ r.status \in Live => row[g][k].status \in Live \/ group[g].planned
  PROVE  row' \in [Groups -> [Kinds -> Row]] /\ RowMoves
<1>1. row' \in [Groups -> [Kinds -> Row]]
  BY DEF TypeOK
<1>2. ASSUME NEW f \in Groups, row'[f]["open"].status \in Live
      PROVE  row[f]["open"].status \in Live \/ group[f].planned
  BY <1>2 DEF TypeOK, Kinds
<1> QED
  BY <1>1, <1>2 DEF RowMoves

LEMMA WorkerIsProc ==
  ASSUME NEW w \in Workers PROVE w \in Procs /\ w \notin Handlers
BY ProcsAssumption DEF Procs

LEMMA ClaimTurns ==
  ASSUME Sound, NEW w \in Workers, NEW g \in Groups, NEW k \in Kinds, Claim(w, g, k)
  PROVE  TypeOK' /\ Turn(w)
<1>1. /\ TypeOK /\ w \in Procs /\ w \notin Handlers /\ row[g][k] \in Row /\ GroupSound(g)
      /\ proc[w] = Idle
  BY WorkerIsProc DEF Sound, WellFormed, Claim, TypeOK
<1>2. UNCHANGED <<now, event, group, issued, faults>>
  BY DEF Claim, Clock
<1> DEFINE r == [Idle EXCEPT !.op = k, !.pc = "load", !.on = {g},
                             !.attempt = row[g][k].attempt + 1]
           s == [row[g][k] EXCEPT !.status = "processing", !.attempt = @ + 1]
<1>3. /\ r \in Process /\ r.op = k /\ r.pc = "load" /\ r.on = {g} /\ r.todo = {}
  <2>1. row[g][k].attempt + 1 \in Nat
    BY <1>1 DEF Row
  <2>2. Idle \in Process /\ Idle.todo = {}
    BY IdleFits DEF Idle
  <2> QED
    BY <2>1, <2>2 DEF Process
<1>4. proc' = [proc EXCEPT ![w] = r]
  BY DEF Claim
<1>5. s \in Row /\ row' = [row EXCEPT ![g][k] = s]
  <2>1. row[g][k].attempt + 1 \in Nat
    BY <1>1 DEF Row
  <2>2. s \in Row
    BY <1>1, <2>1 DEF Row, Live
  <2>3. row' = [row EXCEPT ![g][k] = s]
    BY <1>1 DEF Claim, TypeOK
  <2> QED
    BY <2>2, <2>3
<1>6. k = "open" => group[g].planned
  BY <1>1 DEF Claim, GroupSound, Live
<1> HIDE DEF r, s
<1>7. /\ proc' \in [Procs -> Process] /\ proc'[w] = r
      /\ \A q \in Procs \ {w} : proc'[q] = proc[q]
      /\ \A q \in Procs : proc'[q].pc = "idle" => proc'[q] = Idle
  BY <1>1, <1>3, <1>4, ProcSteps
<1>8. row' \in [Groups -> [Kinds -> Row]] /\ RowMoves
  BY <1>1, <1>5, <1>6, OneRowTurns
<1>9. WellFormed(w)'
  BY <1>1, <1>3, <1>7 DEF WellFormed, StepsOf, Single, Kinds
<1>10. Knows(w)' /\ ~Unlinked(w) /\ ~Unlinked(w)'
  BY <1>1, <1>2, <1>3, <1>6, <1>7 DEF Knows, Unlinked, Idle, Kinds
<1>11. GroupMoves(w)
  BY <1>2 DEF GroupMoves
<1>12. Balanced(w)
  <2> SUFFICES ASSUME NEW f \in Groups
               PROVE  Balance(group'[f]) = Balance(group[f]) + Weight(Holds(w, f)')
                                             - Weight(Holds(w, f))
    BY DEF Balanced
  <2>1. Balance(group[f]) \in Int
    BY <1>1 DEF TypeOK, Group, Balance, Visible
  <2> QED
    BY <1>2, <1>10, <2>1 DEF Holds, Weight
<1> QED
  BY <1>1, <1>2, <1>3, <1>7, <1>8, <1>9, <1>10, <1>11, <1>12 DEF TypeOK, Turn, Kinds

\* A worker that goes on to look at something, without writing.
LEMMA LooksTurns ==
  ASSUME Sound, NEW w \in Workers, NEW r \in Process, proc' = [proc EXCEPT ![w] = r],
         UNCHANGED <<now, event, group, row, issued, faults>>,
         r.op = proc[w].op, r.on = proc[w].on, r.pc \in StepsOf(r.op), ~Unlinked(w),
         r.pc \notin {"idle", "mark", "edit", "swap", "link"}, r.op # "none",
         r.op = "close" => r.todo \subseteq r.on
  PROVE  TypeOK' /\ Turn(w)
<1>1. TypeOK /\ w \in Procs /\ w \notin Handlers /\ WellFormed(w) /\ Knows(w)
  BY WorkerIsProc DEF Sound
<1>2. /\ proc' \in [Procs -> Process] /\ proc'[w] = r
      /\ \A q \in Procs \ {w} : proc'[q] = proc[q]
      /\ \A q \in Procs : proc'[q].pc = "idle" => proc'[q] = Idle
  BY <1>1, ProcSteps
<1>3. WellFormed(w)' /\ r.op # "post"
  BY <1>1, <1>2 DEF WellFormed, Single
<1>4. Knows(w)' /\ ~Unlinked(w)'
  BY <1>1, <1>2, <1>3 DEF Knows, Unlinked
<1>5. Turn(w)
  BY <1>1, <1>2, <1>3, <1>4, QuietTurns
<1> QED
  BY <1>1, <1>2, <1>5 DEF TypeOK

LEMMA OpenLoadTurns == ASSUME Sound, NEW w \in Workers, OpenLoad(w) PROVE TypeOK' /\ Turn(w)
<1>1. /\ TypeOK /\ w \in Procs /\ proc[w] \in Process /\ WellFormed(w)
      /\ proc[w].op = "open" /\ proc[w].pc = "load"
  BY WorkerIsProc DEF Sound, TypeOK, OpenLoad, At
<1>2. PICK g \in Groups : proc[w].on = {g}
  BY <1>1 DEF WellFormed, Single
<1>3. On(w) = g /\ group[g].closes \in Int
  BY <1>1, <1>2, OnIs DEF TypeOK, Group
<1> DEFINE r == [proc[w] EXCEPT !.pc = "check", !.at = group[g].closes]
<1>4. r \in Process /\ r.op = proc[w].op /\ r.on = proc[w].on /\ r.pc = "check"
  BY <1>1, <1>3 DEF Process
<1>5. proc' = [proc EXCEPT ![w] = r] /\ UNCHANGED <<now, event, group, row, issued, faults>>
  BY <1>3 DEF OpenLoad, Clock
<1> HIDE DEF r
<1> QED
  BY <1>1, <1>4, <1>5, LooksTurns DEF StepsOf, Unlinked

LEMMA OpenCheckTurns == ASSUME Sound, NEW w \in Workers, OpenCheck(w) PROVE TypeOK' /\ Turn(w)
<1>1. /\ TypeOK /\ w \in Procs /\ proc[w] \in Process /\ WellFormed(w)
      /\ proc[w].op = "open" /\ proc[w].pc \in {"check", "recheck", "explain"}
  BY WorkerIsProc DEF Sound, TypeOK, OpenCheck, Onward
<1>2. PICK g \in Groups : proc[w].on = {g}
  BY <1>1 DEF WellFormed, Single
<1>3. On(w) = g /\ group[g].opens \in Int
  BY <1>1, <1>2, OnIs DEF TypeOK, Group
<1> DEFINE o == Obstacle(On(w))
           pc == CASE o = "over" -> "done"
                   [] o \in {"early", "awaiting"} -> "requeue"
                   [] OTHER -> Onward[proc[w].pc]
           at == IF o = "early" THEN group[On(w)].opens ELSE proc[w].at
           r == [proc[w] EXCEPT !.pc = pc, !.at = at]
<1>4. pc \in {"done", "requeue", "recheck", "send", "failed"} /\ at \in Int
  BY <1>1, <1>3 DEF Onward, Process
<1>5. proc' = [proc EXCEPT ![w] = r] /\ UNCHANGED <<now, event, group, row, issued, faults>>
  BY DEF OpenCheck, Clock
<1> HIDE DEF pc, at
<1>6. r \in Process /\ r.op = proc[w].op /\ r.on = proc[w].on /\ r.pc = pc
  BY <1>1, <1>4 DEF Process
<1> HIDE DEF r
<1> QED
  BY <1>1, <1>4, <1>5, <1>6, LooksTurns DEF StepsOf, Unlinked

LEMMA CloseLoadTurns == ASSUME Sound, NEW w \in Workers, CloseLoad(w) PROVE TypeOK' /\ Turn(w)
<1>1. /\ TypeOK /\ w \in Procs /\ proc[w] \in Process /\ WellFormed(w)
      /\ proc[w].op = "close" /\ proc[w].pc = "load"
  BY WorkerIsProc DEF Sound, TypeOK, CloseLoad, At
<1> DEFINE pc == IF event.ended \/ group[On(w)].state = "deleted" THEN "done"
                 ELSE IF group[On(w)].closed THEN "refresh" ELSE "write"
           r == [proc[w] EXCEPT !.pc = pc, !.todo = proc[w].on]
<1>2. pc \in {"done", "refresh", "write"}
  OBVIOUS
<1>3. proc' = [proc EXCEPT ![w] = r] /\ UNCHANGED <<now, event, group, row, issued, faults>>
  BY DEF CloseLoad, Clock
<1> HIDE DEF pc
<1>4. r \in Process /\ r.op = proc[w].op /\ r.on = proc[w].on /\ r.pc = pc /\ r.todo = r.on
  BY <1>1, <1>2 DEF Process
<1> HIDE DEF r
<1> QED
  BY <1>1, <1>2, <1>3, <1>4, LooksTurns DEF StepsOf, Unlinked

\* One message more, one less.
LEMMA MessagesChange ==
  ASSUME NEW s \in Group, NEW d \in {-1, 1}, NEW r, r = [s EXCEPT !.messages = @ + d]
  PROVE  /\ r \in Group /\ r.planned = s.planned /\ r.state = s.state
         /\ r.link = s.link /\ r.gone = s.gone /\ r.closed = s.closed
         /\ r.opens = s.opens /\ r.closes = s.closes
         /\ Balance(r) = Balance(s) + d /\ Balance(s) \in Int
<1>1. s.messages + d \in Int
  BY DEF Group
<1>2. /\ r \in Group /\ r.planned = s.planned /\ r.state = s.state
      /\ r.link = s.link /\ r.gone = s.gone /\ r.closed = s.closed
      /\ r.opens = s.opens /\ r.closes = s.closes
      /\ r.messages = s.messages + d /\ r.strays = s.strays
  BY <1>1 DEF Group
<1>3. Balance(r) = Balance(s) + d /\ Balance(s) \in Int
  BY <1>2 DEF Balance, Visible, Group
<1> QED
  BY <1>2, <1>3

LEMMA OpenSendTurns == ASSUME Sound, NEW w \in Workers, OpenSend(w) PROVE TypeOK' /\ Turn(w)
<1>1. /\ TypeOK /\ w \in Procs /\ w \notin Handlers /\ WellFormed(w) /\ Knows(w)
      /\ proc[w].op = "open" /\ proc[w].pc = "send" /\ ~Unlinked(w)
  BY WorkerIsProc DEF Sound, OpenSend, At, Unlinked
<1>2. PICK g \in Groups : proc[w].on = {g}
  BY <1>1 DEF WellFormed, Single
<1>3. On(w) = g /\ group[g] \in Group
  BY <1>1, <1>2, OnIs DEF TypeOK
<1>4. UNCHANGED <<now, event, row, issued, faults>> /\ RowMoves /\ Goto(w, "link")
  BY DEF OpenSend, Clock, RowMoves
<1>5. /\ proc' \in [Procs -> Process] /\ \A q \in Procs \ {w} : proc'[q] = proc[q]
      /\ \A q \in Procs : proc'[q].pc = "idle" => proc'[q] = Idle
      /\ proc'[w].pc = "link" /\ proc'[w].op = proc[w].op /\ proc'[w].on = proc[w].on
      /\ WellFormed(w)'
  BY <1>1, <1>4, MovesOn DEF StepsOf
<1> DEFINE r == [group[g] EXCEPT !.messages = @ + 1]
<1>6. group' = [group EXCEPT ![g] = r]
  BY <1>3 DEF OpenSend
<1>7. /\ r \in Group /\ r.planned = group[g].planned /\ r.state = group[g].state
      /\ r.link = group[g].link /\ r.gone = group[g].gone
      /\ r.messages = group[g].messages + 1 /\ r.strays = group[g].strays
  BY <1>3 DEF Group
<1> HIDE DEF r
<1>8. Balance(r) = Balance(group[g]) + Weight(Unlinked(w)') - Weight(Unlinked(w))
  <2>1. Balance(r) = Balance(group[g]) + 1 /\ Balance(group[g]) \in Int
    BY <1>3, <1>7 DEF Balance, Visible, Group
  <2>2. Weight(Unlinked(w)') = 1 /\ Weight(Unlinked(w)) = 0
    BY <1>1, <1>5 DEF Weight, Unlinked
  <2> QED
    BY <2>1, <2>2
<1>9. /\ group' \in [Groups -> Group] /\ group'[g] = r
      /\ \A f \in Groups \ {g} : group'[f] = group[f]
      /\ Balanced(w)
  BY <1>1, <1>2, <1>5, <1>6, <1>7, <1>8, OneGroupTurns
<1>10. Knows(w)'
  BY <1>1, <1>2, <1>5, <1>7, <1>9 DEF Knows
<1>11. GroupMoves(w)
  BY <1>7, <1>9 DEF GroupMoves
<1> QED
  BY <1>1, <1>4, <1>5, <1>9, <1>10, <1>11 DEF TypeOK, Turn

LEMMA OpenLinkTurns == ASSUME Sound, NEW w \in Workers, OpenLink(w) PROVE TypeOK' /\ Turn(w)
<1>1. /\ TypeOK /\ w \in Procs /\ w \notin Handlers /\ WellFormed(w) /\ Knows(w)
      /\ proc[w].op = "open" /\ proc[w].pc = "link" /\ Unlinked(w)
  BY WorkerIsProc DEF Sound, OpenLink, At, Unlinked
<1>2. PICK g \in Groups : proc[w].on = {g}
  BY <1>1 DEF WellFormed, Single
<1>3. On(w) = g /\ group[g] \in Group /\ GroupSound(g) /\ group[g].planned
  BY <1>1, <1>2, OnIs DEF TypeOK, Sound, Knows
<1>4. UNCHANGED <<now, event, row, issued, faults>> /\ RowMoves
  BY DEF OpenLink, Clock, RowMoves
<1>5. PICK pc \in {"done", "explain"} : Goto(w, pc)
  BY DEF OpenLink
<1>6. /\ proc' \in [Procs -> Process] /\ \A q \in Procs \ {w} : proc'[q] = proc[q]
      /\ \A q \in Procs : proc'[q].pc = "idle" => proc'[q] = Idle
      /\ proc'[w].pc = pc /\ proc'[w].op = proc[w].op /\ proc'[w].on = proc[w].on
      /\ WellFormed(w)'
  BY <1>1, <1>5, MovesOn DEF StepsOf
<1>7. PICK r \in Group :
        /\ group' = [group EXCEPT ![g] = r] /\ Balance(r) = Balance(group[g]) - 1
        /\ r.planned = group[g].planned /\ r.state = group[g].state /\ r.gone = group[g].gone
        /\ r.link = group[g].link \/ (group[g].link = 0 /\ r.link = 1)
  <2>1. CASE Linkable(g)
    <3> DEFINE r == [group[g] EXCEPT !.link = 1]
    <3>1. group' = [group EXCEPT ![g] = r]
      BY <1>3, <2>1 DEF OpenLink
    <3>2. /\ r \in Group /\ r.planned = group[g].planned /\ r.state = group[g].state
          /\ r.gone = group[g].gone /\ group[g].link = 0 /\ r.link = 1
          /\ r.messages = group[g].messages /\ r.strays = group[g].strays
      BY <1>3, <2>1 DEF Group, Linkable
    <3>3. Visible(r) = 1 /\ Visible(group[g]) = 0
      BY <1>3, <3>2 DEF Visible, GroupSound
    <3>4. Balance(r) = Balance(group[g]) - 1
      BY <1>3, <3>2, <3>3 DEF Balance, Group
    <3> HIDE DEF r
    <3> QED
      BY <3>1, <3>2, <3>4
  <2>2. CASE ~Linkable(g)
    <3> DEFINE r == [group[g] EXCEPT !.messages = @ - 1]
    <3>1. group' = [group EXCEPT ![g] = r]
      BY <1>3, <2>2 DEF OpenLink
    <3>2. r = [group[g] EXCEPT !.messages = @ + -1]
      BY <1>3 DEF Group
    <3>3. /\ r \in Group /\ r.planned = group[g].planned /\ r.state = group[g].state
          /\ r.gone = group[g].gone /\ r.link = group[g].link
          /\ Balance(r) = Balance(group[g]) + -1 /\ Balance(group[g]) \in Int
      BY <1>3, <3>2, MessagesChange
    <3> HIDE DEF r
    <3> QED
      BY <3>1, <3>3
  <2> QED
    BY <2>1, <2>2
<1>8. Balance(r) = Balance(group[g]) + Weight(Unlinked(w)') - Weight(Unlinked(w))
  <2>1. Balance(group[g]) \in Int
    BY <1>3 DEF Balance, Visible, Group
  <2>2. Weight(Unlinked(w)') = 0 /\ Weight(Unlinked(w)) = 1
    BY <1>1, <1>6 DEF Weight, Unlinked
  <2> QED
    BY <1>7, <2>1, <2>2
<1>9. /\ group' \in [Groups -> Group] /\ group'[g] = r
      /\ \A f \in Groups \ {g} : group'[f] = group[f]
      /\ Balanced(w)
  BY <1>1, <1>2, <1>6, <1>7, <1>8, OneGroupTurns
<1>10. Knows(w)'
  BY <1>1, <1>2, <1>3, <1>6, <1>7, <1>9 DEF Knows
<1>11. GroupMoves(w)
  BY <1>1, <1>2, <1>7, <1>9 DEF GroupMoves
<1> QED
  BY <1>1, <1>4, <1>6, <1>9, <1>10, <1>11 DEF TypeOK, Turn

\* Steps that write a row and change no message.
LEMMA RowTurns ==
  ASSUME Sound, NEW p \in Procs, \A q \in Procs \ {p} : proc'[q] = proc[q],
         WellFormed(p)', Knows(p)', ~Unlinked(p), ~Unlinked(p)',
         proc'[p].op = "post" => proc[p].op = "post" /\ proc'[p].on = proc[p].on,
         \A g \in Groups :
           /\ group'[g].state = group[g].state /\ group'[g].planned = group[g].planned
           /\ group'[g].link = group[g].link /\ group'[g].gone = group[g].gone
           /\ group'[g].messages = group[g].messages /\ group'[g].strays = group[g].strays,
         RowMoves
  PROVE  Turn(p)
<1>1. GroupMoves(p)
  BY DEF GroupMoves
<1>2. Balanced(p)
  <2> SUFFICES ASSUME NEW g \in Groups
               PROVE  Balance(group'[g]) = Balance(group[g]) + Weight(Holds(p, g)')
                                             - Weight(Holds(p, g))
    BY DEF Balanced
  <2>1. Balance(group[g]) \in Int /\ Balance(group'[g]) = Balance(group[g])
    BY DEF Sound, TypeOK, Group, Balance, Visible
  <2>2. ~Holds(p, g) /\ ~Holds(p, g)'
    BY DEF Holds
  <2> QED
    BY <2>1, <2>2 DEF Weight
<1> QED
  BY <1>1, <1>2 DEF Turn

\* The rows a worker writes are those it owns.
LEMMA OwnRowTurns ==
  ASSUME Sound, NEW w \in Workers, proc[w].pc # "idle", NEW r \in Row,
         (Owns(w) /\ Becomes(w, r)) \/ UNCHANGED row
  PROVE  row' \in [Groups -> [Kinds -> Row]] /\ RowMoves
<1>1. TypeOK /\ WellFormed(w) /\ w \in Procs
  BY WorkerIsProc DEF Sound
<1>2. CASE UNCHANGED row
  BY <1>1, <1>2 DEF TypeOK, RowMoves
<1>3. CASE Owns(w) /\ Becomes(w, r)
  <2>1. proc[w].op \in Kinds /\ proc[w].op \in {"open", "close"}
    BY <1>1 DEF WellFormed, StepsOf, Kinds
  <2>2. PICK g \in Groups : proc[w].on = {g}
    BY <1>1, <2>1 DEF WellFormed, Single
  <2>3. On(w) = g
    BY <2>2, OnIs
  <2>4. row' = [row EXCEPT ![g][proc[w].op] = r] /\ row[g][proc[w].op].status \in Live
    BY <1>3, <2>3 DEF Becomes, Owns, Mine, Live
  <2> QED
    BY <1>1, <2>1, <2>4, OneRowTurns
<1> QED
  BY <1>2, <1>3

LEMMA OpenRequeueTurns ==
  ASSUME Sound, NEW w \in Workers, OpenRequeue(w) PROVE TypeOK' /\ Turn(w)
<1>1. /\ TypeOK /\ w \in Procs /\ w \notin Handlers /\ WellFormed(w) /\ Knows(w)
      /\ proc[w].op = "open" /\ proc[w].pc = "requeue" /\ ~Unlinked(w)
      /\ proc[w].at \in Int
  BY WorkerIsProc DEF Sound, OpenRequeue, At, Unlinked, TypeOK, Process
<1>2. UNCHANGED <<now, event, group, issued, faults>> /\ Goto(w, "done")
  BY DEF OpenRequeue, Clock
<1>3. /\ proc' \in [Procs -> Process] /\ \A q \in Procs \ {w} : proc'[q] = proc[q]
      /\ \A q \in Procs : proc'[q].pc = "idle" => proc'[q] = Idle
      /\ proc'[w].pc = "done" /\ proc'[w].op = proc[w].op /\ proc'[w].on = proc[w].on
      /\ WellFormed(w)'
  BY <1>1, <1>2, MovesOn DEF StepsOf
<1>4. Armed(proc[w].at) \in Row
  BY <1>1 DEF Armed, Row, Live
<1>5. row' \in [Groups -> [Kinds -> Row]] /\ RowMoves
  BY <1>1, <1>4, OwnRowTurns DEF OpenRequeue
<1>6. Knows(w)' /\ ~Unlinked(w)'
  BY <1>1, <1>2, <1>3 DEF Knows, Unlinked
<1>7. Turn(w)
  BY <1>1, <1>2, <1>3, <1>5, <1>6, RowTurns
<1> QED
  BY <1>1, <1>2, <1>3, <1>5, <1>7 DEF TypeOK

LEMMA SettleTurns == ASSUME Sound, NEW w \in Workers, Settle(w) PROVE TypeOK' /\ Turn(w)
<1>1. /\ TypeOK /\ w \in Procs /\ WellFormed(w) /\ proc[w].pc \in {"done", "failed"} /\ ~Unlinked(w)
      /\ proc[w].op \in {"open", "close"}
  BY WorkerIsProc DEF Sound, Settle, Unlinked, WellFormed, StepsOf
<1>2. UNCHANGED <<now, event, group, issued, faults>> /\ Stop(w)
  BY DEF Settle, Clock, Rest
<1>3. /\ proc' \in [Procs -> Process] /\ \A q \in Procs \ {w} : proc'[q] = proc[q]
      /\ \A q \in Procs : proc'[q].pc = "idle" => proc'[q] = Idle
      /\ proc'[w] = Idle /\ proc'[w].op = "none"
  BY <1>1, <1>2, Rests
<1> DEFINE r == [Mine(w) EXCEPT
                   !.status = IF proc[w].pc = "done" THEN "completed" ELSE "pending"]
<1>4. Mine(w) \in Row
  <2>1. PICK g \in Groups : proc[w].on = {g}
    BY <1>1 DEF WellFormed, Single
  <2>2. On(w) = g
    BY <2>1, OnIs
  <2> QED
    BY <1>1, <2>2 DEF Mine, TypeOK, Kinds
<1>5. r \in Row /\ ((Owns(w) /\ Becomes(w, r)) \/ UNCHANGED row)
  BY <1>4 DEF Row, Live, Settle
<1> HIDE DEF r
<1>6. row' \in [Groups -> [Kinds -> Row]] /\ RowMoves
  BY <1>1, <1>5, OwnRowTurns
<1>7. Turn(w)
  BY <1>1, <1>2, <1>3, <1>6, RestIsSound, RowTurns
<1> QED
  BY <1>1, <1>2, <1>3, <1>6, <1>7 DEF TypeOK

\* A group is closed, by the scheduler or by a command.
LEMMA ClosingTurns ==
  ASSUME Sound, NEW p \in Procs, proc[p].op = "close", proc[p].pc = "write",
         UNCHANGED <<now, event, row, issued, faults>>, NEW pc, Goto(p, pc),
         pc \in {"refresh", "done", "mark"}, p \in Workers => pc # "mark",
         p \in Handlers => pc # "done",
         UNCHANGED group \/ \E c \in BOOLEAN : group' = [group EXCEPT ![On(p)].closed = c]
  PROVE  TypeOK' /\ Turn(p)
<1>1. TypeOK /\ WellFormed(p) /\ Knows(p) /\ ~Unlinked(p)
  BY DEF Sound, Unlinked
<1>2. PICK g \in Groups : proc[p].on = {g}
  BY <1>1 DEF WellFormed, Single
<1>3. On(p) = g /\ group[g] \in Group
  BY <1>1, <1>2, OnIs DEF TypeOK
<1>4. /\ proc' \in [Procs -> Process] /\ \A q \in Procs \ {p} : proc'[q] = proc[q]
      /\ \A q \in Procs : proc'[q].pc = "idle" => proc'[q] = Idle
      /\ proc'[p].pc = pc /\ proc'[p].op = proc[p].op /\ proc'[p].on = proc[p].on
      /\ WellFormed(p)'
  BY MovesOn DEF StepsOf
<1>5. Knows(p)' /\ ~Unlinked(p)'
  BY <1>4 DEF Knows, Unlinked
<1>6. /\ group' \in [Groups -> Group]
      /\ \A f \in Groups :
           /\ group'[f].state = group[f].state /\ group'[f].planned = group[f].planned
           /\ group'[f].link = group[f].link /\ group'[f].gone = group[f].gone
           /\ group'[f].messages = group[f].messages /\ group'[f].strays = group[f].strays
  <2>1. CASE UNCHANGED group
    BY <1>1, <2>1 DEF TypeOK
  <2>2. ASSUME NEW c \in BOOLEAN, group' = [group EXCEPT ![g].closed = c]
        PROVE  /\ group' \in [Groups -> Group]
               /\ \A f \in Groups :
                    /\ group'[f].state = group[f].state
                    /\ group'[f].planned = group[f].planned
                    /\ group'[f].link = group[f].link /\ group'[f].gone = group[f].gone
                    /\ group'[f].messages = group[f].messages
                    /\ group'[f].strays = group[f].strays
    BY <1>1, <1>3, <2>2 DEF TypeOK, Group
  <2> QED
    BY <1>3, <2>1, <2>2
<1>7. Turn(p)
  BY <1>1, <1>4, <1>5, <1>6, RowTurns DEF RowMoves
<1> QED
  BY <1>1, <1>4, <1>6, <1>7 DEF TypeOK

LEMMA CloseWriteTurns ==
  ASSUME Sound, NEW w \in Workers, CloseWrite(w) PROVE TypeOK' /\ Turn(w)
<1>1. w \in Procs /\ w \notin Handlers /\ proc[w].op = "close" /\ proc[w].pc = "write"
  BY WorkerIsProc DEF CloseWrite, At
<1>2. PICK pc \in {"refresh", "done"} : Goto(w, pc)
  BY DEF CloseWrite
<1>3. UNCHANGED group \/ \E c \in BOOLEAN : group' = [group EXCEPT ![On(w)].closed = c]
  BY DEF CloseWrite
<1> QED
  BY <1>1, <1>2, <1>3, ClosingTurns DEF CloseWrite, Clock

LEMMA SchedulesTurns == ASSUME Sound, NEW w \in Workers, Schedules(w) PROVE TypeOK' /\ Turn(w)
BY WorkerIsProc, ClaimTurns, OpenLoadTurns, OpenCheckTurns, OpenSendTurns, OpenLinkTurns,
   OpenRequeueTurns, CloseLoadTurns, CloseWriteTurns, SettleTurns, RefreshNextTurns,
   RefreshEditTurns, RefreshSwapTurns
   DEF Schedules

-----------------------------------------------------------------------------
(* The steps of commands.                                                  *)

LEMMA HandlerIsProc ==
  ASSUME NEW h \in Handlers PROVE h \in Procs /\ h \notin Workers
BY ProcsAssumption DEF Procs

LEMMA EventTimes ==
  ASSUME NEW e \in Event
  PROVE  OpensAt(e) \in Int /\ ClosesAt(e) \in Int /\ PublishesAt(e) \in Int
BY DEF Event, OpensAt, ClosesAt, PublishesAt, OpenLead, Lead

LEMMA ArmedFits == ASSUME NEW d \in Int PROVE Armed(d) \in Row /\ Armed(d).status = "pending"
                                              /\ Armed(d).due = d /\ Armed(d).attempt = 0
BY DEF Armed, Row, Live

LEMMA RetiredFits ==
  ASSUME NEW r \in Row, NEW s \in {"completed", "cancelled"}
  PROVE  Retired(r, s) \in Row /\ Retired(r, s).status \notin Live
BY DEF Retired, Row, Live

LEMMA NowIsInt == TypeOK => now \in Int /\ \A t \in Int : Later(t) \in Int
BY BoundsAssumption DEF TypeOK, Times, Later

LEMMA MoveGroupsTurns == ASSUME Sound, NEW h \in Handlers, MoveGroups(h) PROVE TypeOK' /\ Turn(h)
<1>1. /\ TypeOK /\ h \in Procs /\ proc[h].op = "move" /\ proc[h].pc = "groups" /\ ~Unlinked(h)
      /\ ClosesAt(event) \in Int /\ OpensAt(event) \in Int
      /\ Later(ClosesAt(event)) \in Int /\ Later(OpensAt(event)) \in Int
  BY HandlerIsProc, EventTimes, NowIsInt DEF Sound, TypeOK, MoveGroups, At, Unlinked
<1>2. /\ UNCHANGED <<now, issued, faults>> /\ Stop(h)
      /\ event' = [event EXCEPT !.torn = FALSE]
  BY DEF MoveGroups, Clock
<1>3. /\ proc' \in [Procs -> Process] /\ \A q \in Procs \ {h} : proc'[q] = proc[q]
      /\ \A q \in Procs : proc'[q].pc = "idle" => proc'[q] = Idle
      /\ proc'[h] = Idle /\ proc'[h].op = "none"
  BY <1>1, <1>2, Rests
<1>4. event' \in Event
  BY <1>1, <1>2 DEF TypeOK, Event
<1> DEFINE opening(g) == Moves(g) /\ group[g].planned /\ group[g].link = 0
           moved(g) == [group[g] EXCEPT !.closes = IF Moves(g) THEN ClosesAt(event) ELSE @,
                                        !.opens = IF opening(g) THEN OpensAt(event) ELSE @]
           rows(g) ==
             [open |-> IF opening(g) THEN Armed(Later(OpensAt(event))) ELSE row[g]["open"],
              close |-> IF Moves(g) THEN Armed(Later(ClosesAt(event))) ELSE row[g]["close"]]
<1>5. group' = [g \in Groups |-> moved(g)] /\ row' = [g \in Groups |-> rows(g)]
  BY DEF MoveGroups
<1>6. ASSUME NEW g \in Groups
      PROVE  /\ moved(g) \in Group
             /\ moved(g).state = group[g].state /\ moved(g).planned = group[g].planned
             /\ moved(g).link = group[g].link /\ moved(g).gone = group[g].gone
             /\ moved(g).messages = group[g].messages /\ moved(g).strays = group[g].strays
  BY <1>1 DEF TypeOK, Group
<1>7. ASSUME NEW g \in Groups
      PROVE  /\ rows(g) \in [Kinds -> Row]
             /\ rows(g)["open"].status \in Live =>
                  row[g]["open"].status \in Live \/ group[g].planned
  <2>1. row[g]["open"] \in Row /\ row[g]["close"] \in Row
    BY <1>1 DEF TypeOK, Kinds
  <2>2. rows(g)["open"] \in Row /\ rows(g)["close"] \in Row
    BY <1>1, <2>1, ArmedFits
  <2> QED
    BY <2>2 DEF Kinds
<1> HIDE DEF moved, rows
<1>8. group' \in [Groups -> Group] /\ row' \in [Groups -> [Kinds -> Row]] /\ RowMoves
  BY <1>5, <1>6, <1>7 DEF RowMoves
<1>9. Turn(h)
  BY <1>1, <1>3, <1>5, <1>6, <1>8, RestIsSound, RowTurns
<1> QED
  BY <1>1, <1>2, <1>3, <1>4, <1>8, <1>9 DEF TypeOK

\* Refreshing begins with every group that has a message.
LEMMA EndRetireTurns == ASSUME Sound, NEW h \in Handlers, EndRetire(h) PROVE TypeOK' /\ Turn(h)
<1>1. /\ TypeOK /\ h \in Procs /\ h \notin Workers /\ WellFormed(h) /\ Knows(h)
      /\ proc[h] \in Process /\ proc[h].pc = "retire" /\ ~Unlinked(h)
      /\ proc[h].op \in {"cancel", "complete"}
  BY HandlerIsProc DEF Sound, TypeOK, EndRetire, Unlinked, WellFormed, StepsOf, Process
<1>2. UNCHANGED <<now, event, group, issued, faults>>
  BY DEF EndRetire, Clock
<1> DEFINE r == [proc[h] EXCEPT !.pc = "refresh", !.todo = {g \in Groups : group[g].link # 0}]
<1>3. proc' = [proc EXCEPT ![h] = r]
  BY DEF EndRetire
<1>4. r \in Process /\ r.op = proc[h].op /\ r.on = proc[h].on /\ r.pc = "refresh"
  BY <1>1 DEF Process
<1> HIDE DEF r
<1>5. /\ proc' \in [Procs -> Process] /\ \A q \in Procs \ {h} : proc'[q] = proc[q]
      /\ \A q \in Procs : proc'[q].pc = "idle" => proc'[q] = Idle
      /\ proc'[h] = r
  BY <1>1, <1>3, <1>4, ProcSteps
<1>6. row' \in [Groups -> [Kinds -> Row]] /\ RowMoves
  <2>1. CASE UNCHANGED row
    BY <1>1, <2>1 DEF TypeOK, RowMoves
  <2>2. CASE row' = [g \in Groups |-> [k \in Kinds |-> Retired(row[g][k], "cancelled")]]
    <3>1. ASSUME NEW g \in Groups, NEW k \in Kinds
          PROVE  row'[g][k] \in Row /\ row'[g][k].status \notin Live
      BY <1>1, <2>2, RetiredFits DEF TypeOK
    <3> QED
      BY <2>2, <3>1 DEF RowMoves, Kinds
  <2> QED
    BY <2>1, <2>2 DEF EndRetire
<1>7. WellFormed(h)' /\ Knows(h)' /\ ~Unlinked(h)'
  BY <1>1, <1>2, <1>4, <1>5 DEF WellFormed, Knows, StepsOf, Single, Unlinked
<1>8. Turn(h)
  BY <1>1, <1>2, <1>4, <1>5, <1>6, <1>7, RowTurns
<1> QED
  BY <1>1, <1>2, <1>5, <1>6, <1>8 DEF TypeOK

LEMMA PostInsertTurns == ASSUME Sound, NEW h \in Handlers, PostInsert(h) PROVE TypeOK' /\ Turn(h)
<1>1. /\ TypeOK /\ h \in Procs /\ h \notin Workers /\ WellFormed(h) /\ Knows(h)
      /\ proc[h] \in Process /\ proc[h].pc = "insert" /\ proc[h].op = "post" /\ ~Unlinked(h)
      /\ now \in Int
  BY HandlerIsProc, NowIsInt DEF Sound, TypeOK, PostInsert, At, Unlinked
<1>2. UNCHANGED <<now, event, row, issued, faults>> /\ Goto(h, "send") /\ RowMoves
  BY DEF PostInsert, Clock, RowMoves
<1>3. PICK g \in Groups : proc[h].on = {g}
  BY <1>1 DEF WellFormed, Single
<1>4. On(h) = g /\ group[g] \in Group /\ GroupSound(g)
  BY <1>1, <1>3, OnIs DEF TypeOK, Sound
<1>5. ~group[g].planned /\ group[g].state = "absent" /\ group[g].link = 0
  BY <1>1, <1>3 DEF Knows
<1>6. /\ proc' \in [Procs -> Process] /\ \A q \in Procs \ {h} : proc'[q] = proc[q]
      /\ \A q \in Procs : proc'[q].pc = "idle" => proc'[q] = Idle
      /\ proc'[h].pc = "send" /\ proc'[h].op = "post" /\ proc'[h].on = proc[h].on
      /\ WellFormed(h)'
  BY <1>1, <1>2, MovesOn DEF StepsOf
<1> DEFINE r == [group[g] EXCEPT !.state = "kept", !.opens = now, !.closes = proc[h].at]
<1>7. group' = [group EXCEPT ![g] = r]
  BY <1>1, <1>4 DEF PostInsert, TypeOK
<1>8. /\ r \in Group /\ r.state = "kept" /\ r.planned = group[g].planned
      /\ r.link = group[g].link /\ r.gone = group[g].gone
      /\ r.messages = group[g].messages /\ r.strays = group[g].strays
  BY <1>1, <1>4 DEF Group, Process
<1> HIDE DEF r
<1>9. Balance(r) = Balance(group[g]) + Weight(Unlinked(h)') - Weight(Unlinked(h))
  <2>1. Balance(r) = Balance(group[g]) /\ Balance(group[g]) \in Int
    BY <1>4, <1>8 DEF Balance, Visible, Group
  <2>2. Weight(Unlinked(h)') = 0 /\ Weight(Unlinked(h)) = 0
    BY <1>1, <1>6 DEF Weight, Unlinked
  <2> QED
    BY <2>1, <2>2
<1>10. /\ group' \in [Groups -> Group] /\ group'[g] = r
       /\ \A f \in Groups \ {g} : group'[f] = group[f]
       /\ Balanced(h)
  BY <1>3, <1>1, <1>6, <1>7, <1>8, <1>9, OneGroupTurns
<1>11. Knows(h)'
  BY <1>3, <1>5, <1>6, <1>8, <1>10 DEF Knows
<1>12. GroupMoves(h)
  BY <1>1, <1>3, <1>8, <1>10 DEF GroupMoves
<1> QED
  BY <1>1, <1>2, <1>6, <1>10, <1>11, <1>12 DEF TypeOK, Turn

LEMMA PostSendTurns == ASSUME Sound, NEW h \in Handlers, PostSend(h) PROVE TypeOK' /\ Turn(h)
<1>1. /\ TypeOK /\ h \in Procs /\ h \notin Workers /\ WellFormed(h) /\ Knows(h)
      /\ proc[h].op = "post" /\ proc[h].pc = "send" /\ ~Unlinked(h)
  BY HandlerIsProc DEF Sound, PostSend, At, Unlinked
<1>2. PICK g \in Groups : proc[h].on = {g}
  BY <1>1 DEF WellFormed, Single
<1>3. On(h) = g /\ group[g] \in Group
  BY <1>1, <1>2, OnIs DEF TypeOK
<1>4. UNCHANGED <<now, event, row, issued, faults>> /\ RowMoves /\ Goto(h, "link")
  BY DEF PostSend, Clock, RowMoves
<1>5. /\ proc' \in [Procs -> Process] /\ \A q \in Procs \ {h} : proc'[q] = proc[q]
      /\ \A q \in Procs : proc'[q].pc = "idle" => proc'[q] = Idle
      /\ proc'[h].pc = "link" /\ proc'[h].op = proc[h].op /\ proc'[h].on = proc[h].on
      /\ WellFormed(h)'
  BY <1>1, <1>4, MovesOn DEF StepsOf
<1> DEFINE r == [group[g] EXCEPT !.messages = @ + 1]
<1>6. group' = [group EXCEPT ![g] = r]
  BY <1>3 DEF PostSend
<1>7. /\ r \in Group /\ r.planned = group[g].planned /\ r.state = group[g].state
      /\ r.link = group[g].link /\ r.gone = group[g].gone
      /\ Balance(r) = Balance(group[g]) + 1 /\ Balance(group[g]) \in Int
  BY <1>3, MessagesChange
<1> HIDE DEF r
<1>8. Balance(r) = Balance(group[g]) + Weight(Unlinked(h)') - Weight(Unlinked(h))
  <2>1. Weight(Unlinked(h)') = 1 /\ Weight(Unlinked(h)) = 0
    BY <1>1, <1>5 DEF Weight, Unlinked
  <2> QED
    BY <1>7, <2>1
<1>9. /\ group' \in [Groups -> Group] /\ group'[g] = r
      /\ \A f \in Groups \ {g} : group'[f] = group[f]
      /\ Balanced(h)
  BY <1>1, <1>2, <1>5, <1>6, <1>7, <1>8, OneGroupTurns
<1>10. Knows(h)'
  BY <1>1, <1>2, <1>5, <1>7, <1>9 DEF Knows
<1>11. GroupMoves(h)
  BY <1>7, <1>9 DEF GroupMoves
<1> QED
  BY <1>1, <1>4, <1>5, <1>9, <1>10, <1>11 DEF TypeOK, Turn

LEMMA PostLinkTurns == ASSUME Sound, NEW h \in Handlers, PostLink(h) PROVE TypeOK' /\ Turn(h)
<1>1. /\ TypeOK /\ h \in Procs /\ h \notin Workers /\ WellFormed(h) /\ Knows(h)
      /\ proc[h].op = "post" /\ proc[h].pc = "link" /\ Unlinked(h)
  BY HandlerIsProc DEF Sound, PostLink, At, Unlinked
<1>2. PICK g \in Groups : proc[h].on = {g}
  BY <1>1 DEF WellFormed, Single
<1>3. On(h) = g /\ group[g] \in Group /\ ~group[g].gone /\ group[g].link = 0
  BY <1>1, <1>2, OnIs DEF TypeOK, Sound, Knows, GroupSound
<1>4. UNCHANGED <<now, event, row, issued, faults>> /\ RowMoves /\ Goto(h, "schedule")
  BY DEF PostLink, Clock, RowMoves
<1>5. /\ proc' \in [Procs -> Process] /\ \A q \in Procs \ {h} : proc'[q] = proc[q]
      /\ \A q \in Procs : proc'[q].pc = "idle" => proc'[q] = Idle
      /\ proc'[h].pc = "schedule" /\ proc'[h].op = proc[h].op /\ proc'[h].on = proc[h].on
      /\ WellFormed(h)'
  BY <1>1, <1>4, MovesOn DEF StepsOf
<1> DEFINE r == [group[g] EXCEPT !.link = 1]
<1>6. group' = [group EXCEPT ![g] = r]
  BY <1>3 DEF PostLink
<1>7. /\ r \in Group /\ r.planned = group[g].planned /\ r.state = group[g].state
      /\ r.link = 1 /\ r.gone = group[g].gone
      /\ r.messages = group[g].messages /\ r.strays = group[g].strays
  BY <1>3 DEF Group
<1> HIDE DEF r
<1>8. Balance(r) = Balance(group[g]) + Weight(Unlinked(h)') - Weight(Unlinked(h))
  <2>1. Visible(r) = 1 /\ Visible(group[g]) = 0
    BY <1>3, <1>7 DEF Visible
  <2>2. Weight(Unlinked(h)') = 0 /\ Weight(Unlinked(h)) = 1
    BY <1>1, <1>5 DEF Weight, Unlinked
  <2> QED
    BY <1>3, <1>7, <2>1, <2>2 DEF Balance, Group
<1>9. /\ group' \in [Groups -> Group] /\ group'[g] = r
      /\ \A f \in Groups \ {g} : group'[f] = group[f]
      /\ Balanced(h)
  BY <1>1, <1>2, <1>5, <1>6, <1>7, <1>8, OneGroupTurns
<1>10. Knows(h)'
  BY <1>1, <1>2, <1>5, <1>7, <1>9 DEF Knows
<1>11. GroupMoves(h)
  BY <1>1, <1>2, <1>7, <1>9 DEF GroupMoves
<1> QED
  BY <1>1, <1>4, <1>5, <1>9, <1>10, <1>11 DEF TypeOK, Turn

LEMMA PostScheduleTurns ==
  ASSUME Sound, NEW h \in Handlers, PostSchedule(h) PROVE TypeOK' /\ Turn(h)
<1>1. /\ TypeOK /\ h \in Procs /\ WellFormed(h) /\ proc[h].at \in Int
      /\ proc[h].op = "post" /\ proc[h].pc = "schedule" /\ ~Unlinked(h)
  BY HandlerIsProc DEF Sound, PostSchedule, At, Unlinked, TypeOK, Process
<1>2. PICK g \in Groups : proc[h].on = {g}
  BY <1>1 DEF WellFormed, Single
<1>3. On(h) = g
  BY <1>2, OnIs
<1>4. UNCHANGED <<now, event, group, issued, faults>> /\ Stop(h)
  BY DEF PostSchedule, Clock
<1>5. /\ proc' \in [Procs -> Process] /\ \A q \in Procs \ {h} : proc'[q] = proc[q]
      /\ \A q \in Procs : proc'[q].pc = "idle" => proc'[q] = Idle
      /\ proc'[h] = Idle /\ proc'[h].op = "none"
  BY <1>1, <1>4, Rests
<1>6. row' = [row EXCEPT ![g]["close"] = Armed(proc[h].at)] /\ Armed(proc[h].at) \in Row
  BY <1>1, <1>3, ArmedFits DEF PostSchedule
<1>7. row' \in [Groups -> [Kinds -> Row]] /\ RowMoves
  BY <1>1, <1>6, OneRowTurns DEF Kinds
<1>8. Turn(h)
  BY <1>1, <1>4, <1>5, <1>7, RestIsSound, RowTurns
<1> QED
  BY <1>1, <1>4, <1>5, <1>7, <1>8 DEF TypeOK

LEMMA CloseNowTurns == ASSUME Sound, NEW h \in Handlers, CloseNow(h) PROVE TypeOK' /\ Turn(h)
<1>1. h \in Procs /\ h \notin Workers /\ proc[h].op = "close" /\ proc[h].pc = "write"
  BY HandlerIsProc DEF CloseNow, At
<1>2. Goto(h, "mark") /\ UNCHANGED <<now, event, row, issued, faults>>
  BY DEF CloseNow, Clock
<1>3. \E c \in BOOLEAN : group' = [group EXCEPT ![On(h)].closed = c]
  BY DEF CloseNow
<1> QED
  BY <1>1, <1>2, <1>3, ClosingTurns

LEMMA CloseMarkTurns == ASSUME Sound, NEW h \in Handlers, CloseMark(h) PROVE TypeOK' /\ Turn(h)
<1>1. /\ TypeOK /\ h \in Procs /\ h \notin Workers /\ WellFormed(h) /\ Knows(h)
      /\ proc[h] \in Process /\ proc[h].op = "close" /\ proc[h].pc = "mark" /\ ~Unlinked(h)
  BY HandlerIsProc DEF Sound, TypeOK, CloseMark, At, Unlinked
<1>2. PICK g \in Groups : proc[h].on = {g}
  BY <1>1 DEF WellFormed, Single
<1>3. On(h) = g /\ row[g]["close"] \in Row
  <2>1. row[g] \in [Kinds -> Row] /\ "close" \in Kinds
    BY <1>1 DEF TypeOK, Kinds
  <2> QED
    BY <1>2, <2>1, OnIs
<1>4. UNCHANGED <<now, event, group, issued, faults>>
  BY DEF CloseMark, Clock
<1> DEFINE r == [proc[h] EXCEPT !.pc = "refresh", !.todo = proc[h].on]
<1>5. proc' = [proc EXCEPT ![h] = r]
  BY DEF CloseMark
<1>6. r \in Process /\ r.op = "close" /\ r.on = proc[h].on /\ r.pc = "refresh" /\ r.todo = r.on
  BY <1>1 DEF Process
<1> HIDE DEF r
<1>7. /\ proc' \in [Procs -> Process] /\ \A q \in Procs \ {h} : proc'[q] = proc[q]
      /\ \A q \in Procs : proc'[q].pc = "idle" => proc'[q] = Idle
      /\ proc'[h] = r
  BY <1>1, <1>5, <1>6, ProcSteps
<1>8. row' = [row EXCEPT ![g]["close"] = Retired(row[g]["close"], "completed")]
  BY <1>3 DEF CloseMark
<1>9. row' \in [Groups -> [Kinds -> Row]] /\ RowMoves
  BY <1>1, <1>3, <1>8, RetiredFits, OneRowTurns DEF Kinds
<1>10. WellFormed(h)' /\ Knows(h)' /\ ~Unlinked(h)'
  BY <1>1, <1>4, <1>6, <1>7 DEF WellFormed, Knows, StepsOf, Single, Unlinked
<1>11. Turn(h)
  BY <1>1, <1>4, <1>6, <1>7, <1>9, <1>10, RowTurns
<1> QED
  BY <1>1, <1>4, <1>7, <1>9, <1>11 DEF TypeOK

LEMMA HandlesTurns == ASSUME Sound, NEW h \in Handlers, Handles(h) PROVE TypeOK' /\ Turn(h)
BY HandlerIsProc, MoveGroupsTurns, EndRetireTurns, PostInsertTurns, PostSendTurns,
   PostLinkTurns, PostScheduleTurns, CloseNowTurns, CloseMarkTurns, RefreshNextTurns,
   RefreshEditTurns, RefreshSwapTurns
   DEF Handles

-----------------------------------------------------------------------------
(* Commands begin.                                                         *)

\* A command that edits or ends the event, or refreshes, knows no group yet.
LEMMA CommandTurns ==
  ASSUME Sound, NEW h \in Handlers, NEW op \in Ops, Command(h, op) PROVE TypeOK' /\ Turn(h)
<1>1. /\ TypeOK /\ h \in Procs /\ h \notin Workers /\ WellFormed(h) /\ Knows(h)
      /\ proc[h] = Idle /\ op \in AllOps /\ event \in Event /\ ~Unlinked(h)
  BY HandlerIsProc, OpsAssumption, IdleFits DEF Sound, WellFormed, Command, TypeOK, Unlinked
<1>2. /\ UNCHANGED <<now, group, row, faults>> /\ issued' = issued + 1
  BY DEF Command, Edit, End, Refresh, Post, Close
<1>3. ASSUME NEW r \in Process, proc' = [proc EXCEPT ![h] = r], event' \in Event, r.op = op,
             \/ /\ r.pc \in StepsOf(op) \ {"idle", "load", "done", "failed", "edit", "swap", "link"}
                /\ op \notin {"open", "close", "post"}
                /\ r.on = {}
             \/ /\ op = "close" /\ r.pc = "write" /\ r.todo = {}
                /\ \E g \in Groups : r.on = {g}
             \/ /\ op = "post" /\ r.pc = "insert"
                /\ \E g \in Groups :
                     /\ r.on = {g} /\ group[g].state = "absent"
                     /\ \A q \in Procs : g \notin proc[q].on
      PROVE  TypeOK' /\ Turn(h)
  <2>1. r.pc # "idle" /\ r.pc \notin {"link", "swap", "edit", "load", "done", "failed"}
    BY <1>3
  <2>2. /\ proc' \in [Procs -> Process] /\ proc'[h] = r
        /\ \A q \in Procs \ {h} : proc'[q] = proc[q]
        /\ \A q \in Procs : proc'[q].pc = "idle" => proc'[q] = Idle
    BY <1>1, <1>3, <2>1, ProcSteps
  <2>3. WellFormed(h)'
    <3>1. op # "open"
      BY <1>1 DEF AllOps
    <3> QED
      BY <1>1, <1>3, <2>1, <2>2, <3>1 DEF WellFormed, StepsOf, Single
  <2>4. ~Unlinked(h)'
    BY <2>1, <2>2 DEF Unlinked
  <2>5. Knows(h)'
    <3>1. ASSUME NEW g \in Groups, group[g].state = "absent"
          PROVE  ~group[g].planned /\ group[g].link = 0
      BY <3>1 DEF Sound, GroupSound
    <3>2. op # "open"
      BY <1>1 DEF AllOps
    <3> QED
      BY <1>2, <1>3, <2>1, <2>2, <3>1, <3>2 DEF Knows
  <2>6. proc'[h].op = "post" =>
          IF proc[h].op = "post" THEN proc'[h].on = proc[h].on
          ELSE \A q \in Procs : proc'[h].on \cap proc[q].on = {}
    BY <1>1, <1>3, <2>2, IdleFits
  <2>7. Turn(h)
    BY <1>1, <1>2, <2>2, <2>3, <2>4, <2>5, <2>6, QuietTurns
  <2> QED
    BY <1>1, <1>2, <1>3, <2>2, <2>7 DEF TypeOK
<1>4. Idle \in Process /\ Idle.on = {} /\ Idle.todo = {}
  BY IdleFits DEF Idle
<1>5. ASSUME NEW pc \in {"groups", "retire"}, op \in {"move", "cancel", "complete"},
             pc \in StepsOf(op), event' \in Event,
             proc' = [proc EXCEPT ![h].op = op, ![h].pc = pc]
      PROVE  TypeOK' /\ Turn(h)
  <2> DEFINE r == [Idle EXCEPT !.op = op, !.pc = pc]
  <2>1. proc' = [proc EXCEPT ![h] = r]
    BY <1>1, <1>5 DEF TypeOK
  <2>2. r \in Process /\ r.op = op /\ r.pc = pc /\ r.on = {}
    BY <1>1, <1>4, <1>5 DEF Process
  <2> HIDE DEF r
  <2> QED
    BY <1>3, <1>5, <2>1, <2>2
<1>6. CASE Edit(h, op)
  <2>1. CASE op = "move"
    <3>1. PICK s \in Times : event' = [event EXCEPT !.starts = s]
      BY <1>6, <2>1 DEF Edit
    <3>2. event' \in Event
      BY <1>1, <3>1, BoundsAssumption DEF Event, Times
    <3>3. proc' = [proc EXCEPT ![h].op = op, ![h].pc = "groups"]
      BY <1>6, <2>1 DEF Edit
    <3> QED
      BY <1>5, <2>1, <3>2, <3>3 DEF StepsOf
  <2>2. CASE op # "move"
    <3>1. proc' = proc /\ event' = [event EXCEPT !.held = (op = "hold")]
      BY <1>6, <2>2 DEF Edit
    <3>2. event' \in Event
      BY <1>1, <3>1 DEF Event
    <3>3. WellFormed(h)' /\ Knows(h)' /\ ~Unlinked(h)' /\ proc'[h].op = "none"
      BY <1>1, <1>2, <3>1, IdleFits, RestIsSound
    <3>4. Turn(h)
      BY <1>1, <1>2, <3>1, <3>3, QuietTurns
    <3> QED
      BY <1>1, <1>2, <3>1, <3>2, <3>4 DEF TypeOK
  <2> QED
    BY <2>1, <2>2
<1>7. CASE End(h, op)
  <2>1. op \in {"cancel", "complete"} /\ proc' = [proc EXCEPT ![h].op = op, ![h].pc = "retire"]
    BY <1>7 DEF End
  <2>2. event' \in Event
    BY <1>1, <1>7 DEF End, Event
  <2> QED
    BY <1>5, <2>1, <2>2 DEF StepsOf
<1>8. CASE Refresh(h, op)
  <2> DEFINE r == [Idle EXCEPT !.op = op, !.pc = "refresh",
                               !.todo = {g \in Groups : group[g].link # 0}]
  <2>1. proc' = [proc EXCEPT ![h] = r]
    BY <1>1, <1>8 DEF Refresh, TypeOK
  <2>2. r \in Process /\ r.op = op /\ r.pc = "refresh" /\ r.on = {}
    BY <1>1, <1>4 DEF Process
  <2>3. op = "refresh" /\ event' = event
    BY <1>8 DEF Refresh
  <2> HIDE DEF r
  <2> QED
    BY <1>1, <1>3, <2>1, <2>2, <2>3 DEF StepsOf
<1>9. CASE Post(h, op)
  <2>1. PICK g \in Groups :
          /\ group[g].state = "absent"
          /\ \A q \in Procs : g \notin proc[q].on
          /\ proc' = [proc EXCEPT ![h] = [Idle EXCEPT !.op = op, !.pc = "insert", !.on = {g},
                                                      !.at = ClosesAt(event)]]
    BY <1>9 DEF Post
  <2> DEFINE r == [Idle EXCEPT !.op = op, !.pc = "insert", !.on = {g}, !.at = ClosesAt(event)]
  <2>2. ClosesAt(event) \in Int
    BY <1>1, EventTimes
  <2>3. r \in Process /\ r.op = op /\ r.pc = "insert" /\ r.on = {g}
    BY <1>1, <1>4, <2>2 DEF Process
  <2>4. op = "post" /\ event' = event /\ proc' = [proc EXCEPT ![h] = r]
    BY <1>9, <2>1 DEF Post
  <2> HIDE DEF r
  <2> QED
    BY <1>1, <1>3, <2>1, <2>3, <2>4
<1>10. CASE Close(h, op)
  <2>1. PICK g \in Groups :
          proc' = [proc EXCEPT ![h] = [Idle EXCEPT !.op = op, !.pc = "write", !.on = {g}]]
    BY <1>10 DEF Close
  <2> DEFINE r == [Idle EXCEPT !.op = op, !.pc = "write", !.on = {g}]
  <2>2. r \in Process /\ r.op = op /\ r.pc = "write" /\ r.on = {g} /\ r.todo = {}
    BY <1>1, <1>4 DEF Process
  <2>3. op = "close" /\ event' = event /\ proc' = [proc EXCEPT ![h] = r]
    BY <1>10, <2>1 DEF Close
  <2> HIDE DEF r
  <2> QED
    BY <1>1, <1>3, <2>2, <2>3
<1> QED
  BY <1>6, <1>7, <1>8, <1>9, <1>10 DEF Command

-----------------------------------------------------------------------------
(* Faults.                                                                 *)

\* A process that is lost with a message in hand leaves it behind or takes it
\* away; what a post has linked goes, or is left behind if it was replaced.
LEMMA LossMoves ==
  ASSUME Sound, NEW p \in Procs, proc[p].pc # "idle", proc'[p] = Idle,
         Dies(p) \/ Throws(p) \/ PostUndone(p)
  PROVE  /\ group' \in [Groups -> Group] /\ event' \in Event
         /\ GroupMoves(p) /\ Balanced(p)
<1>1. TypeOK /\ WellFormed(p) /\ Knows(p) /\ ~Unlinked(p)'
  BY RestIsSound DEF Sound
<1>2. event' \in Event
  BY <1>1 DEF TypeOK, Event, Dies, Throws, PostUndone
<1>3. CASE UNCHANGED group /\ ~Unlinked(p)
  <2>1. GroupMoves(p) /\ group' \in [Groups -> Group]
    BY <1>1, <1>3 DEF GroupMoves, TypeOK
  <2>2. ASSUME NEW g \in Groups
        PROVE  Balance(group'[g]) = Balance(group[g]) + Weight(Holds(p, g)') - Weight(Holds(p, g))
    <3>1. Balance(group[g]) \in Int
      BY <1>1 DEF TypeOK, Group, Balance, Visible
    <3> QED
      BY <1>1, <1>3, <3>1 DEF Holds, Weight
  <2> QED
    BY <1>2, <2>1, <2>2 DEF Balanced
<1>4. ASSUME NEW g \in Groups, proc[p].on = {g}, NEW r \in Group,
             group' = [group EXCEPT ![g] = r], r.planned = group[g].planned,
             \/ r.state = group[g].state /\ r.link = group[g].link /\ r.gone = group[g].gone
             \/ /\ proc[p].op = "post" /\ proc[p].pc # "insert"
                /\ r.state = "deleted" /\ r.link = 0 /\ ~r.gone,
             Balance(r) = Balance(group[g]) - Weight(Unlinked(p))
      PROVE  group' \in [Groups -> Group] /\ GroupMoves(p) /\ Balanced(p)
  <2>1. Weight(Unlinked(p)') = 0 /\ Balance(group[g]) \in Int /\ Weight(Unlinked(p)) \in {0, 1}
    BY <1>1 DEF Weight, TypeOK, Group, Balance, Visible
  <2>2. Balance(r) = Balance(group[g]) + Weight(Unlinked(p)') - Weight(Unlinked(p))
    BY <1>4, <2>1
  <2>3. /\ group' \in [Groups -> Group] /\ group'[g] = r
        /\ \A f \in Groups \ {g} : group'[f] = group[f]
        /\ Balanced(p)
    BY <1>1, <1>4, <2>2, OneGroupTurns
  <2>4. GroupMoves(p)
    BY <1>4, <2>3 DEF GroupMoves
  <2> QED
    BY <2>3, <2>4
<1>5. ASSUME Unlinked(p) PROVE Single(p)
  BY <1>1, <1>5 DEF Unlinked, WellFormed, StepsOf, TypeOK, Process
<1>6. CASE Unlinked(p) /\ group' = [group EXCEPT ![On(p)].strays = @ + 1]
  <2>1. PICK g \in Groups : proc[p].on = {g}
    BY <1>5, <1>6 DEF Single
  <2>2. On(p) = g /\ group[g] \in Group
    BY <1>1, <2>1, OnIs DEF TypeOK
  <2> DEFINE r == [group[g] EXCEPT !.strays = @ + 1]
  <2>3. group[g].strays + 1 \in Nat
    BY <2>2 DEF Group
  <2>4. /\ r \in Group /\ r.planned = group[g].planned /\ r.state = group[g].state
        /\ r.link = group[g].link /\ r.gone = group[g].gone
        /\ r.messages = group[g].messages /\ r.strays = group[g].strays + 1
    BY <2>2, <2>3 DEF Group
  <2>5. group' = [group EXCEPT ![g] = r]
    BY <1>6, <2>2
  <2> HIDE DEF r
  <2>6. Balance(r) = Balance(group[g]) - Weight(Unlinked(p))
    BY <1>6, <2>2, <2>4 DEF Balance, Visible, Weight, Group
  <2> QED
    BY <1>2, <1>4, <2>1, <2>4, <2>5, <2>6
<1>7. CASE Unlinked(p) /\ group' = [group EXCEPT ![On(p)].messages = @ - 1]
  <2>1. PICK g \in Groups : proc[p].on = {g}
    BY <1>5, <1>7 DEF Single
  <2>2. On(p) = g /\ group[g] \in Group
    BY <1>1, <2>1, OnIs DEF TypeOK
  <2> DEFINE r == [group[g] EXCEPT !.messages = @ + -1]
  <2>3. /\ r \in Group /\ r.planned = group[g].planned /\ r.state = group[g].state
        /\ r.link = group[g].link /\ r.gone = group[g].gone
        /\ Balance(r) = Balance(group[g]) + -1 /\ Balance(group[g]) \in Int
    BY <2>2, MessagesChange
  <2>4. group' = [group EXCEPT ![g] = r]
    BY <1>7, <2>2 DEF Group
  <2> HIDE DEF r
  <2>5. Balance(r) = Balance(group[g]) - Weight(Unlinked(p))
    BY <1>7, <2>3 DEF Weight
  <2> QED
    BY <1>2, <1>4, <2>1, <2>3, <2>4, <2>5
<1>8. CASE PostUndone(p)
  <2>1. PICK g \in Groups : proc[p].on = {g}
    BY <1>1, <1>8 DEF PostUndone, WellFormed, Single
  <2>2. On(p) = g /\ group[g] \in Group /\ GroupSound(g)
    BY <1>1, <2>1, OnIs DEF TypeOK, Sound
  <2>3. /\ proc[p].op = "post" /\ proc[p].pc \in {"send", "link", "schedule"}
        /\ proc[p].pc # "schedule" <=> group[g].link = 0
    BY <1>1, <1>8, <2>1 DEF PostUndone, WellFormed, StepsOf, Knows
  <2> DEFINE kept == proc[p].pc = "schedule" /\ ~group[g].gone
             m == IF Unlinked(p) \/ (kept /\ group[g].link = 1)
                  THEN group[g].messages - 1 ELSE group[g].messages
             s == IF kept /\ group[g].link # 1 THEN group[g].strays + 1 ELSE group[g].strays
             r == [group[g] EXCEPT !.state = "deleted", !.link = 0, !.gone = FALSE,
                                   !.messages = m, !.strays = s]
  <2>4. group' = [group EXCEPT ![g] = r]
    BY <1>1, <1>8, <2>2 DEF PostUndone, TypeOK
  <2>5. m \in Int /\ s \in Nat
    BY <2>2 DEF Group
  <2>6. Balance(group[g]) = group[g].messages - Visible(group[g]) - group[g].strays
        /\ group[g].messages \in Int /\ group[g].strays \in Nat /\ group[g].link \in Nat
        /\ group[g].gone \in BOOLEAN
    BY <2>2 DEF Balance, Group
  <2>7. m - s = group[g].messages - Visible(group[g]) - group[g].strays - Weight(Unlinked(p))
    <3>1. CASE proc[p].pc = "send"
      BY <2>2, <2>3, <2>6, <3>1 DEF Visible, Weight, Unlinked
    <3>2. CASE proc[p].pc = "link"
      BY <2>2, <2>3, <2>6, <3>2 DEF Visible, Weight, Unlinked
    <3>3. CASE proc[p].pc = "schedule"
      BY <2>2, <2>3, <2>6, <3>3 DEF Visible, Weight, Unlinked
    <3> QED
      BY <2>3, <3>1, <3>2, <3>3
  <2> HIDE DEF m, s, kept
  <2>8. /\ r \in Group /\ r.planned = group[g].planned /\ r.state = "deleted"
        /\ r.link = 0 /\ ~r.gone /\ r.messages = m /\ r.strays = s
    BY <2>2, <2>5 DEF Group
  <2> HIDE DEF r
  <2>9. Balance(r) = Balance(group[g]) - Weight(Unlinked(p))
    <3>1. Balance(r) = m - s
      BY <2>5, <2>8 DEF Balance, Visible
    <3> QED
      BY <2>6, <2>7, <3>1
  <2> QED
    BY <1>2, <1>4, <2>1, <2>3, <2>4, <2>8, <2>9
<1> QED
  BY <1>2, <1>3, <1>6, <1>7, <1>8 DEF Dies, Throws

LEMMA MineFits ==
  ASSUME Sound, NEW w \in Workers, proc[w].pc # "idle"
  PROVE  /\ [Mine(w) EXCEPT !.status = "pending"] \in Row
         /\ proc[w].op \in {"open", "close"} /\ \E g \in Groups : proc[w].on = {g} /\ On(w) = g
<1>1. TypeOK /\ WellFormed(w) /\ w \in Procs
  BY WorkerIsProc DEF Sound
<1>2. proc[w].op \in {"open", "close"}
  BY <1>1 DEF WellFormed, StepsOf
<1>3. PICK g \in Groups : proc[w].on = {g}
  BY <1>1, <1>2 DEF WellFormed, Single
<1>4. On(w) = g
  BY <1>3, OnIs
<1>5. Mine(w) \in Row
  BY <1>1, <1>2, <1>4 DEF Mine, TypeOK, Kinds
<1> QED
  BY <1>2, <1>3, <1>4, <1>5 DEF Row, Live

LEMMA LostTurns == ASSUME Sound, NEW p \in Procs, Lost(p) PROVE TypeOK' /\ Turn(p)
<1>1. TypeOK /\ proc[p].pc # "idle"
  BY DEF Sound, Lost
<1>2. UNCHANGED <<now, issued>> /\ faults' = faults + 1 /\ Stop(p)
  BY DEF Lost
<1>3. /\ proc' \in [Procs -> Process] /\ \A q \in Procs \ {p} : proc'[q] = proc[q]
      /\ \A q \in Procs : proc'[q].pc = "idle" => proc'[q] = Idle
      /\ proc'[p] = Idle /\ proc'[p].op = "none"
  BY <1>1, <1>2, Rests
<1>4. row' \in [Groups -> [Kinds -> Row]] /\ RowMoves
  <2>1. CASE UNCHANGED row
    BY <1>1, <2>1 DEF TypeOK, RowMoves
  <2>2. CASE p \in Workers /\ Owns(p) /\ Becomes(p, [Mine(p) EXCEPT !.status = "pending"])
    BY <1>1, <2>2, MineFits, OwnRowTurns
  <2> QED
    BY <2>1, <2>2 DEF Lost
<1>5. group' \in [Groups -> Group] /\ event' \in Event /\ GroupMoves(p) /\ Balanced(p)
  BY <1>1, <1>3, LossMoves DEF Lost
<1>6. Turn(p)
  BY <1>3, <1>4, <1>5, RestIsSound DEF Turn
<1> QED
  BY <1>1, <1>2, <1>3, <1>4, <1>5, <1>6 DEF TypeOK

\* Steps of nobody: time, publication, stale recovery, a message deleted by hand.
World ==
  /\ UNCHANGED proc /\ RowMoves
  /\ \A g \in Groups :
       /\ group'[g].planned = group[g].planned /\ group'[g].state = group[g].state
       /\ group'[g].link = group[g].link
       /\ group'[g].gone = group[g].gone \/ (group'[g].gone /\ group[g].link # 0)
       /\ Balance(group'[g]) = Balance(group[g])

LEMMA WorldKeeps ==
  ASSUME Sound, TypeOK', World PROVE Sound' /\ (OneGroupMessage => OneGroupMessage')
<1>1. ASSUME NEW p \in Procs PROVE WellFormed(p)' /\ Knows(p)'
  <2>1. \A g \in proc[p].on : g \in Groups
    BY DEF Sound, TypeOK, Process
  <2> QED
    BY <2>1 DEF Sound, World, WellFormed, Knows, Single
<1>2. \A g \in Groups : GroupSound(g)'
  BY DEF Sound, World, RowMoves, GroupSound
<1>3. PostersAlone'
  BY DEF Sound, World, PostersAlone
<1>4. OneGroupMessage => OneGroupMessage'
  <2>1. \A g \in Groups : Holders(g)' = Holders(g)
    BY DEF World, Holders, Holds, Unlinked
  <2>2. OneGroupMessage => (\A g \in Groups : Balance(group[g]) = Cardinality(Holders(g)))
    BY BalanceIsCount DEF Sound
  <2>3. ((\A g \in Groups : Balance(group[g]) = Cardinality(Holders(g))) => OneGroupMessage)'
    BY BalanceIsCount, PTL
  <2> QED
    BY <2>1, <2>2, <2>3 DEF World
<1> QED
  BY <1>1, <1>2, <1>3, <1>4 DEF Sound

LEMMA TickTurns == ASSUME Sound, Tick PROVE TypeOK' /\ World
<1>1. TypeOK'
  BY BoundsAssumption DEF Sound, TypeOK, Tick, Times
<1>2. World
  BY DEF Tick, World, RowMoves
<1> QED
  BY <1>1, <1>2

LEMMA PublishTurns == ASSUME Sound, Publish PROVE TypeOK' /\ World
<1>1. TypeOK /\ now \in Int
  BY NowIsInt DEF Sound
<1> DEFINE wakes(g) == /\ group[g].planned /\ group[g].link = 0 /\ ~group[g].closed
                       /\ group[g].opens <= now /\ group[g].closes > now
                       /\ row[g]["open"].status \in Resumed
<1>2. /\ event' = [event EXCEPT !.published = TRUE]
      /\ row' = [g \in Groups |->
                   IF wakes(g) THEN [row[g] EXCEPT !["open"] = Armed(now)] ELSE row[g]]
      /\ UNCHANGED <<group, proc, now, issued, faults>>
  BY DEF Publish, Clock
<1>3. event' \in Event
  BY <1>1, <1>2 DEF TypeOK, Event
<1>4. ASSUME NEW g \in Groups
      PROVE  row'[g] \in [Kinds -> Row]
             /\ (row'[g]["open"].status \in Live => row[g]["open"].status \in Live \/ group[g].planned)
  <2>1. row[g] \in [Kinds -> Row] /\ Armed(now) \in Row
    BY <1>1, ArmedFits DEF TypeOK
  <2> QED
    BY <1>2, <2>1
<1>5. row' \in [Groups -> [Kinds -> Row]] /\ RowMoves
  BY <1>2, <1>4 DEF RowMoves
<1> QED
  BY <1>1, <1>2, <1>3, <1>5 DEF TypeOK, World

LEMMA DeleteMessageTurns ==
  ASSUME Sound, NEW g \in Groups, DeleteMessage(g) PROVE TypeOK' /\ World
<1>1. TypeOK /\ group[g] \in Group
  BY DEF Sound, TypeOK
<1> DEFINE r == [group[g] EXCEPT !.gone = TRUE, !.messages = @ - 1]
<1>2. /\ group' = [group EXCEPT ![g] = r] /\ group[g].link # 0 /\ ~group[g].gone
      /\ UNCHANGED <<now, event, row, proc, issued>> /\ faults' = faults + 1
  BY <1>1 DEF DeleteMessage, TypeOK
<1>3. group[g].messages - 1 \in Int
  BY <1>1 DEF Group
<1>4. /\ r \in Group /\ r.planned = group[g].planned /\ r.state = group[g].state
      /\ r.link = group[g].link /\ r.gone /\ r.messages = group[g].messages - 1
      /\ r.strays = group[g].strays
  BY <1>1, <1>3 DEF Group
<1> HIDE DEF r
<1>5. Balance(r) = Balance(group[g])
  BY <1>1, <1>2, <1>4 DEF Balance, Visible, Group
<1>6. /\ group' \in [Groups -> Group] /\ group'[g] = r
      /\ \A f \in Groups \ {g} : group'[f] = group[f]
  BY <1>1, <1>2, <1>4 DEF TypeOK
<1>7. World
  BY <1>2, <1>4, <1>5, <1>6 DEF World, RowMoves
<1> QED
  BY <1>1, <1>2, <1>6, <1>7 DEF TypeOK

LEMMA StaleTurns == ASSUME Sound, NEW w \in Workers, Stale(w) PROVE TypeOK' /\ World
<1>1. TypeOK /\ proc[w].pc # "idle" /\ Owns(w)
  BY DEF Sound, Stale
<1>2. row' \in [Groups -> [Kinds -> Row]] /\ RowMoves
  BY <1>1, MineFits, OwnRowTurns DEF Stale
<1>3. UNCHANGED <<now, event, group, proc, issued>> /\ faults' = faults + 1
  BY DEF Stale
<1> QED
  BY <1>1, <1>2, <1>3 DEF TypeOK, World

-----------------------------------------------------------------------------
(* One message for each group.                                             *)

LEMMA NextTurns ==
  ASSUME Sound, [Next]_vars
  PROVE  TypeOK' /\ (World \/ \E p \in Procs : Turn(p))
<1>1. CASE UNCHANGED vars
  <2>1. TypeOK'
    BY <1>1 DEF Sound, TypeOK, vars
  <2>2. World
    BY <1>1 DEF World, RowMoves, vars
  <2> QED
    BY <2>1, <2>2
<1>2. CASE Tick
  BY <1>2, TickTurns
<1>3. CASE Publish
  BY <1>3, PublishTurns
<1>4. ASSUME NEW g \in Groups, DeleteMessage(g) PROVE TypeOK' /\ World
  BY <1>4, DeleteMessageTurns
<1>5. ASSUME NEW w \in Workers, Schedules(w) PROVE TypeOK' /\ \E p \in Procs : Turn(p)
  BY <1>5, SchedulesTurns, WorkerIsProc
<1>6. ASSUME NEW w \in Workers, Stale(w) PROVE TypeOK' /\ World
  BY <1>6, StaleTurns
<1>7. ASSUME NEW h \in Handlers, Handles(h) PROVE TypeOK' /\ \E p \in Procs : Turn(p)
  BY <1>7, HandlesTurns, HandlerIsProc
<1>8. ASSUME NEW h \in Handlers, NEW op \in Ops, Command(h, op)
      PROVE  TypeOK' /\ \E p \in Procs : Turn(p)
  BY <1>8, CommandTurns, HandlerIsProc
<1>9. ASSUME NEW p \in Procs, Lost(p) PROVE TypeOK' /\ \E q \in Procs : Turn(q)
  BY <1>9, LostTurns
<1> QED
  BY <1>1, <1>2, <1>3, <1>4, <1>5, <1>6, <1>7, <1>8, <1>9 DEF Next

LEMMA SoundNext ==
  ASSUME Sound, [Next]_vars PROVE Sound' /\ (OneGroupMessage => OneGroupMessage')
BY NextTurns, WorldKeeps, TurnKeeps, TurnBalances DEF Sound

LEMMA InitSound == Init => Sound /\ OneGroupMessage
<1> SUFFICES ASSUME Init PROVE Sound /\ OneGroupMessage
  OBVIOUS
<1>1. /\ now \in Times /\ event \in Event /\ OpensAt(event) \in Int /\ ClosesAt(event) \in Int
      /\ issued \in Nat /\ faults \in Nat
  <2>1. event \in Event
    <3>1. event \in [ended : {FALSE}, published : {FALSE}, held : BOOLEAN, torn : {FALSE},
                     starts : {FirstStart}]
      BY DEF Init
    <3>2. FirstStart \in Int
      BY DEF FirstStart
    <3> QED
      BY <3>1, <3>2 DEF Event
  <2>2. now \in Times /\ issued \in Nat /\ faults \in Nat
    BY BoundsAssumption DEF Init, Times
  <2> QED
    BY <2>1, <2>2, EventTimes
<1>2. Absent \in Group /\ Absent.state = "absent" /\ ~Absent.planned /\ Absent.link = 0
      /\ ~Absent.gone /\ Absent.messages = 0 /\ Absent.strays = 0
  BY DEF Absent, Group
<1>3. /\ Planned(event) \in Group /\ Planned(event).state = "kept" /\ Planned(event).link = 0
      /\ ~Planned(event).gone /\ Planned(event).messages = 0 /\ Planned(event).strays = 0
      /\ Planned(event).planned
  BY <1>1, <1>2 DEF Planned, Group
<1>4. \A g \in Groups :
        /\ group[g] \in Group /\ group[g].link = 0 /\ ~group[g].gone
        /\ group[g].messages = 0 /\ group[g].strays = 0
        /\ group[g].state # "kept" => ~group[g].planned
  BY <1>2, <1>3 DEF Init
<1>5. NoRow \in Row /\ NoRow.status \notin Live
  BY DEF NoRow, Row, Live
<1>6. ASSUME NEW g \in Groups
      PROVE  row[g] \in [Kinds -> Row] /\ (row[g]["open"].status \in Live => group[g].planned)
  BY <1>1, <1>5, ArmedFits DEF Init, Kinds
<1>7. \A p \in Procs : proc[p] = Idle
  BY DEF Init
<1>8. TypeOK
  BY <1>1, <1>4, <1>6, <1>7, IdleFits DEF TypeOK, Init
<1>9. \A p \in Procs : WellFormed(p) /\ Knows(p)
  BY <1>7, IdleFits DEF WellFormed, Knows, StepsOf, Idle
<1>10. \A g \in Groups : GroupSound(g)
  BY <1>4, <1>6 DEF GroupSound
<1>11. PostersAlone
  BY <1>7, IdleFits DEF PostersAlone
<1>12. OneGroupMessage
  <2>1. ASSUME NEW g \in Groups PROVE Balance(group[g]) = Cardinality(Holders(g))
    <3>1. Holders(g) = {}
      BY <1>7, IdleFits DEF Holders, Holds, Unlinked
    <3> QED
      BY <1>4, <3>1, FS_EmptySet DEF Balance, Visible
  <2> QED
    BY <1>8, <2>1, BalanceIsCount
<1> QED
  BY <1>8, <1>9, <1>10, <1>11, <1>12 DEF Sound

LEMMA AlwaysSound == Spec => []Sound
<1>1. Sound /\ [Next]_vars => Sound'
  BY SoundNext
<1>2. Init => Sound
  BY InitSound
<1> QED
  BY <1>1, <1>2, PTL DEF Spec

\* The state keeps its shape, and a process at rest has nothing in mind
\* (role_request_groups and the rows of their actions).
THEOREM TypeCorrect == Spec => []TypeOK
<1>1. Sound => TypeOK
  BY DEF Sound
<1> QED
  BY <1>1, AlwaysSound, PTL

\* Each group has one message, however many executors, posts and refreshes race
\* for it and whichever of them is lost: publishRoleRequestGroup and
\* refreshRoleRequestGroupMessage claim the link they replace.
THEOREM OneMessage == Spec => []OneGroupMessage
<1>1. Sound /\ OneGroupMessage /\ [Next]_vars => OneGroupMessage'
  BY SoundNext
<1>2. Init => OneGroupMessage
  BY InitSound
<1> QED
  BY <1>1, <1>2, AlwaysSound, PTL DEF Spec

-----------------------------------------------------------------------------
(* Closings, as long as one command at a time is under way: the close row  *)
(* of an open group is live and due at its closing time, unless the group  *)
(* is being posted or a moved start has still to be carried over.          *)

OneHandler == \A h, i \in Handlers : h = i

\* There is nothing left to close.
Shut(g) == group[g].closed \/ group[g].state = "deleted" \/ event.ended

ClosersSound(p) ==
  proc[p].op = "close" =>
    \A g \in proc[p].on :
      group[g].state # "absent" /\ (proc[p].pc \notin {"load", "write"} => Shut(g))

HandlerSound(h) ==
  /\ proc[h].op \in {"cancel", "complete"} => event.ended
  /\ proc[h].op = "post" =>
       /\ proc[h].at = ClosesAt(event)
       /\ proc[h].pc # "insert" => \A g \in proc[h].on : group[g].closes = ClosesAt(event)

Moving == \E h \in Handlers : proc[h].op = "move"
Posting(g) == \E h \in Handlers : /\ proc[h].op = "post" /\ proc[h].on = {g}
                                  /\ proc[h].pc # "insert"

CloseDue(g) ==
  /\ group[g].closes = ClosesAt(event)
  /\ row[g]["close"].status \in Live
  /\ \/ row[g]["close"].due = group[g].closes
     \/ group[g].closes < row[g]["close"].due /\ row[g]["close"].due <= now

CloseWatched(g) ==
  group[g].state = "kept" /\ ~Shut(g) /\ ~event.torn => CloseDue(g) \/ Moving \/ Posting(g)

RowOfGroup(g) == row[g]["close"].status \in Live => group[g].state # "absent"

Closing ==
  /\ Sound
  /\ \A p \in Procs : ClosersSound(p)
  /\ \A h \in Handlers : HandlerSound(h)
  /\ \A g \in Groups : RowOfGroup(g) /\ CloseWatched(g)

\* A step that neither moves the start, nor the closing times, nor a close row
\* of a group that has still to be closed.
Calm ==
  /\ now <= now' /\ event'.starts = event.starts /\ (event.torn => event'.torn)
  /\ event.ended => event'.ended
  /\ \A g \in Groups :
       /\ group'[g].closes = group[g].closes
       /\ \/ group'[g].state = group[g].state
          \/ group[g].state = "kept" /\ group'[g].state = "deleted"
       /\ group[g].state = "kept" /\ group[g].closed => group'[g].closed
       /\ row'[g]["close"].status \in Live => row[g]["close"].status \in Live
       /\ row[g]["close"].status \in Live =>
            Shut(g)' \/ (row'[g]["close"].status \in Live
                           /\ row'[g]["close"].due = row[g]["close"].due)

\* Of the processes P only; a command that moves goes on to, and one that posts
\* keeps its group and its closing time, unless they are lost.
CalmOf(P) ==
  /\ Calm
  /\ \A q \in Procs \ P : proc'[q] = proc[q]
  /\ \A p \in P :
       /\ ClosersSound(p)'
       /\ p \in Handlers =>
            /\ proc[p].op = "move" => proc'[p].op = "move" \/ event'.torn
            /\ proc'[p].op \in {"cancel", "complete"} => event'.ended
            /\ proc[p].op = "post" =>
                 \/ /\ proc'[p].op = "post" /\ proc'[p].on = proc[p].on
                    /\ proc'[p].at = proc[p].at
                    /\ (proc'[p].pc = "insert") = (proc[p].pc = "insert")
                 \/ /\ proc'[p] = Idle
                    /\ \/ event'.torn \/ proc[p].pc = "insert"
                       \/ \A g \in proc[p].on : group'[g].state = "deleted"
            /\ proc'[p].op = "post" /\ proc[p].op # "post" =>
                 proc'[p].pc = "insert" /\ proc'[p].at = ClosesAt(event)

LEMMA ShutStays ==
  ASSUME Sound, Calm, NEW g \in Groups, group[g].state # "absent", Shut(g) PROVE Shut(g)'
<1>1. group[g].state \in {"absent", "kept", "deleted"}
  BY DEF Sound, TypeOK, Group
<1> QED
  BY <1>1 DEF Calm, Shut

LEMMA CalmKeeps ==
  ASSUME Closing, Sound', NEW P, P \subseteq Procs, CalmOf(P) PROVE Closing'
<1>1. Sound /\ Calm /\ ClosesAt(event)' = ClosesAt(event)
  BY DEF Closing, CalmOf, Calm, ClosesAt
<1>2. ASSUME NEW p \in Procs PROVE ClosersSound(p)'
  <2>1. CASE p \in P
    BY <2>1 DEF CalmOf
  <2>2. CASE p \notin P
    <3>1. proc'[p] = proc[p] /\ ClosersSound(p) /\ \A g \in proc[p].on : g \in Groups
      BY <2>2 DEF CalmOf, Closing, Sound, TypeOK, Process
    <3>2. ASSUME proc[p].op = "close", NEW g \in proc[p].on
          PROVE  group'[g].state # "absent" /\ (proc[p].pc \notin {"load", "write"} => Shut(g)')
      BY <1>1, <3>1, <3>2, ShutStays DEF ClosersSound, Calm
    <3> QED
      BY <3>1, <3>2 DEF ClosersSound
  <2> QED
    BY <2>1, <2>2
<1>3. ASSUME NEW h \in Handlers PROVE HandlerSound(h)'
  <2>1. h \in Procs /\ HandlerSound(h) /\ \A g \in proc[h].on : g \in Groups
    BY HandlerIsProc DEF Closing, Sound, TypeOK, Process
  <2>2. CASE h \in P
    BY <1>1, <2>1, <2>2, IdleFits DEF CalmOf, HandlerSound, Calm
  <2>3. CASE h \notin P
    BY <1>1, <2>1, <2>3 DEF CalmOf, HandlerSound, Calm
  <2> QED
    BY <2>2, <2>3
<1>4. Moving => Moving' \/ event'.torn
  BY HandlerIsProc DEF Moving, CalmOf
<1>5. ASSUME NEW g \in Groups, Posting(g)
      PROVE  Posting(g)' \/ event'.torn \/ group'[g].state = "deleted"
  <2>1. PICK h \in Handlers : proc[h].op = "post" /\ proc[h].on = {g} /\ proc[h].pc # "insert"
    BY <1>5 DEF Posting
  <2>2. CASE h \in P
    BY <2>1, <2>2 DEF Posting, CalmOf
  <2>3. CASE h \notin P
    BY <2>1, <2>3, HandlerIsProc DEF Posting, CalmOf
  <2> QED
    BY <2>2, <2>3
<1>6. ASSUME NEW g \in Groups PROVE RowOfGroup(g)'
  BY <1>1 DEF Closing, RowOfGroup, Calm
<1>7. ASSUME NEW g \in Groups, group'[g].state = "kept", ~Shut(g)', ~event'.torn
      PROVE  CloseDue(g)' \/ Moving' \/ Posting(g)'
  <2>1. group[g].state = "kept" /\ ~Shut(g) /\ ~event.torn
    BY <1>1, <1>7, ShutStays DEF Calm
  <2>2. CloseDue(g) \/ Moving \/ Posting(g)
    BY <2>1 DEF Closing, CloseWatched
  <2>3. ASSUME CloseDue(g) PROVE CloseDue(g)'
    <3>1. now \in Int /\ now' \in Int /\ row[g]["close"].due \in Int
      <4>1. row[g]["close"] \in Row
        BY DEF Closing, Sound, TypeOK, Kinds
      <4> QED
        BY <4>1, <1>1, NowIsInt, BoundsAssumption DEF Row, Sound, TypeOK, Times
    <3>2. /\ now <= now' /\ group'[g].closes = group[g].closes
          /\ row'[g]["close"].status \in Live /\ row'[g]["close"].due = row[g]["close"].due
      BY <1>1, <1>7, <2>3 DEF Calm, CloseDue
    <3> QED
      BY <1>1, <2>3, <3>1, <3>2 DEF CloseDue
  <2> QED
    BY <1>4, <1>5, <1>7, <2>2, <2>3
<1> QED
  BY <1>2, <1>3, <1>6, <1>7 DEF Closing, CloseWatched

\* Most steps leave the times and the state of every group alone.
FieldsKeep ==
  \A g \in Groups :
    /\ group'[g].closes = group[g].closes /\ group'[g].opens = group[g].opens
    /\ group'[g].state = group[g].state /\ group'[g].closed = group[g].closed

LEMMA FieldsStay ==
  ASSUME TypeOK, NEW g \in Groups, NEW r,
         \/ r = [group[g] EXCEPT !.messages = @ + 1] \/ r = [group[g] EXCEPT !.messages = @ - 1]
         \/ r = [group[g] EXCEPT !.strays = @ + 1] \/ r = [group[g] EXCEPT !.link = 1]
         \/ r = [group[g] EXCEPT !.link = @ + 1, !.gone = FALSE],
         group' = [group EXCEPT ![g] = r]
  PROVE  FieldsKeep
<1>1. group[g] \in Group
  BY DEF TypeOK
<1>2. /\ r.closes = group[g].closes /\ r.opens = group[g].opens
      /\ r.state = group[g].state /\ r.closed = group[g].closed
  BY <1>1 DEF Group
<1>3. group'[g] = r /\ \A f \in Groups \ {g} : group'[f] = group[f]
  BY DEF TypeOK
<1> QED
  BY <1>2, <1>3 DEF FieldsKeep

LEMMA RefreshFields ==
  ASSUME Sound, NEW p \in Procs, RefreshNext(p) \/ RefreshEdit(p) \/ RefreshSwap(p)
  PROVE  FieldsKeep
<1>1. TypeOK /\ WellFormed(p)
  BY DEF Sound
<1>2. CASE RefreshNext(p)
  BY <1>2 DEF RefreshNext, FieldsKeep
<1>3. CASE RefreshEdit(p) \/ RefreshSwap(p)
  <2>1. PICK g \in Groups : proc[p].on = {g}
    BY <1>1, <1>3 DEF RefreshEdit, RefreshSwap, WellFormed, Single
  <2>2. On(p) = g /\ group[g] \in Group
    BY <1>1, <2>1, OnIs DEF TypeOK
  <2>3. CASE UNCHANGED group
    BY <2>3 DEF FieldsKeep
  <2>4. CASE group' # group
    <3>1. \/ group' = [group EXCEPT ![g] = [group[g] EXCEPT !.messages = @ + 1]]
          \/ group' = [group EXCEPT ![g] = [group[g] EXCEPT !.messages = @ - 1]]
          \/ group' = [group EXCEPT ![g] = [group[g] EXCEPT !.link = @ + 1, !.gone = FALSE]]
      BY <1>3, <2>2, <2>4 DEF RefreshEdit, RefreshSwap
    <3> QED
      BY <1>1, <3>1, FieldsStay
  <2> QED
    BY <2>3, <2>4
<1> QED
  BY <1>2, <1>3

LEMMA OpenFields ==
  ASSUME Sound, NEW w \in Workers,
         \/ OpenLoad(w) \/ OpenCheck(w) \/ OpenSend(w) \/ OpenLink(w) \/ OpenRequeue(w)
  PROVE  FieldsKeep
<1>1. TypeOK /\ WellFormed(w) /\ proc[w].op = "open"
  BY WorkerIsProc DEF Sound, OpenLoad, OpenCheck, OpenSend, OpenLink, OpenRequeue, At
<1>2. PICK g \in Groups : proc[w].on = {g}
  BY <1>1 DEF WellFormed, Single
<1>3. On(w) = g /\ group[g] \in Group
  BY <1>1, <1>2, OnIs DEF TypeOK
<1>4. CASE UNCHANGED group
  BY <1>4 DEF FieldsKeep
<1>5. CASE group' # group
  <2>1. \/ group' = [group EXCEPT ![g] = [group[g] EXCEPT !.messages = @ + 1]]
        \/ group' = [group EXCEPT ![g] = [group[g] EXCEPT !.messages = @ - 1]]
        \/ group' = [group EXCEPT ![g] = [group[g] EXCEPT !.link = 1]]
    BY <1>3, <1>5 DEF OpenLoad, OpenCheck, OpenSend, OpenLink, OpenRequeue
  <2> QED
    BY <1>1, <2>1, FieldsStay
<1> QED
  BY <1>4, <1>5

\* The close rows of a worker's step.
CloseRowsKeep ==
  \A g \in Groups : /\ row'[g]["close"].due = row[g]["close"].due
                    /\ row'[g]["close"].status \in Live <=> row[g]["close"].status \in Live

\* Enough for most steps.
LEMMA CalmSteps ==
  ASSUME Sound, Sound', now' = now \/ now' = now + 1,
         event'.starts = event.starts, event.torn => event'.torn, event.ended => event'.ended,
         FieldsKeep, CloseRowsKeep
  PROVE  Calm
<1>1. now <= now'
  BY NowIsInt DEF Sound
<1> QED
  BY <1>1 DEF Calm, FieldsKeep, CloseRowsKeep

LEMMA OpenStepsCalm ==
  ASSUME Closing, Sound', NEW w \in Workers,
         \/ OpenLoad(w) \/ OpenCheck(w) \/ OpenSend(w) \/ OpenLink(w) \/ OpenRequeue(w)
  PROVE  CalmOf({w})
<1>1. Sound /\ TypeOK /\ w \in Procs /\ w \notin Handlers /\ WellFormed(w) /\ proc[w].op = "open"
  BY WorkerIsProc
     DEF Closing, Sound, OpenLoad, OpenCheck, OpenSend, OpenLink, OpenRequeue, At
<1>2. UNCHANGED <<now, event>>
  BY DEF OpenLoad, OpenCheck, OpenSend, OpenLink, OpenRequeue, Clock
<1>3. /\ \A q \in Procs \ {w} : proc'[q] = proc[q]
      /\ proc'[w].op = "open"
  BY <1>1 DEF OpenLoad, OpenCheck, OpenSend, OpenLink, OpenRequeue, Goto, TypeOK, Process
<1>4. CloseRowsKeep
  <2>1. UNCHANGED row \/ \E r : row' = [row EXCEPT ![On(w)]["open"] = r]
    BY <1>1 DEF OpenLoad, OpenCheck, OpenSend, OpenLink, OpenRequeue, Becomes
  <2> QED
    BY <1>1, <2>1 DEF CloseRowsKeep, TypeOK, Kinds
<1>5. Calm
  BY <1>1, <1>2, <1>4, OpenFields, CalmSteps
<1> QED
  BY <1>1, <1>3, <1>5 DEF CalmOf, ClosersSound

LEMMA ClaimCalm ==
  ASSUME Closing, Sound', NEW w \in Workers, NEW g \in Groups, NEW k \in Kinds, Claim(w, g, k)
  PROVE  CalmOf({w})
<1>1. Sound /\ TypeOK /\ w \in Procs /\ w \notin Handlers /\ RowOfGroup(g)
  BY WorkerIsProc DEF Closing, Sound
<1>2. UNCHANGED <<now, event, group>>
  BY DEF Claim, Clock
<1>3. /\ \A q \in Procs \ {w} : proc'[q] = proc[q]
      /\ proc'[w].op = k /\ proc'[w].on = {g} /\ proc'[w].pc = "load"
  BY <1>1 DEF Claim, TypeOK, Idle
<1>4. CloseRowsKeep
  <2>1. row[g][k] \in Row
    BY <1>1 DEF TypeOK
  <2> QED
    BY <1>1, <2>1 DEF Claim, CloseRowsKeep, TypeOK, Kinds, Row, Live
<1>5. Calm
  BY <1>1, <1>2, <1>4, CalmSteps DEF FieldsKeep
<1>6. ClosersSound(w)'
  BY <1>1, <1>2, <1>3 DEF ClosersSound, RowOfGroup, Claim, Live
<1> QED
  BY <1>1, <1>3, <1>5, <1>6 DEF CalmOf

LEMMA RefreshCalm ==
  ASSUME Closing, Sound', NEW p \in Procs, RefreshNext(p) \/ RefreshEdit(p) \/ RefreshSwap(p)
  PROVE  CalmOf({p})
<1>1. /\ Sound /\ TypeOK /\ WellFormed(p) /\ ClosersSound(p) /\ proc[p] \in Process
      /\ proc[p].pc \in {"refresh", "edit", "swap"}
      /\ proc[p].op \in {"close", "cancel", "complete", "refresh"}
  BY DEF Closing, Sound, TypeOK, RefreshNext, RefreshEdit, RefreshSwap, WellFormed, StepsOf,
         Process
<1>2. UNCHANGED <<now, event, row>>
  BY DEF RefreshNext, RefreshEdit, RefreshSwap, Clock
<1>3. FieldsKeep /\ Calm
  BY <1>1, <1>2, RefreshFields, CalmSteps DEF CloseRowsKeep
<1>4. /\ \A q \in Procs \ {p} : proc'[q] = proc[q]
      /\ \/ proc'[p] = Idle
         \/ /\ proc'[p].op = proc[p].op
            /\ proc[p].op = "close" => proc'[p].on = proc[p].on
  <2>1. CASE RefreshEdit(p) \/ RefreshSwap(p)
    BY <1>1, <2>1 DEF RefreshEdit, RefreshSwap, Goto, TypeOK, Process
  <2>2. CASE RefreshNext(p) /\ proc[p].todo = {} /\ (Goto(p, "done") \/ Stop(p))
    BY <1>1, <2>2 DEF Goto, Stop, TypeOK, Process
  <2>3. ASSUME NEW g \in proc[p].todo,
               proc' = [proc EXCEPT ![p].todo = @ \ {g}, ![p].on = {g}, ![p].msg = group[g].link,
                                    ![p].pc = IF group[g].link = 0 THEN "refresh" ELSE "edit"]
        PROVE  /\ \A q \in Procs \ {p} : proc'[q] = proc[q]
               /\ proc'[p].op = proc[p].op
               /\ proc[p].op = "close" => proc'[p].on = proc[p].on
    <3>1. proc[p].op = "close" => {g} = proc[p].on
      BY <1>1 DEF WellFormed, Single
    <3> QED
      BY <1>1, <2>3, <3>1 DEF TypeOK, Process
  <2> QED
    BY <2>1, <2>2, <2>3 DEF RefreshNext
<1>5. ClosersSound(p)'
  <2>1. CASE proc'[p] = Idle
    BY <2>1, IdleFits DEF ClosersSound
  <2>2. CASE proc'[p].op = "close" /\ proc[p].op = "close" /\ proc'[p].on = proc[p].on
    <3>1. ASSUME NEW g \in proc[p].on PROVE group'[g].state # "absent" /\ Shut(g)'
      <4>1. g \in Groups /\ group[g].state # "absent" /\ Shut(g)
        BY <1>1, <2>2 DEF ClosersSound, Process
      <4> QED
        BY <1>1, <1>3, <4>1, ShutStays DEF FieldsKeep
    <3> QED
      BY <2>2, <3>1 DEF ClosersSound
  <2> QED
    BY <1>4, <2>1, <2>2 DEF ClosersSound
<1>6. p \in Handlers => (proc[p].op \in {"cancel", "complete"} => event'.ended)
  BY <1>2 DEF Closing, HandlerSound
<1> QED
  BY <1>1, <1>2, <1>3, <1>4, <1>5, <1>6, IdleFits DEF CalmOf

LEMMA CloseStepsCalm ==
  ASSUME Closing, Sound', NEW w \in Workers, CloseLoad(w) \/ CloseWrite(w)
  PROVE  CalmOf({w})
<1>1. /\ Sound /\ TypeOK /\ w \in Procs /\ w \notin Handlers /\ WellFormed(w) /\ ClosersSound(w)
      /\ proc[w].op = "close" /\ proc[w] \in Process
  BY WorkerIsProc DEF Closing, Sound, CloseLoad, CloseWrite, At, TypeOK
<1>2. PICK g \in Groups : proc[w].on = {g}
  BY <1>1 DEF WellFormed, Single
<1>3. On(w) = g /\ group[g] \in Group /\ group[g].state \in {"kept", "deleted"}
  BY <1>1, <1>2, OnIs DEF TypeOK, ClosersSound, Group
<1>4. UNCHANGED <<now, event, row>>
  BY DEF CloseLoad, CloseWrite, Clock
<1>5. /\ \A q \in Procs \ {w} : proc'[q] = proc[q]
      /\ proc'[w].op = "close" /\ proc'[w].on = {g}
  <2>1. CASE CloseLoad(w)
    BY <1>1, <1>2, <2>1 DEF CloseLoad, TypeOK, Process
  <2>2. CASE CloseWrite(w)
    <3>1. Goto(w, "refresh") \/ Goto(w, "done")
      BY <2>2 DEF CloseWrite
    <3> QED
      BY <1>1, <1>2, <3>1, GoesOn
  <2> QED
    BY <2>1, <2>2
<1>6. /\ group'[g].closes = group[g].closes /\ group'[g].state = group[g].state
      /\ group[g].closed => group'[g].closed
      /\ \A f \in Groups \ {g} : group'[f] = group[f]
  BY <1>1, <1>3 DEF CloseLoad, CloseWrite, TypeOK, Group
<1>7. Calm
  BY <1>1, <1>4, <1>6, NowIsInt DEF Calm
<1>8. proc'[w].pc \notin {"load", "write"} => Shut(g)'
  <2>1. CASE CloseLoad(w)
    BY <1>1, <1>3, <1>4, <2>1 DEF CloseLoad, TypeOK, Process, Shut
  <2>2. CASE CloseWrite(w) /\ CanClose(g)
    BY <1>1, <1>3, <2>2 DEF CloseWrite, TypeOK, Group, Shut
  <2>3. CASE CloseWrite(w) /\ ~CanClose(g)
    BY <1>3, <1>4, <2>3 DEF CloseWrite, CanClose, Shut
  <2> QED
    BY <2>1, <2>2, <2>3
<1>9. ClosersSound(w)'
  BY <1>3, <1>5, <1>6, <1>8 DEF ClosersSound
<1> QED
  BY <1>1, <1>5, <1>7, <1>9 DEF CalmOf

\* A worker completes the close row only of a group that is shut.
LEMMA SettleCalm ==
  ASSUME Closing, Sound', NEW w \in Workers, Settle(w) PROVE CalmOf({w})
<1>1. /\ Sound /\ TypeOK /\ w \in Procs /\ w \notin Handlers /\ WellFormed(w) /\ ClosersSound(w)
      /\ proc[w].op \in {"open", "close"} /\ proc[w].pc \in {"done", "failed"}
  BY WorkerIsProc DEF Closing, Sound, Settle, WellFormed, StepsOf
<1>2. PICK g \in Groups : proc[w].on = {g}
  BY <1>1 DEF WellFormed, Single
<1>3. On(w) = g /\ row[g] \in [Kinds -> Row] /\ "close" \in Kinds /\ "open" \in Kinds
  BY <1>1, <1>2, OnIs DEF TypeOK, Kinds
<1>4. UNCHANGED <<now, event, group>> /\ Stop(w)
  BY DEF Settle, Clock, Rest
<1>5. /\ \A q \in Procs \ {w} : proc'[q] = proc[q]
      /\ proc'[w] = Idle
  BY <1>1, <1>4, Rests
<1>6. ASSUME NEW f \in Groups
      PROVE  /\ row'[f]["close"].status \in Live => row[f]["close"].status \in Live
             /\ row[f]["close"].status \in Live =>
                  Shut(f)' \/ (row'[f]["close"].status \in Live
                                 /\ row'[f]["close"].due = row[f]["close"].due)
  <2>1. CASE UNCHANGED row
    BY <2>1
  <2> DEFINE r == [row[g][proc[w].op] EXCEPT
                     !.status = IF proc[w].pc = "done" THEN "completed" ELSE "pending"]
  <2>2. CASE Owns(w) /\ row' = [row EXCEPT ![g][proc[w].op] = r]
    <3>1. CASE proc[w].op = "open" \/ f # g
      BY <1>1, <1>3, <2>2, <3>1 DEF TypeOK
    <3>2. CASE proc[w].op = "close" /\ f = g
      <4>1. Shut(g)'
        BY <1>1, <1>2, <1>4, <3>2 DEF ClosersSound, Shut
      <4>2. row[g]["close"].status \in Live
        BY <1>3, <2>2, <3>2 DEF Owns, Mine, Live
      <4> QED
        BY <3>2, <4>1, <4>2
    <3> QED
      BY <1>1, <3>1, <3>2
  <2> QED
    BY <1>3, <2>1, <2>2 DEF Settle, Becomes, Mine
<1>7. Calm
  BY <1>1, <1>4, <1>6, NowIsInt DEF Calm
<1>8. ClosersSound(w)'
  BY <1>5, IdleFits DEF ClosersSound
<1> QED
  BY <1>1, <1>5, <1>7, <1>8 DEF CalmOf

\* The row of a lost worker is given back.
LEMMA GivenBack ==
  ASSUME Sound, NEW w \in Workers, proc[w].pc # "idle", Owns(w),
         Becomes(w, [Mine(w) EXCEPT !.status = "pending"])
  PROVE  CloseRowsKeep
<1>1. PICK g \in Groups : proc[w].on = {g} /\ On(w) = g
  BY MineFits
<1>2. TypeOK /\ proc[w].op \in Kinds /\ row[g][proc[w].op] \in Row
  BY MineFits DEF Sound, TypeOK, Kinds
<1> DEFINE r == [row[g][proc[w].op] EXCEPT !.status = "pending"]
<1>3. row' = [row EXCEPT ![g][proc[w].op] = r] /\ row[g][proc[w].op].status \in Live
  BY <1>1 DEF Becomes, Mine, Owns, Live
<1>4. r.due = row[g][proc[w].op].due /\ r.status \in Live
  BY <1>2 DEF Row, Live
<1> HIDE DEF r
<1> QED
  BY <1>2, <1>3, <1>4 DEF TypeOK, CloseRowsKeep, Kinds

LEMMA WorldCalm ==
  ASSUME Closing, Sound',
         \/ UNCHANGED vars \/ Tick \/ Publish \/ (\E g \in Groups : DeleteMessage(g))
         \/ (\E w \in Workers : Stale(w))
  PROVE  CalmOf({})
<1>1. Sound /\ TypeOK /\ UNCHANGED proc
  BY DEF Closing, Sound, vars, Tick, Publish, DeleteMessage, Stale
<1>2. CASE UNCHANGED vars \/ Tick
  <2>1. Calm
    BY <1>1, <1>2, CalmSteps DEF vars, Tick, FieldsKeep, CloseRowsKeep
  <2> QED
    BY <1>1, <2>1 DEF CalmOf
<1>3. CASE Publish
  <2>1. event' = [event EXCEPT !.published = TRUE] /\ UNCHANGED <<now, group>>
    BY <1>3 DEF Publish, Clock
  <2>2. event'.starts = event.starts /\ event'.torn = event.torn /\ event'.ended = event.ended
    BY <1>1, <2>1 DEF TypeOK, Event
  <2>3. ASSUME NEW g \in Groups PROVE row'[g]["close"] = row[g]["close"]
    BY <1>1, <1>3 DEF Publish, TypeOK, Kinds
  <2>4. Calm
    BY <1>1, <2>1, <2>2, <2>3, CalmSteps DEF FieldsKeep, CloseRowsKeep
  <2> QED
    BY <1>1, <2>4 DEF CalmOf
<1>4. ASSUME NEW g \in Groups, DeleteMessage(g) PROVE CalmOf({})
  <2>1. UNCHANGED <<now, event, row>>
    BY <1>4 DEF DeleteMessage
  <2>2. group[g] \in Group /\ group' = [group EXCEPT ![g].gone = TRUE, ![g].messages = @ - 1]
    BY <1>1, <1>4 DEF DeleteMessage, TypeOK
  <2>3. FieldsKeep
    BY <1>1, <2>2 DEF FieldsKeep, TypeOK, Group
  <2>4. Calm
    BY <1>1, <2>1, <2>3, CalmSteps DEF CloseRowsKeep
  <2> QED
    BY <1>1, <2>4 DEF CalmOf
<1>5. ASSUME NEW w \in Workers, Stale(w) PROVE CalmOf({})
  <2>1. UNCHANGED <<now, event, group>> /\ CloseRowsKeep
    BY <1>1, <1>5, GivenBack DEF Stale
  <2>2. Calm
    BY <1>1, <2>1, CalmSteps DEF FieldsKeep
  <2> QED
    BY <1>1, <2>2 DEF CalmOf
<1> QED
  BY <1>2, <1>3, <1>4, <1>5

\* A loss excuses itself: a move or a post that is lost is torn, or its group goes.
LEMMA LostCalm == ASSUME Closing, Sound', NEW p \in Procs, Lost(p) PROVE CalmOf({p})
<1>1. Sound /\ TypeOK /\ WellFormed(p) /\ Knows(p) /\ proc[p].pc # "idle"
  BY DEF Closing, Sound, Lost
<1>2. now' = now /\ Stop(p)
  BY DEF Lost
<1>3. /\ \A q \in Procs \ {p} : proc'[q] = proc[q]
      /\ proc'[p] = Idle
  BY <1>1, <1>2, Rests
<1>4. CloseRowsKeep
  BY <1>1, GivenBack DEF Lost, CloseRowsKeep
<1>5. /\ event'.starts = event.starts /\ event'.ended = event.ended
      /\ event'.torn = event.torn \/ (event'.torn /\ Tears(p))
      /\ Dies(p) \/ Throws(p) => event'.torn = (event.torn \/ Tears(p))
  BY <1>1 DEF Lost, Dies, Throws, PostUndone, TypeOK, Event
<1>6. ASSUME NEW g \in Groups
      PROVE  /\ group'[g].closes = group[g].closes
             /\ \/ group'[g].state = group[g].state
                \/ group[g].state = "kept" /\ group'[g].state = "deleted"
             /\ group[g].state = "kept" /\ group[g].closed => group'[g].closed
             /\ PostUndone(p) /\ g \in proc[p].on => group'[g].state = "deleted"
  <2>1. CASE UNCHANGED group /\ ~PostUndone(p)
    BY <2>1
  <2>2. CASE group' # group /\ (Dies(p) \/ Throws(p)) /\ ~PostUndone(p)
    <3>1. Unlinked(p)
      BY <2>2 DEF Dies, Throws
    <3>2. Single(p)
      BY <1>1, <3>1 DEF Unlinked, WellFormed, StepsOf, TypeOK, Process
    <3>3. PICK f \in Groups : proc[p].on = {f}
      BY <3>2 DEF Single
    <3>4. On(p) = f
      BY <3>3, OnIs
    <3>5. \/ group' = [group EXCEPT ![f] = [group[f] EXCEPT !.strays = @ + 1]]
          \/ group' = [group EXCEPT ![f] = [group[f] EXCEPT !.messages = @ - 1]]
      BY <2>2, <3>1, <3>4 DEF Dies, Throws
    <3>6. FieldsKeep
      BY <1>1, <3>5, FieldsStay
    <3> QED
      BY <2>2, <3>6 DEF FieldsKeep
  <2>3. CASE PostUndone(p)
    <3>1. PICK f \in Groups : proc[p].on = {f}
      BY <1>1, <2>3 DEF PostUndone, WellFormed, Single
    <3>2. On(p) = f /\ group[f] \in Group /\ group[f].state = "kept"
      BY <1>1, <2>3, <3>1, OnIs DEF TypeOK, Knows, PostUndone
    <3>3. /\ group'[f].closes = group[f].closes /\ group'[f].closed = group[f].closed
          /\ group'[f].state = "deleted"
          /\ \A e \in Groups \ {f} : group'[e] = group[e]
      BY <1>1, <2>3, <3>2 DEF PostUndone, TypeOK, Group
    <3> QED
      BY <3>1, <3>2, <3>3
  <2> QED
    BY <2>1, <2>2, <2>3 DEF Lost
<1>7. Calm
  <2>1. now <= now'
    BY <1>1, <1>2, NowIsInt
  <2> QED
    BY <1>4, <1>5, <1>6, <2>1 DEF Calm, CloseRowsKeep
<1>8. ClosersSound(p)'
  BY <1>3, IdleFits DEF ClosersSound
<1>9. proc[p].op = "move" => event'.torn
  <2>1. proc[p].op = "move" => proc[p].pc = "groups" /\ ~PostUndone(p)
    BY <1>1 DEF WellFormed, StepsOf, PostUndone
  <2> QED
    BY <1>5, <2>1 DEF Tears, Lost
<1>10. proc[p].op = "post" =>
         \/ event'.torn \/ proc[p].pc = "insert"
         \/ \A g \in proc[p].on : group'[g].state = "deleted"
  <2>1. \A g \in proc[p].on : g \in Groups
    BY <1>1 DEF TypeOK, Process
  <2> QED
    BY <1>5, <1>6, <2>1 DEF Tears, Lost
<1> QED
  BY <1>3, <1>7, <1>8, <1>9, <1>10, IdleFits DEF CalmOf

LEMMA PostStepsCalm ==
  ASSUME Closing, Sound', NEW h \in Handlers, PostSend(h) \/ PostLink(h) PROVE CalmOf({h})
<1>1. /\ Sound /\ TypeOK /\ h \in Procs /\ WellFormed(h) /\ proc[h] \in Process
      /\ proc[h].op = "post" /\ proc[h].pc \in {"send", "link"}
  BY HandlerIsProc DEF Closing, Sound, PostSend, PostLink, At, TypeOK
<1>2. PICK g \in Groups : proc[h].on = {g}
  BY <1>1 DEF WellFormed, Single
<1>3. On(h) = g
  BY <1>2, OnIs
<1>4. UNCHANGED <<now, event, row>> /\ (Goto(h, "link") \/ Goto(h, "schedule"))
  BY DEF PostSend, PostLink, Clock
<1>5. /\ \A q \in Procs \ {h} : proc'[q] = proc[q]
      /\ proc'[h].op = "post" /\ proc'[h].on = proc[h].on /\ proc'[h].at = proc[h].at
      /\ proc'[h].pc # "insert"
  <2>1. CASE Goto(h, "link")
    BY <1>1, <2>1 DEF Goto, TypeOK, Process
  <2>2. CASE Goto(h, "schedule")
    BY <1>1, <2>2 DEF Goto, TypeOK, Process
  <2> QED
    BY <1>4, <2>1, <2>2
<1>6. \/ group' = [group EXCEPT ![g] = [group[g] EXCEPT !.messages = @ + 1]]
      \/ group' = [group EXCEPT ![g] = [group[g] EXCEPT !.link = 1]]
  BY <1>3 DEF PostSend, PostLink
<1>7. FieldsKeep
  BY <1>1, <1>6, FieldsStay
<1>8. Calm
  BY <1>1, <1>4, <1>7, CalmSteps DEF CloseRowsKeep
<1> QED
  BY <1>1, <1>5, <1>8 DEF CalmOf, ClosersSound

LEMMA CloseNowCalm ==
  ASSUME Closing, Sound', NEW h \in Handlers, CloseNow(h) PROVE CalmOf({h})
<1>1. /\ Sound /\ TypeOK /\ h \in Procs /\ WellFormed(h) /\ ClosersSound(h)
      /\ proc[h].op = "close" /\ proc[h].pc = "write"
  BY HandlerIsProc DEF Closing, Sound, CloseNow, At
<1>2. PICK g \in Groups : proc[h].on = {g}
  BY <1>1 DEF WellFormed, Single
<1>3. On(h) = g /\ group[g] \in Group /\ group[g].state \in {"kept", "deleted"}
  BY <1>1, <1>2, OnIs DEF TypeOK, ClosersSound, Group
<1>4. UNCHANGED <<now, event, row>> /\ Goto(h, "mark")
  BY DEF CloseNow, Clock
<1>5. /\ \A q \in Procs \ {h} : proc'[q] = proc[q]
      /\ proc'[h].op = "close" /\ proc'[h].on = {g}
  BY <1>1, <1>2, <1>4, GoesOn
<1>6. /\ group'[g].closes = group[g].closes /\ group'[g].state = group[g].state
      /\ group[g].state = "kept" => group'[g].closed
      /\ \A f \in Groups \ {g} : group'[f] = group[f]
  BY <1>1, <1>3 DEF CloseNow, TypeOK, Group
<1>7. Calm
  BY <1>1, <1>4, <1>6, NowIsInt DEF Calm
<1>8. ClosersSound(h)'
  BY <1>3, <1>5, <1>6 DEF ClosersSound, Shut
<1> QED
  BY <1>1, <1>5, <1>7, <1>8 DEF CalmOf

LEMMA CloseMarkCalm ==
  ASSUME Closing, Sound', NEW h \in Handlers, CloseMark(h) PROVE CalmOf({h})
<1>1. /\ Sound /\ TypeOK /\ h \in Procs /\ WellFormed(h) /\ ClosersSound(h)
      /\ proc[h] \in Process /\ proc[h].op = "close" /\ proc[h].pc = "mark"
  BY HandlerIsProc DEF Closing, Sound, CloseMark, At, TypeOK
<1>2. PICK g \in Groups : proc[h].on = {g}
  BY <1>1 DEF WellFormed, Single
<1>3. On(h) = g /\ row[g] \in [Kinds -> Row] /\ "close" \in Kinds
  BY <1>1, <1>2, OnIs DEF TypeOK, Kinds
<1>4. UNCHANGED <<now, event, group>>
  BY DEF CloseMark, Clock
<1>5. /\ \A q \in Procs \ {h} : proc'[q] = proc[q]
      /\ proc'[h].op = "close" /\ proc'[h].on = {g}
  BY <1>1, <1>2 DEF CloseMark, TypeOK, Process
<1>6. group[g].state # "absent" /\ Shut(g) /\ Shut(g)'
  BY <1>1, <1>2, <1>4 DEF ClosersSound, Shut
<1>7. ASSUME NEW f \in Groups
      PROVE  /\ row'[f]["close"].status \in Live => row[f]["close"].status \in Live
             /\ f # g => row'[f] = row[f]
  <2>1. row' = [row EXCEPT ![g]["close"] = Retired(row[g]["close"], "completed")]
    BY <1>3 DEF CloseMark
  <2>2. Retired(row[g]["close"], "completed").status \notin Live
    BY <1>3, RetiredFits
  <2> QED
    BY <1>1, <1>3, <2>1, <2>2 DEF TypeOK
<1>8. Calm
  BY <1>1, <1>4, <1>6, <1>7, NowIsInt DEF Calm
<1>9. ClosersSound(h)'
  BY <1>4, <1>5, <1>6 DEF ClosersSound
<1> QED
  BY <1>1, <1>5, <1>8, <1>9 DEF CalmOf

LEMMA EndRetireCalm ==
  ASSUME Closing, Sound', NEW h \in Handlers, EndRetire(h) PROVE CalmOf({h})
<1>1. /\ Sound /\ TypeOK /\ h \in Procs /\ proc[h] \in Process
      /\ proc[h].op \in {"cancel", "complete"} /\ event.ended
  <2>1. proc[h].op \in {"cancel", "complete"}
    BY HandlerIsProc DEF Closing, Sound, TypeOK, EndRetire, WellFormed, StepsOf, Process
  <2> QED
    BY <2>1, HandlerIsProc DEF Closing, Sound, TypeOK, HandlerSound
<1>2. UNCHANGED <<now, event, group>>
  BY DEF EndRetire, Clock
<1>3. /\ \A q \in Procs \ {h} : proc'[q] = proc[q]
      /\ proc'[h].op = proc[h].op
  BY <1>1 DEF EndRetire, TypeOK, Process
<1>4. ASSUME NEW g \in Groups
      PROVE  row'[g]["close"].status \in Live => row[g]["close"].status \in Live
  <2>1. row[g]["close"] \in Row /\ "close" \in Kinds
    BY <1>1 DEF TypeOK, Kinds
  <2> QED
    BY <2>1, RetiredFits DEF EndRetire
<1>5. Calm
  BY <1>1, <1>2, <1>4, NowIsInt DEF Calm, Shut
<1> QED
  BY <1>1, <1>2, <1>3, <1>5 DEF CalmOf, ClosersSound

\* Commands begin calmly, but for a move.
LEMMA CommandCalm ==
  ASSUME Closing, Sound', NEW h \in Handlers, NEW op \in Ops, Command(h, op), proc'[h].op # "move"
  PROVE  CalmOf({h})
<1>1. /\ Sound /\ TypeOK /\ h \in Procs /\ proc[h] = Idle /\ proc[h].op = "none"
  BY HandlerIsProc, IdleFits DEF Closing, Sound, Command, WellFormed
<1>2. UNCHANGED <<now, group, row>>
  BY DEF Command, Edit, End, Refresh, Post, Close
<1>3. \A q \in Procs \ {h} : proc'[q] = proc[q]
  BY <1>1 DEF Command, Edit, End, Refresh, Post, Close, TypeOK
<1>4. /\ event'.starts = event.starts /\ event'.torn = event.torn
      /\ event.ended => event'.ended
      /\ End(h, op) => event'.ended
  <2>1. CASE Edit(h, op) /\ op = "move"
    <3>1. proc[h] \in Process /\ proc \in [Procs -> Process]
      BY <1>1 DEF TypeOK
    <3>2. proc' = [proc EXCEPT ![h].op = op, ![h].pc = "groups"]
      BY <2>1 DEF Edit
    <3>3. proc'[h].op = "move"
      BY <1>1, <2>1, <3>1, <3>2 DEF Process
    <3> QED
      BY <3>3
  <2>2. CASE Edit(h, op) /\ op # "move"
    <3>1. event \in Event /\ ~event.ended
      BY <1>1, <2>2 DEF Edit, TypeOK
    <3>2. event' = [event EXCEPT !.held = (op = "hold")]
      BY <2>2 DEF Edit
    <3>3. event'.starts = event.starts /\ event'.torn = event.torn
      BY <3>1, <3>2 DEF Event
    <3>4. End(h, op) => FALSE
      BY <2>2 DEF Edit, End
    <3> QED
      BY <3>1, <3>3, <3>4
  <2>3. CASE End(h, op)
    BY <1>1, <2>3 DEF End, TypeOK, Event
  <2>4. CASE Refresh(h, op) \/ Post(h, op) \/ Close(h, op)
    BY <2>4 DEF Refresh, Post, Close, End
  <2> QED
    BY <2>1, <2>2, <2>3, <2>4 DEF Command, Edit, End
<1>5. Calm
  BY <1>1, <1>2, <1>4, CalmSteps DEF FieldsKeep, CloseRowsKeep
<1>6. \/ proc'[h].op \in {"none", "refresh"}
      \/ proc'[h].op \in {"cancel", "complete"} /\ event'.ended
      \/ proc'[h].op = "post" /\ proc'[h].pc = "insert" /\ proc'[h].at = ClosesAt(event)
      \/ /\ proc'[h].op = "close" /\ proc'[h].pc = "write"
         /\ \E g \in Groups : proc'[h].on = {g} /\ group[g].state = "kept"
  <2>1. CASE Edit(h, op)
    <3>1. op # "move"
      BY <1>1, <2>1 DEF Edit, TypeOK, Process
    <3> QED
      BY <1>1, <2>1, <3>1 DEF Edit
  <2>2. CASE End(h, op)
    BY <1>1, <1>4, <2>2 DEF End, TypeOK, Process
  <2>3. CASE Refresh(h, op)
    BY <1>1, <2>3 DEF Refresh, TypeOK, Process
  <2>4. CASE Post(h, op)
    BY <1>1, <2>4, IdleFits DEF Post, TypeOK, Process
  <2>5. CASE Close(h, op)
    BY <1>1, <2>5, IdleFits DEF Close, TypeOK, Process
  <2> QED
    BY <2>1, <2>2, <2>3, <2>4, <2>5 DEF Command
<1>7. ClosersSound(h)'
  BY <1>2, <1>6 DEF ClosersSound
<1> QED
  BY <1>1, <1>3, <1>5, <1>6, <1>7 DEF CalmOf

\* Nobody but the command that acts moves or posts.
LEMMA Alone ==
  ASSUME OneHandler, NEW h \in Handlers
  PROVE  /\ Moving <=> proc[h].op = "move"
         /\ Moving' <=> proc'[h].op = "move"
         /\ \A g : Posting(g) <=> /\ proc[h].op = "post" /\ proc[h].on = {g}
                                  /\ proc[h].pc # "insert"
         /\ \A g : Posting(g)' <=> /\ proc'[h].op = "post" /\ proc'[h].on = {g}
                                   /\ proc'[h].pc # "insert"
         /\ (\A i \in Handlers : HandlerSound(i)') <=> HandlerSound(h)'
BY DEF OneHandler, Moving, Posting

LEMMA MoveBegins ==
  ASSUME OneHandler, Closing, Sound', NEW h \in Handlers, NEW op \in Ops, Command(h, op),
         proc'[h].op = "move"
  PROVE  Closing'
<1>1. /\ Sound /\ TypeOK /\ h \in Procs /\ proc[h] = Idle /\ proc[h].op = "none"
      /\ event \in Event
  BY HandlerIsProc, IdleFits DEF Closing, Sound, TypeOK, Command, WellFormed
<1>2. UNCHANGED <<group, row>>
  BY DEF Command, Edit, End, Refresh, Post, Close
<1>3. \A q \in Procs \ {h} : proc'[q] = proc[q]
  BY <1>1 DEF Command, Edit, End, Refresh, Post, Close, TypeOK
<1>4. event'.ended = event.ended
  <2>1. Edit(h, op)
    <3>1. ~End(h, op)
      BY <1>1 DEF End, TypeOK, Process
    <3>2. ~Refresh(h, op)
      BY <1>1 DEF Refresh, TypeOK, Process
    <3>3. ~Post(h, op)
      BY <1>1 DEF Post, TypeOK, Idle
    <3>4. ~Close(h, op)
      BY <1>1 DEF Close, TypeOK, Idle
    <3> QED
      BY <3>1, <3>2, <3>3, <3>4 DEF Command
  <2>2. \E s : event' = [event EXCEPT !.starts = s] \/ event' = [event EXCEPT !.held = s]
    BY <2>1 DEF Edit
  <2> QED
    BY <1>1, <2>2 DEF Event
<1>5. ASSUME NEW p \in Procs PROVE ClosersSound(p)'
  BY <1>2, <1>3, <1>4 DEF Closing, ClosersSound, Shut
<1>6. \A g \in Groups : RowOfGroup(g)' /\ CloseWatched(g)'
  BY <1>2 DEF Closing, RowOfGroup, CloseWatched, Moving
<1>7. HandlerSound(h)'
  BY DEF HandlerSound
<1> QED
  BY <1>5, <1>6, <1>7, Alone DEF Closing

LEMMA MoveEnds ==
  ASSUME OneHandler, Closing, Sound', NEW h \in Handlers, MoveGroups(h) PROVE Closing'
<1>1. /\ Sound /\ TypeOK /\ h \in Procs /\ event \in Event
      /\ ClosesAt(event) \in Int /\ Later(ClosesAt(event)) \in Int /\ now \in Int
  BY HandlerIsProc, NowIsInt, EventTimes DEF Closing, Sound, TypeOK
<1>2. UNCHANGED now /\ Stop(h) /\ event' = [event EXCEPT !.torn = FALSE]
  BY DEF MoveGroups, Clock
<1>3. event'.ended = event.ended /\ ClosesAt(event)' = ClosesAt(event)
  BY <1>1, <1>2 DEF Event, ClosesAt
<1>4. /\ \A q \in Procs \ {h} : proc'[q] = proc[q]
      /\ proc'[h] = Idle
  BY <1>1, <1>2, Rests
<1>5. ASSUME NEW g \in Groups
      PROVE  /\ group'[g].state = group[g].state /\ group'[g].closed = group[g].closed
             /\ Moves(g) => group'[g].closes = ClosesAt(event)
             /\ row'[g]["close"] = IF Moves(g) THEN Armed(Later(ClosesAt(event)))
                                   ELSE row[g]["close"]
  BY <1>1 DEF MoveGroups, TypeOK, Group
<1>6. ASSUME NEW p \in Procs PROVE ClosersSound(p)'
  <2>1. CASE p = h
    BY <1>4, <2>1, IdleFits DEF ClosersSound
  <2>2. CASE p # h
    <3>1. proc'[p] = proc[p] /\ ClosersSound(p) /\ \A g \in proc[p].on : g \in Groups
      BY <1>1, <1>4, <2>2 DEF Closing, TypeOK, Process
    <3> QED
      BY <1>3, <1>5, <3>1 DEF ClosersSound, Shut
  <2> QED
    BY <2>1, <2>2
<1>7. HandlerSound(h)'
  BY <1>4, IdleFits DEF HandlerSound
<1>8. ASSUME NEW g \in Groups PROVE RowOfGroup(g)'
  BY <1>5 DEF Closing, RowOfGroup, Moves
<1>9. ASSUME NEW g \in Groups, group'[g].state = "kept", ~Shut(g)' PROVE CloseDue(g)'
  <2>1. Moves(g)
    BY <1>5, <1>9 DEF Moves, Shut
  <2>2. /\ row'[g]["close"].status \in Live
        /\ row'[g]["close"].due = Later(ClosesAt(event))
    BY <1>1, <1>5, <2>1, ArmedFits DEF Live
  <2> QED
    BY <1>1, <1>2, <1>3, <1>5, <2>1, <2>2 DEF CloseDue, Later
<1> QED
  BY <1>6, <1>7, <1>8, <1>9, Alone DEF Closing, CloseWatched

LEMMA PostBegins ==
  ASSUME OneHandler, Closing, Sound', NEW h \in Handlers, PostInsert(h) PROVE Closing'
<1>1. /\ Sound /\ TypeOK /\ h \in Procs /\ WellFormed(h) /\ Knows(h) /\ HandlerSound(h)
      /\ proc[h].op = "post" /\ proc[h].pc = "insert" /\ proc[h] \in Process
  BY HandlerIsProc DEF Closing, Sound, PostInsert, At, TypeOK
<1>2. PICK g \in Groups : proc[h].on = {g}
  BY <1>1 DEF WellFormed, Single
<1>3. On(h) = g /\ group[g] \in Group /\ group[g].state = "absent"
  BY <1>1, <1>2, OnIs DEF TypeOK, Knows
<1>4. UNCHANGED <<now, event, row>>
  BY DEF PostInsert, Clock
<1>5. /\ \A q \in Procs \ {h} : proc'[q] = proc[q]
      /\ proc'[h].op = "post" /\ proc'[h].on = {g} /\ proc'[h].at = proc[h].at
      /\ proc'[h].pc = "send"
  BY <1>1, <1>2 DEF PostInsert, Goto, TypeOK, Process
<1>6. /\ group'[g].state = "kept" /\ group'[g].closes = proc[h].at
      /\ \A f \in Groups \ {g} : group'[f] = group[f]
  BY <1>1, <1>3 DEF PostInsert, TypeOK, Group
<1>7. ASSUME NEW p \in Procs PROVE ClosersSound(p)'
  <2>1. CASE p = h
    BY <1>5, <2>1 DEF ClosersSound
  <2>2. CASE p # h
    <3>1. proc'[p] = proc[p] /\ ClosersSound(p) /\ \A f \in proc[p].on : f \in Groups
      BY <1>1, <1>5, <2>2 DEF Closing, TypeOK, Process
    <3> QED
      BY <1>3, <1>4, <1>6, <3>1 DEF ClosersSound, Shut
  <2> QED
    BY <2>1, <2>2
<1>8. HandlerSound(h)'
  BY <1>1, <1>4, <1>5, <1>6 DEF HandlerSound
<1>9. ASSUME NEW f \in Groups PROVE RowOfGroup(f)' /\ CloseWatched(f)'
  <2>1. CASE f = g
    BY <1>5, <1>6, <2>1, Alone DEF RowOfGroup, CloseWatched
  <2>2. CASE f # g
    <3>1. ~Moving /\ ~Posting(f)
      BY <1>1, Alone
    <3> QED
      BY <1>4, <1>6, <2>2, <3>1 DEF Closing, RowOfGroup, CloseWatched, CloseDue, Shut
  <2> QED
    BY <2>1, <2>2
<1> QED
  BY <1>7, <1>8, <1>9, Alone DEF Closing

LEMMA PostEnds ==
  ASSUME OneHandler, Closing, Sound', NEW h \in Handlers, PostSchedule(h) PROVE Closing'
<1>1. /\ Sound /\ TypeOK /\ h \in Procs /\ WellFormed(h) /\ Knows(h) /\ HandlerSound(h)
      /\ proc[h].op = "post" /\ proc[h].pc = "schedule" /\ proc[h] \in Process
  BY HandlerIsProc DEF Closing, Sound, PostSchedule, At, TypeOK
<1>2. PICK g \in Groups : proc[h].on = {g}
  BY <1>1 DEF WellFormed, Single
<1>3. /\ On(h) = g /\ group[g].state = "kept" /\ proc[h].at \in Int
      /\ proc[h].at = ClosesAt(event) /\ group[g].closes = ClosesAt(event)
      /\ row[g] \in [Kinds -> Row] /\ "close" \in Kinds
  BY <1>1, <1>2, OnIs DEF TypeOK, Knows, HandlerSound, Process, Kinds
<1>4. UNCHANGED <<now, event, group>> /\ Stop(h)
  BY DEF PostSchedule, Clock
<1>5. /\ \A q \in Procs \ {h} : proc'[q] = proc[q]
      /\ proc'[h] = Idle
  BY <1>1, <1>4, Rests
<1>6. /\ row'[g]["close"] = Armed(proc[h].at)
      /\ \A f \in Groups \ {g} : row'[f] = row[f]
  <2>1. row' = [row EXCEPT ![g]["close"] = Armed(proc[h].at)]
    BY <1>3 DEF PostSchedule
  <2> QED
    BY <1>1, <1>3, <2>1 DEF TypeOK
<1>7. row'[g]["close"].status \in Live /\ row'[g]["close"].due = group[g].closes
  BY <1>3, <1>6, ArmedFits DEF Live
<1>8. ASSUME NEW p \in Procs PROVE ClosersSound(p)'
  <2>1. CASE p = h
    BY <1>5, <2>1, IdleFits DEF ClosersSound
  <2>2. CASE p # h
    BY <1>4, <1>5, <2>2 DEF Closing, ClosersSound, Shut
  <2> QED
    BY <2>1, <2>2
<1>9. HandlerSound(h)'
  BY <1>5, IdleFits DEF HandlerSound
<1>10. ASSUME NEW f \in Groups PROVE RowOfGroup(f)' /\ CloseWatched(f)'
  <2>1. CASE f = g
    BY <1>3, <1>4, <1>7, <2>1 DEF RowOfGroup, CloseWatched, CloseDue
  <2>2. CASE f # g
    <3>1. ~Moving /\ ~Posting(f)
      BY <1>1, <1>2, <2>2, Alone
    <3> QED
      BY <1>4, <1>6, <2>2, <3>1 DEF Closing, RowOfGroup, CloseWatched, CloseDue, Shut
  <2> QED
    BY <2>1, <2>2
<1> QED
  BY <1>8, <1>9, <1>10, Alone DEF Closing

LEMMA ClosingNext == ASSUME OneHandler, Closing, [Next]_vars PROVE Closing'
<1>1. Sound'
  BY SoundNext DEF Closing
<1>2. CASE UNCHANGED vars \/ Tick \/ Publish \/ (\E g \in Groups : DeleteMessage(g))
           \/ (\E w \in Workers : Stale(w))
  BY <1>1, <1>2, WorldCalm, CalmKeeps
<1>3. ASSUME NEW w \in Workers, Schedules(w) PROVE Closing'
  <2>1. w \in Procs
    BY WorkerIsProc
  <2>2. CalmOf({w})
    BY <1>1, <1>3, <2>1, OpenStepsCalm, ClaimCalm, RefreshCalm, CloseStepsCalm, SettleCalm
       DEF Schedules
  <2> QED
    BY <1>1, <2>1, <2>2, CalmKeeps
<1>4. ASSUME NEW h \in Handlers, Handles(h) PROVE Closing'
  <2>1. h \in Procs
    BY HandlerIsProc
  <2>2. CASE MoveGroups(h) \/ PostInsert(h) \/ PostSchedule(h)
    BY <1>1, <2>2, MoveEnds, PostBegins, PostEnds
  <2>3. CASE ~(MoveGroups(h) \/ PostInsert(h) \/ PostSchedule(h))
    <3>1. CalmOf({h})
      BY <1>1, <1>4, <2>1, <2>3, RefreshCalm, PostStepsCalm, CloseNowCalm, CloseMarkCalm,
         EndRetireCalm DEF Handles
    <3> QED
      BY <1>1, <2>1, <3>1, CalmKeeps
  <2> QED
    BY <2>2, <2>3
<1>5. ASSUME NEW h \in Handlers, NEW op \in Ops, Command(h, op) PROVE Closing'
  <2>1. CASE proc'[h].op = "move"
    BY <1>1, <1>5, <2>1, MoveBegins
  <2>2. CASE proc'[h].op # "move"
    BY <1>1, <1>5, <2>2, CommandCalm, CalmKeeps, HandlerIsProc
  <2> QED
    BY <2>1, <2>2
<1>6. ASSUME NEW p \in Procs, Lost(p) PROVE Closing'
  BY <1>1, <1>6, LostCalm, CalmKeeps
<1> QED
  BY <1>2, <1>3, <1>4, <1>5, <1>6 DEF Next

LEMMA InitClosing == Init => Closing
<1> SUFFICES ASSUME Init PROVE Closing
  OBVIOUS
<1>1. Sound /\ event \in Event /\ ClosesAt(event) \in Int
  BY InitSound, EventTimes DEF Sound, TypeOK
<1>2. \A p \in Procs : proc[p].op = "none"
  BY IdleFits DEF Init
<1>3. ASSUME NEW g \in Groups
      PROVE  RowOfGroup(g) /\ (group[g].state = "kept" => CloseDue(g))
  <2>1. CASE group[g] = Absent
    BY <2>1 DEF Init, Absent, Kinds, NoRow, Live, RowOfGroup
  <2>2. CASE group[g] = Planned(event)
    <3>1. /\ group[g].planned /\ group[g].state = "kept" /\ group[g].closes = ClosesAt(event)
      BY <2>2 DEF Planned, Absent
    <3>2. row[g]["close"] = Armed(ClosesAt(event))
      BY <3>1 DEF Init
    <3> QED
      BY <1>1, <3>1, <3>2, ArmedFits DEF RowOfGroup, CloseDue, Live
  <2> QED
    BY <2>1, <2>2 DEF Init
<1> QED
  BY <1>1, <1>2, <1>3, HandlerIsProc DEF Closing, ClosersSound, HandlerSound, CloseWatched

LEMMA AlwaysClosing == ASSUME OneHandler PROVE Spec => []Closing
<1>1. Closing /\ [Next]_vars => Closing'
  BY ClosingNext
<1>2. Init => Closing
  BY InitClosing
<1> QED
  BY <1>1, <1>2, PTL DEF Spec

\* While one command at a time is under way, the closing time of an open group
\* follows the start, and a live row is there to close it then, or at once:
\* rescheduleRoleRequestGroupsForEventStart leaves none behind, a post schedules
\* its own, and executors complete only the rows of groups that are shut.
THEOREM ClosingWatched == ASSUME OneHandler PROVE Spec => []ClosingIsWatched
<1>1. Closing => ClosingIsWatched
  <2> SUFFICES ASSUME Closing, Quiet, ~event.torn, ~event.ended,
                      NEW g \in Groups, group[g].state = "kept", ~group[g].closed
               PROVE  CloseDue(g)
    BY DEF ClosingIsWatched, CloseDue
  <2>1. ~Moving /\ ~Posting(g)
    <3>1. \A h \in Handlers : proc[h] = Idle
      BY HandlerIsProc DEF Closing, Sound, WellFormed, Quiet
    <3> QED
      BY <3>1, IdleFits DEF Moving, Posting
  <2> QED
    BY <2>1 DEF Closing, CloseWatched, Shut
<1> QED
  BY <1>1, AlwaysClosing, PTL

-----------------------------------------------------------------------------
(* Openings, with one scheduler and no command that edits only the         *)
(* publication schedule: the open row of a group that waits for it is due, *)
(* or parked for something that will wake it, or a worker runs it that     *)
(* will not forget it.                                                     *)

OneWorker == \A v, w \in Workers : v = w

Waiting(g) ==
  /\ group[g].planned /\ group[g].link = 0 /\ ~group[g].closed
  /\ ~event.ended /\ group[g].closes > now

\* A row may be parked until t: until it opens, or until publication wakes it.
Parkable(g, t) ==
  t <= now \/ t <= group[g].opens \/ (group[g].opens <= now /\ Awaiting(event))

OpenRowDue(g) == row[g]["open"].status = "pending" /\ Parkable(g, row[g]["open"].due)

Runs(w, g) ==
  /\ proc[w].op = "open" /\ proc[w].on = {g}
  /\ row[g]["open"].status = "processing" /\ row[g]["open"].attempt = proc[w].attempt

OpenRuns(g) ==
  /\ row[g]["open"].due <= now
  /\ \E w \in Workers : /\ Runs(w, g) /\ proc[w].pc # "done"
                        /\ proc[w].pc = "requeue" => Parkable(g, proc[w].at)

OpenWatched(g) ==
  Waiting(g) /\ ~event.torn /\ ~Moving => OpenRowDue(g) \/ OpenRuns(g)

EndsSound(h) == proc[h].op \in {"cancel", "complete"} => event.ended

Openings ==
  /\ Sound
  /\ \A h \in Handlers : EndsSound(h)
  /\ \A g \in Groups : OpenWatched(g)

\* Steps other than a move neither change the times of a planned group, nor
\* open or reopen one.
GroupsCalm ==
  \A g \in Groups : group[g].planned =>
    /\ group'[g].opens = group[g].opens /\ group'[g].closes = group[g].closes
    /\ group[g].closed => group'[g].closed

EventCalm ==
  /\ now <= now'
  /\ event.ended => event'.ended
  /\ event.torn => event'.torn

MoversCalm ==
  \A h \in Handlers :
    /\ proc[h].op = "move" => proc'[h].op = "move" \/ event'.torn
    /\ proc'[h].op \in {"cancel", "complete"} => event'.ended

LEMMA PlannedKeeps ==
  ASSUME Sound, [Next]_vars, NEW g \in Groups
  PROVE  /\ group'[g].planned = group[g].planned
         /\ group[g].planned /\ group[g].link # 0 => group'[g].link # 0
<1>1. CASE World
  BY <1>1 DEF World
<1>2. ASSUME NEW p \in Procs, Turn(p)
      PROVE  /\ group'[g].planned = group[g].planned
             /\ group[g].planned /\ group[g].link # 0 => group'[g].link # 0
  <2>1. group[g].link \in Nat /\ Knows(p)
    BY DEF Sound, TypeOK, Group
  <2>2. proc[p].on = {g} /\ proc[p].op = "post" => ~group[g].planned
    BY <2>1 DEF Knows
  <2> QED
    BY <1>2, <2>1, <2>2 DEF Turn, GroupMoves
<1> QED
  BY <1>1, <1>2, NextTurns

LEMMA WatchedOpens ==
  ASSUME Openings, [Next]_vars, GroupsCalm, EventCalm, MoversCalm,
         \A g \in Groups :
           Waiting(g) /\ Waiting(g)' /\ (OpenRowDue(g) \/ OpenRuns(g)) =>
             OpenRowDue(g)' \/ OpenRuns(g)'
  PROVE  Openings'
<1>1. Sound /\ Sound'
  BY SoundNext DEF Openings
<1>2. \A h \in Handlers : EndsSound(h)'
  BY DEF MoversCalm, EndsSound
<1>3. Moving => Moving' \/ event'.torn
  BY DEF Moving, MoversCalm
<1>4. ASSUME NEW g \in Groups, Waiting(g)' PROVE Waiting(g)
  <2>1. group[g].planned /\ group[g].link = 0
    BY <1>1, <1>4, PlannedKeeps DEF Waiting
  <2>2. now \in Int /\ now' \in Int /\ group[g].closes \in Int
    BY <1>1, NowIsInt, BoundsAssumption DEF Sound, TypeOK, Times, Group
  <2> QED
    BY <1>4, <2>1, <2>2 DEF Waiting, GroupsCalm, EventCalm
<1>5. ASSUME NEW g \in Groups PROVE OpenWatched(g)'
  BY <1>3, <1>4 DEF Openings, OpenWatched, EventCalm
<1> QED
  BY <1>1, <1>2, <1>5 DEF Openings

LEMMA ParkableStays ==
  ASSUME Sound, Sound', GroupsCalm, EventCalm, Awaiting(event) => Awaiting(event)',
         NEW g \in Groups, group[g].planned, NEW t \in Int, Parkable(g, t)
  PROVE  Parkable(g, t)'
<1>1. now \in Int /\ now' \in Int /\ group[g].opens \in Int
  BY NowIsInt, BoundsAssumption DEF Sound, TypeOK, Times, Group
<1>2. group'[g].opens = group[g].opens /\ now <= now'
  BY DEF GroupsCalm, EventCalm
<1> QED
  BY <1>1, <1>2 DEF Parkable

\* Nobody touches the opening of the group.
LEMMA Untouched ==
  ASSUME Sound, Sound', GroupsCalm, EventCalm, Awaiting(event) => Awaiting(event)',
         NEW g \in Groups, group[g].planned, row'[g]["open"] = row[g]["open"],
         \A w \in Workers : Runs(w, g) => proc'[w] = proc[w],
         OpenRowDue(g) \/ OpenRuns(g)
  PROVE  OpenRowDue(g)' \/ OpenRuns(g)'
<1>1. now \in Int /\ now' \in Int /\ row[g]["open"].due \in Int
  <2>1. row[g]["open"] \in Row
    BY DEF Sound, TypeOK, Kinds
  <2> QED
    BY <2>1, NowIsInt, BoundsAssumption DEF Sound, TypeOK, Times, Row
<1>2. CASE OpenRowDue(g)
  BY <1>1, <1>2, ParkableStays DEF OpenRowDue
<1>3. CASE OpenRuns(g)
  <2>1. PICK w \in Workers : /\ Runs(w, g) /\ proc[w].pc # "done"
                             /\ proc[w].pc = "requeue" => Parkable(g, proc[w].at)
    BY <1>3 DEF OpenRuns
  <2>2. proc'[w] = proc[w] /\ proc[w].at \in Int
    BY <2>1, WorkerIsProc DEF Sound, TypeOK, Process
  <2>3. proc[w].pc = "requeue" => Parkable(g, proc[w].at)'
    BY <2>1, <2>2, ParkableStays
  <2>4. proc'[w].pc = "requeue" => Parkable(g, proc[w].at)'
    BY <2>2, <2>3
  <2>5. Runs(w, g)' /\ proc'[w].pc # "done"
    BY <2>1, <2>2 DEF Runs
  <2>6. row'[g]["open"].due <= now'
    BY <1>1, <1>3 DEF OpenRuns, EventCalm
  <2>7. (proc[w].pc = "requeue" => Parkable(g, proc[w].at))'
    BY <2>2, <2>4 DEF Parkable
  <2> QED
    BY <2>5, <2>6, <2>7 DEF OpenRuns
<1> QED
  BY <1>2, <1>3

LEMMA OneGroupCalm ==
  ASSUME TypeOK, NEW g \in Groups, NEW r, group' = [group EXCEPT ![g] = r],
         group[g].planned =>
           /\ r.opens = group[g].opens /\ r.closes = group[g].closes
           /\ group[g].closed => r.closed
  PROVE  GroupsCalm
BY DEF TypeOK, GroupsCalm

LEMMA NoGroupCalm == ASSUME UNCHANGED group PROVE GroupsCalm
BY DEF GroupsCalm

LEMMA FieldsCalm == ASSUME FieldsKeep PROVE GroupsCalm
BY DEF FieldsKeep, GroupsCalm

\* Time, publication, stale recovery, a message deleted by hand.
LEMMA ClockCalm ==
  ASSUME Sound, Sound', now' = now \/ now' = now + 1, event' = event PROVE EventCalm
BY NowIsInt DEF Sound, EventCalm

LEMMA StillCalm ==
  ASSUME Openings, EventCalm, UNCHANGED proc PROVE MoversCalm
BY DEF Openings, EndsSound, EventCalm, MoversCalm

LEMMA ClockOpens ==
  ASSUME Openings, [Next]_vars, UNCHANGED vars \/ Tick \/ (\E g \in Groups : DeleteMessage(g))
  PROVE  Openings'
<1>1. Sound /\ Sound' /\ TypeOK
  BY SoundNext DEF Openings, Sound
<1>2. UNCHANGED <<event, row, proc>> /\ (now' = now \/ now' = now + 1)
  BY DEF vars, Tick, DeleteMessage
<1>3. EventCalm /\ MoversCalm
  BY <1>1, <1>2, ClockCalm, StillCalm
<1>4. GroupsCalm
  <2>1. CASE UNCHANGED group
    BY <2>1, NoGroupCalm
  <2>2. ASSUME NEW g \in Groups, DeleteMessage(g) PROVE GroupsCalm
    <3>1. group[g] \in Group /\ group' = [group EXCEPT ![g] = [group[g] EXCEPT !.gone = TRUE, !.messages = @ - 1]]
      BY <1>1, <2>2 DEF DeleteMessage, TypeOK
    <3> QED
      BY <1>1, <3>1, OneGroupCalm DEF Group
  <2> QED
    BY <2>1, <2>2 DEF vars, Tick
<1>5. Awaiting(event) => Awaiting(event)'
  <2>1. now \in Int /\ PublishesAt(event) \in Int
    BY <1>1, NowIsInt, EventTimes DEF TypeOK
  <2> QED
    BY <1>2, <2>1 DEF Awaiting, PublishesAt
<1> QED
  BY <1>1, <1>2, <1>3, <1>4, <1>5, Untouched, WatchedOpens DEF Waiting

LEMMA PublishOpens == ASSUME Openings, [Next]_vars, Publish PROVE Openings'
<1>1. Sound /\ Sound' /\ TypeOK /\ event \in Event /\ now \in Int
  BY SoundNext, NowIsInt DEF Openings, Sound, TypeOK
<1>2. /\ event' = [event EXCEPT !.published = TRUE] /\ UNCHANGED <<now, group, proc>>
  BY DEF Publish, Clock
<1>3. EventCalm
  BY <1>1, <1>2 DEF EventCalm, Event
<1>4. GroupsCalm /\ MoversCalm
  BY <1>2, <1>3, NoGroupCalm, StillCalm
<1>5. ASSUME NEW g \in Groups, Waiting(g), OpenRowDue(g) \/ OpenRuns(g)
      PROVE  OpenRowDue(g)' \/ OpenRuns(g)'
  <2>1. /\ row[g] \in [Kinds -> Row] /\ "open" \in Kinds /\ group[g].opens \in Int
        /\ row[g]["open"].status \in Live
    BY <1>1, <1>5 DEF TypeOK, Kinds, Group, OpenRowDue, OpenRuns, Runs, Live
  <2>2. CASE group[g].opens <= now
    <3>1. row'[g]["open"] = Armed(now)
      BY <1>1, <1>5, <2>1, <2>2 DEF Publish, Waiting, Resumed
    <3> QED
      BY <1>1, <1>2, <3>1, ArmedFits DEF OpenRowDue, Parkable
  <2>3. CASE ~(group[g].opens <= now)
    <3>1. row'[g] = row[g]
      BY <1>1, <2>1, <2>3 DEF Publish
    <3>2. \A t : Parkable(g, t) => Parkable(g, t)'
      BY <1>2, <2>3 DEF Parkable
    <3>3. CASE OpenRowDue(g)
      BY <1>2, <3>1, <3>3, <2>3 DEF OpenRowDue, Parkable
    <3>4. CASE OpenRuns(g)
      BY <1>2, <3>1, <3>4, <2>3 DEF OpenRuns, Parkable, Runs
    <3> QED
      BY <1>5, <3>3, <3>4
  <2> QED
    BY <2>2, <2>3
<1> QED
  BY <1>3, <1>4, <1>5, WatchedOpens

\* A row that a worker is running is given back as it was.
LEMMA GivenBackOpens ==
  ASSUME Openings, Sound', GroupsCalm, EventCalm, Awaiting(event) => Awaiting(event)',
         NEW w \in Workers, proc[w].pc # "idle", Owns(w),
         Becomes(w, [Mine(w) EXCEPT !.status = "pending"]),
         \A v \in Workers \ {w} : proc'[v] = proc[v],
         NEW g \in Groups, Waiting(g), OpenRowDue(g) \/ OpenRuns(g)
  PROVE  OpenRowDue(g)' \/ OpenRuns(g)'
<1>1. PICK f \in Groups : proc[w].on = {f} /\ On(w) = f
  BY MineFits DEF Openings
<1>2. /\ Sound /\ TypeOK /\ proc[w].op \in {"open", "close"} /\ row[f][proc[w].op] \in Row
      /\ row[g] \in [Kinds -> Row] /\ row[f] \in [Kinds -> Row] /\ "open" \in Kinds
      /\ "close" \in Kinds
  BY MineFits DEF Openings, Sound, TypeOK, Kinds
<1> DEFINE r == [row[f][proc[w].op] EXCEPT !.status = "pending"]
<1>3. row' = [row EXCEPT ![f][proc[w].op] = r] /\ row[f][proc[w].op].status = "processing"
  BY <1>1 DEF Becomes, Mine, Owns
<1>4. r.due = row[f][proc[w].op].due /\ r.status = "pending"
  BY <1>2 DEF Row, Live
<1> HIDE DEF r
<1>5. CASE proc[w].op = "open" /\ f = g
  <2>1. row'[g]["open"] = r
    BY <1>2, <1>3, <1>5 DEF TypeOK
  <2>2. row[g]["open"].due <= now
    BY <1>3, <1>5 DEF OpenRowDue, OpenRuns
  <2>3. row'[g]["open"].due <= now'
    BY <1>2, <1>4, <1>5, <2>1, <2>2, NowIsInt, BoundsAssumption
       DEF EventCalm, Sound, TypeOK, Times, Row
  <2> QED
    BY <1>4, <2>1, <2>3 DEF OpenRowDue, Parkable
<1>6. CASE ~(proc[w].op = "open" /\ f = g)
  <2>1. row'[g]["open"] = row[g]["open"]
    BY <1>2, <1>3, <1>6 DEF TypeOK
  <2>2. ASSUME NEW v \in Workers, Runs(v, g) PROVE proc'[v] = proc[v]
    <3>1. v # w
      BY <1>1, <1>6, <2>2 DEF Runs
    <3> QED
      BY <3>1
  <2> QED
    BY <1>2, <2>1, <2>2, Untouched DEF Waiting
<1> QED
  BY <1>5, <1>6

LEMMA StaleOpens ==
  ASSUME Openings, [Next]_vars, NEW w \in Workers, Stale(w) PROVE Openings'
<1>1. Sound /\ Sound' /\ proc[w].pc # "idle"
  BY SoundNext DEF Openings, Stale
<1>2. UNCHANGED <<now, event, group, proc>>
  BY DEF Stale
<1>3. EventCalm /\ GroupsCalm /\ MoversCalm
  BY <1>1, <1>2, ClockCalm, NoGroupCalm, StillCalm
<1>4. Awaiting(event) => Awaiting(event)'
  BY <1>2 DEF Awaiting
<1>5. Owns(w) /\ Becomes(w, [Mine(w) EXCEPT !.status = "pending"])
  BY DEF Stale
<1> QED
  BY <1>1, <1>2, <1>3, <1>4, <1>5, GivenBackOpens, WatchedOpens

\* A step of a worker that writes neither the time nor the event.
LEMMA WorkerCalm ==
  ASSUME Openings, Sound', NEW w \in Workers, UNCHANGED <<now, event>>,
         \A q \in Procs \ {w} : proc'[q] = proc[q]
  PROVE  EventCalm /\ MoversCalm /\ (Awaiting(event) => Awaiting(event)')
<1>1. Sound /\ \A h \in Handlers : proc'[h] = proc[h]
  BY WorkerIsProc, HandlerIsProc DEF Openings
<1>2. EventCalm
  BY <1>1, ClockCalm DEF Openings
<1>3. MoversCalm
  BY <1>1, <1>2 DEF Openings, MoversCalm, EndsSound, EventCalm
<1>4. Awaiting(event) => Awaiting(event)'
  BY DEF Awaiting
<1> QED
  BY <1>2, <1>3, <1>4

\* Those that do not open a group.
LEMMA ElsewhereOpens ==
  ASSUME Openings, [Next]_vars, NEW w \in Workers, UNCHANGED <<now, event>>, GroupsCalm,
         \A q \in Procs \ {w} : proc'[q] = proc[q], proc[w].op # "open",
         \A g \in Groups : row'[g]["open"] = row[g]["open"]
  PROVE  Openings'
<1>1. Sound /\ Sound' /\ \A v \in Workers \ {w} : proc'[v] = proc[v]
  BY SoundNext, WorkerIsProc DEF Openings
<1>2. EventCalm /\ MoversCalm /\ (Awaiting(event) => Awaiting(event)')
  BY <1>1, WorkerCalm
<1>3. ASSUME NEW g \in Groups, Waiting(g), OpenRowDue(g) \/ OpenRuns(g)
      PROVE  OpenRowDue(g)' \/ OpenRuns(g)'
  <2>1. \A v \in Workers : Runs(v, g) => proc'[v] = proc[v]
    BY <1>1 DEF Runs
  <2> QED
    BY <1>1, <1>2, <1>3, <2>1, Untouched DEF Waiting
<1> QED
  BY <1>2, <1>3, WatchedOpens

LEMMA CloseOpens ==
  ASSUME Openings, [Next]_vars, NEW w \in Workers,
         \/ CloseLoad(w) \/ CloseWrite(w) \/ RefreshNext(w) \/ RefreshEdit(w) \/ RefreshSwap(w)
  PROVE  Openings'
<1>1. /\ Sound /\ TypeOK /\ WellFormed(w) /\ w \in Procs /\ proc[w].op \in {"none", "open", "close"}
  BY WorkerIsProc DEF Openings, Sound, WellFormed
<1>2. UNCHANGED <<now, event, row>>
  BY DEF CloseLoad, CloseWrite, RefreshNext, RefreshEdit, RefreshSwap, Clock
<1>3. proc[w].op = "close"
  BY <1>1 DEF CloseLoad, CloseWrite, RefreshNext, RefreshEdit, RefreshSwap, At, WellFormed,
              StepsOf
<1>4. \A q \in Procs \ {w} : proc'[q] = proc[q]
  BY <1>1 DEF CloseLoad, CloseWrite, RefreshNext, RefreshEdit, RefreshSwap, Goto, Stop, TypeOK
<1>5. GroupsCalm
  <2>1. CASE RefreshNext(w) \/ RefreshEdit(w) \/ RefreshSwap(w)
    BY <1>1, <2>1, RefreshFields, FieldsCalm
  <2>2. CASE UNCHANGED group
    BY <2>2, NoGroupCalm
  <2>3. CASE CloseWrite(w) /\ group' # group
    <3>1. PICK g \in Groups : proc[w].on = {g}
      BY <1>1, <1>3 DEF WellFormed, Single
    <3>2. group[g] \in Group /\ group' = [group EXCEPT ![g] = [group[g] EXCEPT !.closed = TRUE]]
      BY <1>1, <2>3, <3>1, OnIs DEF CloseWrite, TypeOK
    <3> QED
      BY <1>1, <3>2, OneGroupCalm DEF Group
  <2> QED
    BY <2>1, <2>2, <2>3 DEF CloseLoad
<1> QED
  BY <1>2, <1>3, <1>4, <1>5, ElsewhereOpens

LEMMA ClaimOpens ==
  ASSUME Openings, [Next]_vars, NEW w \in Workers, NEW g \in Groups, NEW k \in Kinds,
         Claim(w, g, k)
  PROVE  Openings'
<1>1. /\ Sound /\ Sound' /\ TypeOK /\ w \in Procs /\ proc[w] = Idle /\ proc[w].op = "none"
      /\ row[g][k] \in Row /\ now \in Int
  BY SoundNext, WorkerIsProc, IdleFits, NowIsInt DEF Openings, Sound, WellFormed, Claim, TypeOK
<1>2. UNCHANGED <<now, event, group>> /\ GroupsCalm
  BY NoGroupCalm DEF Claim, Clock
<1>3. /\ \A q \in Procs \ {w} : proc'[q] = proc[q]
      /\ proc'[w].op = k /\ proc'[w].on = {g} /\ proc'[w].pc = "load"
      /\ proc'[w].attempt = row[g][k].attempt + 1
  BY <1>1 DEF Claim, TypeOK, Idle
<1>4. row' = [row EXCEPT ![g][k] = [row[g][k] EXCEPT !.status = "processing", !.attempt = @ + 1]]
  BY <1>1 DEF Claim, TypeOK
<1>5. CASE k = "close"
  <2>1. \A f \in Groups : row'[f]["open"] = row[f]["open"]
    BY <1>1, <1>4, <1>5 DEF TypeOK, Kinds
  <2> QED
    BY <1>1, <1>2, <1>3, <2>1, ElsewhereOpens
<1>6. CASE k = "open"
  <2>1. EventCalm /\ MoversCalm /\ (Awaiting(event) => Awaiting(event)')
    BY <1>1, <1>2, <1>3, WorkerCalm
  <2>2. ASSUME NEW f \in Groups, Waiting(f), OpenRowDue(f) \/ OpenRuns(f)
        PROVE  OpenRowDue(f)' \/ OpenRuns(f)'
    <3>1. CASE f = g
      <4>1. row'[g]["open"] = [row[g]["open"] EXCEPT !.status = "processing", !.attempt = @ + 1]
        BY <1>1, <1>4, <1>6 DEF TypeOK, Kinds
      <4>2. row[g]["open"].due <= now
        BY <1>6 DEF Claim
      <4>3. Runs(w, g)' /\ row'[g]["open"].due <= now'
        BY <1>1, <1>2, <1>3, <1>6, <4>1, <4>2 DEF Runs, Row
      <4> QED
        BY <1>3, <3>1, <4>3 DEF OpenRuns
    <3>2. CASE f # g
      <4>1. row'[f] = row[f]
        BY <1>1, <1>4, <3>2 DEF TypeOK
      <4>2. \A v \in Workers : Runs(v, f) => proc'[v] = proc[v]
        BY <1>1, <1>3, WorkerIsProc DEF Runs
      <4> QED
        BY <1>1, <1>2, <2>1, <2>2, <4>1, <4>2, Untouched DEF Waiting
    <3> QED
      BY <3>1, <3>2
  <2> QED
    BY <1>2, <2>1, <2>2, WatchedOpens
<1> QED
  BY <1>5, <1>6 DEF Kinds

\* A step of the only worker, on the group it opens.
LEMMA OpensOne ==
  ASSUME OneWorker, Openings, [Next]_vars, NEW w \in Workers, NEW g \in Groups,
         proc[w].op = "open", proc[w].on = {g},
         UNCHANGED <<now, event>>, GroupsCalm, \A q \in Procs \ {w} : proc'[q] = proc[q],
         \A f \in Groups \ {g} : row'[f]["open"] = row[f]["open"],
         ~Owns(w) => row'[g]["open"] = row[g]["open"],
         Waiting(g) /\ Waiting(g)' /\ OpenRuns(g) /\ Runs(w, g) /\ proc[w].pc # "done"
           /\ (proc[w].pc = "requeue" => Parkable(g, proc[w].at))
           => OpenRowDue(g)' \/ OpenRuns(g)'
  PROVE  Openings'
<1>1. Sound /\ Sound' /\ w \in Procs
  BY SoundNext, WorkerIsProc DEF Openings
<1>2. EventCalm /\ MoversCalm /\ (Awaiting(event) => Awaiting(event)')
  BY <1>1, WorkerCalm
<1>3. ASSUME NEW f \in Groups, Waiting(f), Waiting(f)', OpenRowDue(f) \/ OpenRuns(f)
      PROVE  OpenRowDue(f)' \/ OpenRuns(f)'
  <2>1. CASE f = g /\ OpenRuns(g)
    <3>1. Runs(w, g) /\ proc[w].pc # "done" /\ (proc[w].pc = "requeue" => Parkable(g, proc[w].at))
      BY <2>1 DEF OneWorker, OpenRuns
    <3> QED
      BY <1>3, <2>1, <3>1
  <2>2. CASE f = g /\ ~OpenRuns(g)
    <3>1. OpenRowDue(g) /\ row[g]["open"].status = "pending"
      BY <1>3, <2>2 DEF OpenRowDue
    <3>2. ~Owns(w)
      BY <3>1, OnIs DEF Owns, Mine
    <3>3. \A v \in Workers : ~Runs(v, g)
      BY <3>1 DEF Runs
    <3> QED
      BY <1>1, <1>2, <1>3, <2>2, <3>2, <3>3, Untouched DEF Waiting
  <2>3. CASE f # g
    <3>1. \A v \in Workers : Runs(v, f) => proc'[v] = proc[v]
      BY <1>1, <2>3, WorkerIsProc DEF Runs
    <3> QED
      BY <1>1, <1>2, <1>3, <2>3, <3>1, Untouched DEF Waiting
  <2> QED
    BY <2>1, <2>2, <2>3
<1> QED
  BY <1>2, <1>3, WatchedOpens

\* What is true whenever an executor opens a group.
LEMMA Executing ==
  ASSUME Openings, [Next]_vars, NEW w \in Workers, proc[w].op = "open"
  PROVE  /\ Sound /\ Sound' /\ TypeOK /\ w \in Procs /\ w \notin Handlers
         /\ WellFormed(w) /\ proc[w] \in Process
         /\ now \in Int /\ now' \in Int
         /\ \E g \in Groups : /\ proc[w].on = {g} /\ On(w) = g
                              /\ group[g] \in Group /\ row[g] \in [Kinds -> Row]
                              /\ row[g]["open"] \in Row /\ "open" \in Kinds
<1>1. Sound /\ Sound' /\ TypeOK /\ TypeOK' /\ w \in Procs /\ w \notin Handlers
  BY SoundNext, WorkerIsProc DEF Openings, Sound
<1>2. WellFormed(w) /\ proc[w] \in Process
  BY <1>1 DEF Sound, TypeOK
<1>3. PICK g \in Groups : proc[w].on = {g}
  BY <1>2 DEF WellFormed, Single
<1>4. On(w) = g /\ group[g] \in Group /\ row[g] \in [Kinds -> Row] /\ "open" \in Kinds
  BY <1>1, <1>3, OnIs DEF TypeOK, Kinds
<1>5. now \in Int /\ now' \in Int
  BY <1>1, BoundsAssumption DEF TypeOK, Times
<1> QED
  BY <1>1, <1>2, <1>3, <1>4, <1>5

LEMMA OpenLoadOpens ==
  ASSUME OneWorker, Openings, [Next]_vars, NEW w \in Workers, OpenLoad(w) PROVE Openings'
<1>1. proc[w].op = "open" /\ proc[w].pc = "load"
  BY DEF OpenLoad, At
<1>2. /\ Sound /\ Sound' /\ TypeOK /\ w \in Procs /\ proc[w] \in Process
      /\ now \in Int /\ now' \in Int
  BY <1>1, Executing
<1>3. PICK g \in Groups : proc[w].on = {g} /\ On(w) = g /\ row[g]["open"] \in Row
  BY <1>1, Executing
<1>4. UNCHANGED <<now, event, group, row>> /\ GroupsCalm
  BY NoGroupCalm DEF OpenLoad, Clock
<1>5. /\ \A q \in Procs \ {w} : proc'[q] = proc[q]
      /\ proc'[w].op = "open" /\ proc'[w].on = {g} /\ proc'[w].pc = "check"
      /\ proc'[w].attempt = proc[w].attempt
  BY <1>1, <1>2, <1>3 DEF OpenLoad, TypeOK, Process
<1>6. ASSUME OpenRuns(g), Runs(w, g) PROVE OpenRuns(g)'
  <2>1. Runs(w, g)' /\ row'[g]["open"].due <= now'
    BY <1>4, <1>5, <1>6 DEF Runs, OpenRuns
  <2> QED
    BY <1>5, <2>1 DEF OpenRuns
<1> QED
  BY <1>1, <1>3, <1>4, <1>5, <1>6, OpensOne

LEMMA OpenCheckOpens ==
  ASSUME OneWorker, Openings, [Next]_vars, NEW w \in Workers, OpenCheck(w) PROVE Openings'
<1>1. proc[w].op = "open" /\ proc[w].pc \in {"check", "recheck", "explain"}
  BY DEF OpenCheck, Onward
<1>2. /\ Sound /\ Sound' /\ TypeOK /\ w \in Procs /\ proc[w] \in Process
      /\ now \in Int /\ now' \in Int
  BY <1>1, Executing
<1>3. PICK g \in Groups : /\ proc[w].on = {g} /\ On(w) = g /\ row[g]["open"] \in Row
                          /\ group[g] \in Group
  BY <1>1, Executing
<1>4. UNCHANGED <<now, event, group, row>> /\ GroupsCalm
  BY NoGroupCalm DEF OpenCheck, Clock
<1> DEFINE o == Obstacle(g)
<1>5. /\ \A q \in Procs \ {w} : proc'[q] = proc[q]
      /\ proc'[w].op = "open" /\ proc'[w].on = {g} /\ proc'[w].attempt = proc[w].attempt
      /\ o = "over" => proc'[w].pc = "done"
      /\ o = "early" => proc'[w].pc = "requeue" /\ proc'[w].at = group[g].opens
      /\ o = "awaiting" => proc'[w].pc = "requeue"
      /\ o = "none" => proc'[w].pc \in {"recheck", "send", "failed"}
  BY <1>1, <1>2, <1>3 DEF OpenCheck, TypeOK, Process, Onward
<1>6. ASSUME Waiting(g), OpenRuns(g), Runs(w, g) PROVE OpenRuns(g)'
  <2>1. Runs(w, g)' /\ row'[g]["open"].due <= now'
    BY <1>4, <1>5, <1>6 DEF Runs, OpenRuns
  <2>2. group[g].closes \in Int /\ group[g].opens \in Int
    BY <1>3 DEF Group
  <2>3. \/ o = "early"
        \/ o = "awaiting" /\ group[g].opens <= now /\ Awaiting(event)
        \/ o = "none"
    BY <1>2, <1>6, <2>2 DEF Obstacle, Waiting
  <2>4. proc'[w].pc # "done"
    BY <1>5, <2>3
  <2>5. proc'[w].pc = "requeue" => Parkable(g, proc'[w].at)
    BY <1>5, <2>2, <2>3 DEF Parkable
  <2>6. (proc[w].pc = "requeue" => Parkable(g, proc[w].at))'
    BY <1>4, <2>5 DEF Parkable, Awaiting
  <2> QED
    BY <2>1, <2>4, <2>6 DEF OpenRuns
<1> QED
  BY <1>1, <1>3, <1>4, <1>5, <1>6, OpensOne

LEMMA OpenSendOpens ==
  ASSUME OneWorker, Openings, [Next]_vars, NEW w \in Workers, OpenSend(w) \/ OpenLink(w)
  PROVE  Openings'
<1>1. proc[w].op = "open" /\ proc[w].pc \in {"send", "link"}
  BY DEF OpenSend, OpenLink, At
<1>2. /\ Sound /\ Sound' /\ TypeOK /\ w \in Procs /\ proc[w] \in Process
      /\ now \in Int /\ now' \in Int
  BY <1>1, Executing
<1>3. PICK g \in Groups : /\ proc[w].on = {g} /\ On(w) = g /\ row[g]["open"] \in Row
                          /\ group[g] \in Group
  BY <1>1, Executing
<1>4. UNCHANGED <<now, event, row>> /\ GroupsCalm
  BY <1>2, OpenFields, FieldsCalm DEF OpenSend, OpenLink, Clock
<1>5. PICK pc \in {"link", "done", "explain"} : Goto(w, pc)
  BY DEF OpenSend, OpenLink
<1>6. /\ \A q \in Procs \ {w} : proc'[q] = proc[q]
      /\ proc'[w].op = "open" /\ proc'[w].on = {g} /\ proc'[w].attempt = proc[w].attempt
      /\ proc'[w].pc = pc
  BY <1>1, <1>2, <1>3, <1>5 DEF Goto, TypeOK, Process
<1>7. pc = "done" => group'[g].link = 1
  <2>1. CASE OpenSend(w)
    <3>1. proc'[w].pc = "link"
      BY <1>2, <2>1 DEF OpenSend, Goto, TypeOK, Process
    <3> QED
      BY <1>6, <3>1
  <2>2. CASE OpenLink(w) /\ Linkable(g)
    BY <1>2, <1>3, <2>2 DEF OpenLink, TypeOK, Group
  <2>3. CASE OpenLink(w) /\ ~Linkable(g)
    <3>1. Goto(w, "explain")
      BY <1>3, <2>3 DEF OpenLink
    <3>2. proc'[w].pc = "explain"
      BY <1>2, <3>1 DEF Goto, TypeOK, Process
    <3> QED
      BY <1>6, <3>2
  <2> QED
    BY <2>1, <2>2, <2>3
<1>8. ASSUME Waiting(g)', OpenRuns(g), Runs(w, g) PROVE OpenRuns(g)'
  <2>1. Runs(w, g)' /\ row'[g]["open"].due <= now'
    BY <1>4, <1>6, <1>8 DEF Runs, OpenRuns
  <2>2. proc'[w].pc \notin {"done", "requeue"}
    BY <1>6, <1>7, <1>8 DEF Waiting
  <2> QED
    BY <2>1, <2>2 DEF OpenRuns
<1> QED
  BY <1>1, <1>3, <1>4, <1>6, <1>8, OpensOne

LEMMA OpenRequeueOpens ==
  ASSUME OneWorker, Openings, [Next]_vars, NEW w \in Workers, OpenRequeue(w) PROVE Openings'
<1>1. proc[w].op = "open" /\ proc[w].pc = "requeue"
  BY DEF OpenRequeue, At
<1>2. /\ Sound /\ Sound' /\ TypeOK /\ w \in Procs /\ proc[w] \in Process
      /\ now \in Int /\ now' \in Int
  BY <1>1, Executing
<1>3. PICK g \in Groups : /\ proc[w].on = {g} /\ On(w) = g
                          /\ row[g] \in [Kinds -> Row] /\ "open" \in Kinds
  BY <1>1, Executing
<1>4. UNCHANGED <<now, event, group>> /\ GroupsCalm
  BY NoGroupCalm DEF OpenRequeue, Clock
<1>5. \A q \in Procs \ {w} : proc'[q] = proc[q]
  BY <1>2 DEF OpenRequeue, Goto, TypeOK
<1>6. /\ Owns(w) => row' = [row EXCEPT ![g]["open"] = Armed(proc[w].at)]
      /\ ~Owns(w) => UNCHANGED row
  BY <1>1, <1>3 DEF OpenRequeue, Becomes
<1>7. /\ \A f \in Groups \ {g} : row'[f]["open"] = row[f]["open"]
      /\ Owns(w) => row'[g]["open"] = Armed(proc[w].at)
  BY <1>2, <1>3, <1>6 DEF TypeOK
<1>8. ASSUME Runs(w, g), Parkable(g, proc[w].at) PROVE OpenRowDue(g)'
  <2>1. Owns(w)
    BY <1>1, <1>3, <1>8 DEF Owns, Mine, Runs
  <2>2. row'[g]["open"].status = "pending" /\ row'[g]["open"].due = proc[w].at
    BY <1>2, <1>7, <2>1, ArmedFits DEF Process
  <2> QED
    BY <1>4, <1>8, <2>2 DEF OpenRowDue, Parkable, Awaiting
<1>9. ~Owns(w) => row'[g]["open"] = row[g]["open"]
  BY <1>6
<1> QED
  BY <1>1, <1>3, <1>4, <1>5, <1>7, <1>8, <1>9, OpensOne

LEMMA SettleOpens ==
  ASSUME OneWorker, Openings, [Next]_vars, NEW w \in Workers, Settle(w) PROVE Openings'
<1>1. /\ Sound /\ TypeOK /\ w \in Procs /\ WellFormed(w) /\ proc[w].pc # "idle"
      /\ proc[w].pc \in {"done", "failed"}
  BY WorkerIsProc DEF Openings, Sound, Settle
<1>2. PICK g \in Groups : proc[w].on = {g} /\ On(w) = g
  BY <1>1, MineFits
<1>3. /\ proc[w].op \in {"open", "close"} /\ row[g] \in [Kinds -> Row]
      /\ "open" \in Kinds /\ "close" \in Kinds
  BY <1>1, MineFits DEF TypeOK, Kinds
<1>4. UNCHANGED <<now, event, group>> /\ GroupsCalm /\ Stop(w)
  BY NoGroupCalm DEF Settle, Clock, Rest
<1>5. \A q \in Procs \ {w} : proc'[q] = proc[q]
  BY <1>1, <1>4, Rests
<1> DEFINE r == [row[g][proc[w].op] EXCEPT
                   !.status = IF proc[w].pc = "done" THEN "completed" ELSE "pending"]
<1>6. /\ Owns(w) => row' = [row EXCEPT ![g][proc[w].op] = r]
      /\ ~Owns(w) => UNCHANGED row
  BY <1>2 DEF Settle, Becomes, Mine
<1>7. CASE proc[w].op = "close"
  <2>1. \A f \in Groups : row'[f]["open"] = row[f]["open"]
    BY <1>1, <1>3, <1>6, <1>7 DEF TypeOK
  <2> QED
    BY <1>4, <1>5, <1>7, <2>1, ElsewhereOpens
<1>8. CASE proc[w].op = "open"
  <2>1. /\ \A f \in Groups \ {g} : row'[f]["open"] = row[f]["open"]
        /\ Owns(w) => row'[g]["open"] = r
    BY <1>1, <1>3, <1>6, <1>8 DEF TypeOK
  <2>2. ASSUME Runs(w, g), OpenRuns(g), proc[w].pc # "done" PROVE OpenRowDue(g)'
    <3>1. Owns(w)
      BY <1>2, <1>8, <2>2 DEF Owns, Mine, Runs
    <3>2. row[g]["open"] \in Row
      BY <1>3
    <3>3. r.status = "pending" /\ r.due = row[g]["open"].due
      BY <1>1, <1>8, <2>2, <3>2 DEF Row, Live
    <3> HIDE DEF r
    <3>4. row'[g]["open"].status = "pending" /\ row'[g]["open"].due <= now'
      BY <1>4, <2>1, <2>2, <3>1, <3>3 DEF OpenRuns
    <3> QED
      BY <3>4 DEF OpenRowDue, Parkable
  <2>3. ~Owns(w) => row'[g]["open"] = row[g]["open"]
    BY <1>6
  <2> QED
    BY <1>2, <1>4, <1>5, <1>8, <2>1, <2>2, <2>3, OpensOne
<1> QED
  BY <1>3, <1>7, <1>8

\* A command that goes on, other than a move, does not touch the openings.
LEMMA CommandGoesOn ==
  ASSUME Openings, [Next]_vars, NEW h \in Handlers, UNCHANGED <<now, event>>, GroupsCalm,
         \A q \in Procs \ {h} : proc'[q] = proc[q],
         proc[h].op # "move", proc'[h].op \in {proc[h].op, "none", "post", "close", "refresh"},
         \A g \in Groups : Waiting(g)' => row'[g]["open"] = row[g]["open"]
  PROVE  Openings'
<1>1. Sound /\ Sound' /\ h \in Procs /\ h \notin Workers
  BY SoundNext, HandlerIsProc DEF Openings
<1>2. EventCalm
  BY <1>1, ClockCalm
<1>3. MoversCalm
  <2>1. ASSUME NEW i \in Handlers
        PROVE  /\ proc[i].op = "move" => proc'[i].op = "move"
               /\ proc'[i].op \in {"cancel", "complete"} => event'.ended
    <3>1. CASE i = h
      BY <3>1 DEF Openings, EndsSound
    <3>2. CASE i # h
      BY <3>2, HandlerIsProc DEF Openings, EndsSound
    <3> QED
      BY <3>1, <3>2
  <2> QED
    BY <2>1 DEF MoversCalm
<1>4. Awaiting(event) => Awaiting(event)'
  BY DEF Awaiting
<1>5. \A w \in Workers : proc'[w] = proc[w]
  BY <1>1, WorkerIsProc
<1> QED
  BY <1>1, <1>2, <1>3, <1>4, <1>5, Untouched, WatchedOpens DEF Waiting

LEMMA HandlesOpens ==
  ASSUME Openings, [Next]_vars, NEW h \in Handlers,
         \/ EndRetire(h) \/ PostInsert(h) \/ PostSend(h) \/ PostLink(h) \/ PostSchedule(h)
         \/ CloseNow(h) \/ CloseMark(h) \/ RefreshNext(h) \/ RefreshEdit(h) \/ RefreshSwap(h)
  PROVE  Openings'
<1>1. /\ Sound /\ TypeOK /\ h \in Procs /\ h \notin Workers /\ WellFormed(h) /\ Knows(h)
      /\ proc[h] \in Process
  BY HandlerIsProc DEF Openings, Sound, TypeOK
<1>2. UNCHANGED <<now, event>>
  BY DEF EndRetire, PostInsert, PostSend, PostLink, PostSchedule, CloseNow, CloseMark,
         RefreshNext, RefreshEdit, RefreshSwap, Clock
<1>3. proc[h].op # "move"
  BY <1>1 DEF EndRetire, PostInsert, PostSend, PostLink, PostSchedule, CloseNow, CloseMark,
              RefreshNext, RefreshEdit, RefreshSwap, At, WellFormed, StepsOf
<1>4. /\ \A q \in Procs \ {h} : proc'[q] = proc[q]
      /\ proc'[h].op \in {proc[h].op, "none"}
  <2>1. CASE EndRetire(h) \/ CloseMark(h)
    BY <1>1, <2>1 DEF EndRetire, CloseMark, TypeOK, Process
  <2>2. CASE RefreshNext(h) /\ proc[h].todo = {}
    <3>1. Stop(h)
      BY <1>1, <2>2 DEF RefreshNext
    <3> QED
      BY <1>1, <3>1, Rests
  <2>3. CASE RefreshNext(h) /\ proc[h].todo # {}
    <3>1. PICK g \in proc[h].todo :
            proc' = [proc EXCEPT ![h].todo = @ \ {g}, ![h].on = {g}, ![h].msg = group[g].link,
                                 ![h].pc = IF group[g].link = 0 THEN "refresh" ELSE "edit"]
      BY <2>3 DEF RefreshNext
    <3> QED
      BY <1>1, <3>1 DEF TypeOK, Process
  <2>4. CASE PostInsert(h) \/ PostSend(h) \/ PostLink(h) \/ PostSchedule(h) \/ CloseNow(h)
    BY <1>1, <2>4, IdleFits
       DEF PostInsert, PostSend, PostLink, PostSchedule, CloseNow, Goto, Stop, TypeOK, Process
  <2>5. CASE RefreshEdit(h) \/ RefreshSwap(h)
    BY <1>1, <2>5 DEF RefreshEdit, RefreshSwap, Goto, TypeOK, Process
  <2> QED
    BY <2>1, <2>2, <2>3, <2>4, <2>5
<1>5. GroupsCalm
  <2>1. CASE UNCHANGED group
    BY <2>1, NoGroupCalm
  <2>2. CASE RefreshNext(h) \/ RefreshEdit(h) \/ RefreshSwap(h)
    BY <1>1, <2>2, RefreshFields, FieldsCalm
  <2>3. CASE PostInsert(h) \/ PostSend(h) \/ PostLink(h) \/ CloseNow(h)
    <3>1. PICK g \in Groups : proc[h].on = {g}
      BY <1>1, <2>3 DEF PostInsert, PostSend, PostLink, CloseNow, At, WellFormed, Single
    <3>2. On(h) = g /\ group[g] \in Group /\ GroupSound(g)
      BY <1>1, <3>1, OnIs DEF TypeOK, Sound
    <3>3. CASE CloseNow(h)
      <4>1. group' = [group EXCEPT ![g] = [group[g] EXCEPT !.closed = (group[g].state = "kept")]]
        BY <1>1, <3>2, <3>3 DEF CloseNow, TypeOK
      <4>2. group[g].planned => group[g].state = "kept"
        BY <3>2 DEF GroupSound
      <4> QED
        BY <1>1, <3>2, <4>1, <4>2, OneGroupCalm DEF Group
    <3>4. CASE PostInsert(h) \/ PostSend(h) \/ PostLink(h)
      <4>1. ~group[g].planned
        BY <1>1, <3>1, <3>4 DEF Knows, PostInsert, PostSend, PostLink, At
      <4>2. \E r : group' = [group EXCEPT ![g] = r]
        BY <1>1, <3>2, <3>4 DEF PostInsert, PostSend, PostLink, TypeOK
      <4> QED
        BY <1>1, <4>1, <4>2, OneGroupCalm
    <3> QED
      BY <2>3, <3>3, <3>4
  <2> QED
    BY <2>1, <2>2, <2>3 DEF EndRetire, PostSchedule, CloseMark
<1>6. ASSUME NEW g \in Groups, Waiting(g)' PROVE row'[g]["open"] = row[g]["open"]
  <2>1. CASE UNCHANGED row
    BY <2>1
  <2>2. CASE EndRetire(h) /\ row' # row
    <3>1. proc[h].op = "cancel"
      BY <2>2 DEF EndRetire
    <3>2. event.ended
      BY <3>1 DEF Openings, EndsSound
    <3> QED
      BY <1>2, <1>6, <3>2 DEF Waiting
  <2>3. CASE PostSchedule(h) \/ CloseMark(h)
    <3>1. \E f, r : row' = [row EXCEPT ![f]["close"] = r]
      BY <2>3 DEF PostSchedule, CloseMark
    <3> QED
      BY <1>1, <3>1 DEF TypeOK, Kinds
  <2> QED
    BY <2>1, <2>2, <2>3
       DEF PostInsert, PostSend, PostLink, CloseNow, RefreshNext, RefreshEdit, RefreshSwap
<1> QED
  BY <1>2, <1>3, <1>4, <1>5, <1>6, CommandGoesOn

\* A move re-arms the rows of all the groups that wait.
LEMMA MoveOpens ==
  ASSUME Openings, [Next]_vars, NEW h \in Handlers, MoveGroups(h) PROVE Openings'
<1>1. /\ Sound /\ Sound' /\ TypeOK /\ h \in Procs /\ event \in Event
      /\ OpensAt(event) \in Int /\ Later(OpensAt(event)) \in Int /\ now \in Int
  BY SoundNext, HandlerIsProc, NowIsInt, EventTimes DEF Openings, Sound, TypeOK
<1>2. UNCHANGED now /\ Stop(h) /\ event' = [event EXCEPT !.torn = FALSE]
  BY DEF MoveGroups, Clock
<1>3. /\ \A q \in Procs \ {h} : proc'[q] = proc[q]
      /\ proc'[h] = Idle /\ event'.ended = event.ended
  BY <1>1, <1>2, Rests DEF Event
<1>4. ASSUME NEW i \in Handlers PROVE EndsSound(i)'
  BY <1>3, IdleFits, HandlerIsProc DEF Openings, EndsSound
<1>5. ASSUME NEW g \in Groups, Waiting(g)' PROVE OpenRowDue(g)'
  <2>1. /\ group[g] \in Group /\ GroupSound(g)
        /\ group' = [f \in Groups |->
                       [group[f] EXCEPT
                          !.closes = IF Moves(f) THEN ClosesAt(event) ELSE @,
                          !.opens = IF Moves(f) /\ group[f].planned /\ group[f].link = 0
                                    THEN OpensAt(event) ELSE @]]
        /\ row'[g]["open"] = IF Moves(g) /\ group[g].planned /\ group[g].link = 0
                             THEN Armed(Later(OpensAt(event))) ELSE row[g]["open"]
    BY <1>1 DEF MoveGroups, TypeOK, Sound
  <2>2. /\ group'[g].planned = group[g].planned /\ group'[g].link = group[g].link
        /\ group'[g].closed = group[g].closed
        /\ Moves(g) /\ group[g].planned /\ group[g].link = 0 =>
             group'[g].opens = OpensAt(event)
    BY <2>1 DEF Group
  <2>3. Moves(g) /\ group[g].planned /\ group[g].link = 0
    BY <1>5, <2>1, <2>2 DEF Waiting, Moves, GroupSound
  <2>4. row'[g]["open"].status = "pending" /\ row'[g]["open"].due = Later(OpensAt(event))
    BY <1>1, <2>1, <2>3, ArmedFits
  <2> QED
    BY <1>1, <1>2, <2>2, <2>3, <2>4 DEF OpenRowDue, Parkable, Later
<1> QED
  BY <1>1, <1>4, <1>5 DEF Openings, OpenWatched

LEMMA CommandOpens ==
  ASSUME "schedule" \notin Ops,
         Openings, [Next]_vars, NEW h \in Handlers, NEW op \in Ops, Command(h, op)
  PROVE  Openings'
<1>1. /\ Sound /\ Sound' /\ TypeOK /\ h \in Procs /\ h \notin Workers /\ proc[h] = Idle
      /\ proc[h].op = "none" /\ proc \in [Procs -> Process] /\ proc[h] \in Process
      /\ event \in Event /\ now \in Int
  BY SoundNext, HandlerIsProc, IdleFits, NowIsInt
     DEF Openings, Sound, TypeOK, Command, WellFormed
<1>2. UNCHANGED <<now, group, row>> /\ GroupsCalm
  BY NoGroupCalm DEF Command, Edit, End, Refresh, Post, Close
<1>3. CASE Edit(h, op) /\ op = "move"
  <2>1. proc' = [proc EXCEPT ![h].op = op, ![h].pc = "groups"] /\ ~event.ended
    BY <1>3 DEF Edit
  <2>2. proc'[h].op = "move" /\ \A q \in Procs \ {h} : proc'[q] = proc[q]
    BY <1>1, <1>3, <2>1 DEF Process
  <2>3. \A i \in Handlers : EndsSound(i)'
    BY <2>1, <2>2, HandlerIsProc DEF Openings, EndsSound
  <2>4. Moving'
    BY <2>2 DEF Moving
  <2> QED
    BY <1>1, <2>3, <2>4 DEF Openings, OpenWatched
<1>4. CASE Edit(h, op) /\ op # "move"
  <2>1. event' = [event EXCEPT !.held = TRUE] /\ UNCHANGED proc
    <3>1. op = "hold"
      BY <1>4 DEF Edit
    <3> QED
      BY <1>4, <3>1 DEF Edit
  <2>2. /\ event'.published = event.published /\ event'.held /\ event'.ended = event.ended
        /\ event'.torn = event.torn
    BY <1>1, <2>1 DEF Event
  <2>3. EventCalm /\ MoversCalm
    <3>1. EventCalm
      BY <1>1, <1>2, <2>2 DEF EventCalm
    <3> QED
      BY <2>1, <3>1, StillCalm
  <2>4. Awaiting(event) => Awaiting(event)'
    BY <2>2 DEF Awaiting
  <2> QED
    BY <1>1, <1>2, <2>1, <2>3, <2>4, Untouched, WatchedOpens DEF Waiting
<1>5. CASE End(h, op)
  <2>1. event'.ended /\ event'.torn = event.torn
    BY <1>1, <1>5 DEF End, Event
  <2>2. EventCalm
    BY <1>1, <1>2, <2>1 DEF EventCalm
  <2>3. MoversCalm
    <3>1. \A q \in Procs \ {h} : proc'[q] = proc[q]
      BY <1>1, <1>5 DEF End
    <3> QED
      BY <1>1, <2>1, <3>1, HandlerIsProc DEF MoversCalm
  <2> QED
    BY <1>2, <2>1, <2>2, <2>3, WatchedOpens DEF Waiting
<1>6. CASE Refresh(h, op) \/ Post(h, op) \/ Close(h, op)
  <2>1. UNCHANGED event /\ \A q \in Procs \ {h} : proc'[q] = proc[q]
    BY <1>1, <1>6 DEF Refresh, Post, Close
  <2>2. proc'[h].op \in {"post", "close", "refresh"}
    <3>1. CASE Refresh(h, op)
      BY <1>1, <3>1 DEF Refresh, Process
    <3>2. CASE Post(h, op) \/ Close(h, op)
      BY <1>1, <3>2 DEF Post, Close, Idle
    <3> QED
      BY <1>6, <3>1, <3>2
  <2> QED
    BY <1>1, <1>2, <2>1, <2>2, CommandGoesOn
<1> QED
  BY <1>3, <1>4, <1>5, <1>6 DEF Command

LEMMA LostOpens == ASSUME Openings, [Next]_vars, NEW p \in Procs, Lost(p) PROVE Openings'
<1>1. /\ Sound /\ Sound' /\ TypeOK /\ WellFormed(p) /\ Knows(p) /\ proc[p].pc # "idle"
      /\ event \in Event /\ now \in Int
  BY SoundNext, NowIsInt DEF Openings, Sound, Lost, TypeOK
<1>2. now' = now /\ Stop(p)
  BY DEF Lost
<1>3. /\ \A q \in Procs \ {p} : proc'[q] = proc[q]
      /\ proc'[p] = Idle
  BY <1>1, <1>2, Rests
<1>4. /\ event'.ended = event.ended
      /\ event.torn => event'.torn
      /\ event'.published = event.published /\ event'.held = event.held
      /\ event'.starts = event.starts
      /\ Dies(p) \/ Throws(p) => event'.torn = (event.torn \/ Tears(p))
  BY <1>1 DEF Lost, Dies, Throws, PostUndone, Event
<1>5. EventCalm /\ (Awaiting(event) => Awaiting(event)')
  BY <1>1, <1>2, <1>4 DEF EventCalm, Awaiting, PublishesAt
<1>6. MoversCalm
  <2>1. proc[p].op = "move" => event'.torn
    <3>1. proc[p].op = "move" => proc[p].pc = "groups" /\ ~PostUndone(p)
      BY <1>1 DEF WellFormed, StepsOf, PostUndone
    <3> QED
      BY <1>4, <3>1 DEF Tears, Lost
  <2> QED
    BY <1>3, <1>4, <2>1, IdleFits, HandlerIsProc DEF MoversCalm, Openings, EndsSound
<1>7. GroupsCalm
  <2>1. CASE UNCHANGED group
    BY <2>1, NoGroupCalm
  <2>2. CASE group' # group /\ (Dies(p) \/ Throws(p))
    <3>1. Unlinked(p)
      BY <2>2 DEF Dies, Throws
    <3>2. PICK g \in Groups : proc[p].on = {g}
      BY <1>1, <3>1 DEF Unlinked, WellFormed, StepsOf, TypeOK, Process, Single
    <3>3. On(p) = g
      BY <3>2, OnIs
    <3>4. \/ group' = [group EXCEPT ![g] = [group[g] EXCEPT !.strays = @ + 1]]
          \/ group' = [group EXCEPT ![g] = [group[g] EXCEPT !.messages = @ - 1]]
      BY <2>2, <3>1, <3>3 DEF Dies, Throws
    <3> QED
      BY <1>1, <3>4, FieldsStay, FieldsCalm
  <2>3. CASE PostUndone(p)
    <3>1. PICK g \in Groups : proc[p].on = {g}
      BY <1>1, <2>3 DEF PostUndone, WellFormed, Single
    <3>2. On(p) = g /\ ~group[g].planned
      BY <1>1, <2>3, <3>1, OnIs DEF PostUndone, Knows
    <3>3. \A f \in Groups \ {g} : group'[f] = group[f]
      BY <1>1, <2>3, <3>2 DEF PostUndone, TypeOK
    <3> QED
      BY <3>2, <3>3 DEF GroupsCalm
  <2> QED
    BY <2>1, <2>2, <2>3 DEF Lost
<1>8. ASSUME NEW g \in Groups, Waiting(g), OpenRowDue(g) \/ OpenRuns(g)
      PROVE  OpenRowDue(g)' \/ OpenRuns(g)'
  <2>1. CASE p \in Workers /\ Owns(p)
    <3>1. Becomes(p, [Mine(p) EXCEPT !.status = "pending"])
      BY <2>1 DEF Lost
    <3> QED
      BY <1>1, <1>3, <1>5, <1>7, <1>8, <2>1, <3>1, WorkerIsProc, GivenBackOpens
  <2>2. CASE ~(p \in Workers /\ Owns(p))
    <3>1. UNCHANGED row
      BY <2>2 DEF Lost
    <3>2. ASSUME NEW w \in Workers, Runs(w, g) PROVE proc'[w] = proc[w]
      <4>1. Owns(w)
        BY <3>2, OnIs DEF Runs, Owns, Mine
      <4> QED
        BY <1>3, <2>2, <4>1, WorkerIsProc
    <3> QED
      BY <1>1, <1>5, <1>7, <1>8, <3>1, <3>2, Untouched DEF Waiting
  <2> QED
    BY <2>1, <2>2
<1> QED
  BY <1>5, <1>6, <1>7, <1>8, WatchedOpens

LEMMA OpeningsNext ==
  ASSUME OneWorker, "schedule" \notin Ops, Openings, [Next]_vars PROVE Openings'
<1>1. CASE UNCHANGED vars \/ Tick \/ (\E g \in Groups : DeleteMessage(g))
  BY <1>1, ClockOpens
<1>2. CASE Publish
  BY <1>2, PublishOpens
<1>3. ASSUME NEW w \in Workers, Schedules(w) \/ Stale(w) PROVE Openings'
  BY <1>3, StaleOpens, ClaimOpens, OpenLoadOpens, OpenCheckOpens, OpenSendOpens,
     OpenRequeueOpens, CloseOpens, SettleOpens DEF Schedules
<1>4. ASSUME NEW h \in Handlers, Handles(h) PROVE Openings'
  BY <1>4, MoveOpens, HandlesOpens DEF Handles
<1>5. ASSUME NEW h \in Handlers, NEW op \in Ops, Command(h, op) PROVE Openings'
  BY <1>5, CommandOpens
<1>6. ASSUME NEW p \in Procs, Lost(p) PROVE Openings'
  BY <1>6, LostOpens
<1> QED
  BY <1>1, <1>2, <1>3, <1>4, <1>5, <1>6 DEF Next

LEMMA InitOpenings == Init => Openings
<1> SUFFICES ASSUME Init PROVE Openings
  OBVIOUS
<1>1. Sound /\ OpensAt(event) \in Int
  BY InitSound, EventTimes DEF Sound, TypeOK
<1>2. \A h \in Handlers : EndsSound(h)
  BY HandlerIsProc, IdleFits DEF Init, EndsSound
<1>3. ASSUME NEW g \in Groups, Waiting(g) PROVE OpenRowDue(g)
  <2>1. group[g].planned /\ group[g] \in {Absent, Planned(event)} /\ ~Absent.planned
    BY <1>3 DEF Init, Waiting, Absent
  <2>2. group[g].opens = OpensAt(event)
    BY <2>1 DEF Planned, Absent
  <2>3. row[g]["open"] = Armed(OpensAt(event))
    BY <2>1 DEF Init
  <2> QED
    BY <1>1, <2>2, <2>3, ArmedFits DEF OpenRowDue, Parkable
<1> QED
  BY <1>1, <1>2, <1>3 DEF Openings, OpenWatched

LEMMA AlwaysOpenings == ASSUME OneWorker, "schedule" \notin Ops PROVE Spec => []Openings
<1>1. Openings /\ [Next]_vars => Openings'
  BY OpeningsNext
<1>2. Init => Openings
  BY InitOpenings
<1> QED
  BY <1>1, <1>2, PTL DEF Spec

\* With one scheduler, and no command that brings a held publication back, an
\* opening never gets lost on the way: whenever nothing is in the way of a group
\* and no edit is under way or was lost, it is being opened or its row is due.
\* executeRoleRequestGroupOpen parks a row only where publication
\* (resumeRoleRequestGroupOpeningsForPublication) or its own time will wake it.
THEOREM OpeningWatched ==
  ASSUME OneWorker, "schedule" \notin Ops PROVE Spec => []OpeningIsWatched
<1>1. Openings => OpeningIsWatched
  <2> SUFFICES ASSUME Openings, Quiet, ~event.torn,
                      NEW g \in Groups, group[g].planned, Obstacle(g) = "none", ~Opening(g)
               PROVE  row[g]["open"].status \in Live /\ row[g]["open"].due <= now
    BY DEF OpeningIsWatched
  <2>1. now \in Int /\ group[g].opens \in Int /\ group[g].closes \in Int
        /\ row[g]["open"].due \in Int
    <3>1. row[g]["open"] \in Row /\ group[g] \in Group
      BY DEF Openings, Sound, TypeOK, Kinds
    <3> QED
      BY <3>1, NowIsInt DEF Openings, Sound, Row, Group
  <2>2. Waiting(g) /\ group[g].opens <= now /\ ~Awaiting(event)
    BY <2>1 DEF Obstacle, Waiting
  <2>3. ~Moving
    <3>1. \A h \in Handlers : proc[h] = Idle
      BY HandlerIsProc DEF Openings, Sound, WellFormed, Quiet
    <3> QED
      BY <3>1, IdleFits DEF Moving
  <2>4. OpenRowDue(g) \/ OpenRuns(g)
    BY <2>2, <2>3 DEF Openings, OpenWatched
  <2>5. ~OpenRuns(g)
    BY DEF OpenRuns, Runs, Opening
  <2> QED
    BY <2>1, <2>2, <2>4, <2>5 DEF OpenRowDue, Parkable, Live
<1> QED
  BY <1>1, AlwaysOpenings, PTL

\* No group waits for an opening or a closing that nobody is going to make, as
\* long as one scheduler runs, commands come one at a time, and none of them
\* brings a held publication back: without the three, it may (README, section 5).
THEOREM GroupsWatched ==
  ASSUME OneWorker, OneHandler, "schedule" \notin Ops PROVE Spec => []GroupsAreWatched
<1>1. OpeningIsWatched /\ ClosingIsWatched => GroupsAreWatched
  BY DEF GroupsAreWatched
<1>2. Spec => []OpeningIsWatched
  BY OpeningWatched
<1>3. Spec => []ClosingIsWatched
  BY ClosingWatched
<1> QED
  BY <1>1, <1>2, <1>3, PTL

=============================================================================
