------------------------- MODULE AgentSharingProofs -------------------------
(***************************************************************************)
(* Theorems of AgentSharing, for every value of its constants: its types,  *)
(* that a native slot is held by one execution at a time, its accounts,    *)
(* its answers, and the silence of a grant that was switched off.          *)
(***************************************************************************)
EXTENDS AgentSharing, FiniteSetTheorems, TLAPS

Accounts == [Share -> [0 .. MaxDay -> [Payer -> Account]]]
Tables == [share: [Share -> Grant], job: [Job -> Row], log: [Job -> Seq(Message)],
           usage: Accounts]

\* A running job waits for the computer's word, and only a job that was handed
\* to the computer does.
Awaited(d) ==
    \A j \in Job : /\ d.job[j].status = "running" => d.job[j].cleanup
                   /\ d.job[j].cleanup => d.job[j].status \in {"running"} \cup Closed

\* No two jobs that wait are on one slot, and no ordinary turn is beside one.
OneWaits(d) ==
    \A j \in Job : d.job[j].cleanup =>
        /\ \A k \in Job \ {j} : d.job[k].cleanup => SlotOf[d.job[k].share] # SlotOf[d.job[j].share]
        /\ \A t \in turns : SlotOf[t] # SlotOf[d.job[j].share]

\* e holds the same executions as d, under the same grants.
SameHeld(d, e) ==
    \A j \in Job : /\ e.job[j].cleanup <=> d.job[j].cleanup
                   /\ d.job[j].cleanup => e.job[j].share = d.job[j].share

-----------------------------------------------------------------------------
(* Type correctness of the tables. *)

LEMMA Bounds == MaxDay \in Nat /\ 0 \in 0 .. MaxDay /\ All \in Payer /\ Member \subseteq Payer
BY SharingAssumption DEF Payer

LEMMA NoRowType == NoRow \in Row /\ [NoRow EXCEPT !.status = "pruned"] \in Row
BY Bounds DEF NoRow, Row

\* What the handlers do to a row leaves a row, and most of it as it is.
LEMMA RowCleanup ==
    ASSUME NEW r \in Row, NEW c \in BOOLEAN
    PROVE  /\ [r EXCEPT !.cleanup = c] \in Row
           /\ [r EXCEPT !.cleanup = c].cleanup <=> c
           /\ [r EXCEPT !.cleanup = c].share = r.share
           /\ [r EXCEPT !.cleanup = c].status = r.status
BY DEF Row

LEMMA RowReleased ==
    ASSUME NEW r \in Row
    PROVE  LET q == [r EXCEPT !.reserved = FALSE, !.cleanup = FALSE]
           IN  q \in Row /\ ~q.cleanup /\ q.share = r.share /\ q.status = r.status
BY DEF Row

LEMMA RowEnded ==
    ASSUME NEW r \in Row, NEW to \in Closed
    PROVE  LET q == [r EXCEPT !.status = to, !.leased = FALSE, !.overdue = FALSE]
           IN  q \in Row /\ (q.cleanup <=> r.cleanup) /\ q.share = r.share /\ q.status = to
BY DEF Row

LEMMA RowTold ==
    ASSUME NEW r \in Row, NEW a \in {"told", "unavailable"}
    PROVE  LET q == [r EXCEPT !.response = a]
           IN  q \in Row /\ (q.cleanup <=> r.cleanup) /\ q.share = r.share /\ q.status = r.status
BY DEF Row

LEMMA EndedTable ==
    ASSUME NEW d \in Tables, NEW J, NEW to \in Closed
    PROVE  /\ Ended(d, J, to) \in Tables
           /\ \A j \in Job :
                /\ Ended(d, J, to).job[j].cleanup <=> d.job[j].cleanup
                /\ Ended(d, J, to).job[j].share = d.job[j].share
                /\ Ended(d, J, to).job[j].status = IF j \in J THEN to ELSE d.job[j].status
<1> DEFINE q(j) == [d.job[j] EXCEPT !.status = to, !.leased = FALSE, !.overdue = FALSE]
           f == [j \in Job |-> IF j \notin J THEN d.job[j] ELSE q(j)]
<1>1. \A j \in Job : d.job[j] \in Row
  BY DEF Tables
<1>2. \A j \in Job : /\ q(j) \in Row /\ (q(j).cleanup <=> d.job[j].cleanup)
                     /\ q(j).share = d.job[j].share /\ q(j).status = to
  BY <1>1, RowEnded
<1>3. Ended(d, J, to) = [d EXCEPT !.job = f]
  BY Zenon DEF Ended
<1> HIDE DEF q
<1>4. f \in [Job -> Row]
  BY <1>1, <1>2
<1>5. Ended(d, J, to) \in Tables /\ Ended(d, J, to).job = f
  BY <1>3, <1>4 DEF Tables
<1> QED
  BY <1>2, <1>5

LEMMA SwitchOffTable ==
    ASSUME NEW d \in Tables, NEW S
    PROVE  SwitchOff(d, S) \in Tables /\ SwitchOff(d, S).job = d.job
<1> DEFINE f == [s \in Share |-> IF s \in S /\ d.share[s].on
                               THEN [d.share[s] EXCEPT !.on = FALSE, !.rev = @ + 1] ELSE d.share[s]]
<1>1. ASSUME NEW g \in Grant PROVE [g EXCEPT !.on = FALSE, !.rev = @ + 1] \in Grant
  <2>1. g.rev + 1 \in Nat
    BY <1>1 DEF Grant
  <2> QED
    BY <1>1, <2>1, Zenon DEF Grant
<1>2. d.share \in [Share -> Grant]
  BY DEF Tables
<1>3. f \in [Share -> Grant]
  BY <1>1, <1>2
<1>4. SwitchOff(d, S) = [d EXCEPT !.share = f]
  BY DEF SwitchOff
<1> QED
  BY <1>3, <1>4 DEF Tables

LEMMA TellTable ==
    ASSUME NEW d \in Tables, NEW J
    PROVE  /\ Tell(d, J) \in Tables
           /\ \A j \in Job : /\ Tell(d, J).job[j].cleanup <=> d.job[j].cleanup
                             /\ Tell(d, J).job[j].share = d.job[j].share
                             /\ Tell(d, J).job[j].status = d.job[j].status
<1> DEFINE mark(j) == IF j \in erased /\ ~Answered(d, j) THEN "unavailable" ELSE "told"
           q(j) == [d.job[j] EXCEPT !.response = mark(j)]
           f == [j \in Job |-> IF j \in J THEN q(j) ELSE d.job[j]]
           g == [j \in Job |-> IF j \in J \ erased /\ ~Answered(d, j)
                               THEN Append(d.log[j], "ended") ELSE d.log[j]]
<1>1. d.job \in [Job -> Row] /\ d.log \in [Job -> Seq(Message)]
  BY DEF Tables
<1>2. \A j \in Job : mark(j) \in {"told", "unavailable"}
  OBVIOUS
<1> HIDE DEF mark
<1>7. \A j \in Job : /\ q(j) \in Row /\ (q(j).cleanup <=> d.job[j].cleanup)
                     /\ q(j).share = d.job[j].share /\ q(j).status = d.job[j].status
  BY <1>1, <1>2, RowTold
<1>5. Tell(d, J) = [d EXCEPT !.job = f, !.log = g]
  BY Zenon DEF Tell, mark
<1> HIDE DEF q
<1>3. f \in [Job -> Row]
  BY <1>1, <1>7
<1>4. g \in [Job -> Seq(Message)]
  BY <1>1 DEF Message
<1>6. Tell(d, J) \in Tables /\ Tell(d, J).job = f
  BY <1>3, <1>4, <1>5 DEF Tables
<1> QED
  BY <1>6, <1>7

LEMMA UsageType ==
    ASSUME NEW d \in Tables, NEW s \in Share, NEW u \in 0 .. MaxDay, NEW p \in Payer
    PROVE  d.usage[s][u][p] \in Account
<1>1. d.usage \in Accounts
  BY DEF Tables
<1>2. d.usage[s] \in [0 .. MaxDay -> [Payer -> Account]]
  BY <1>1, Zenon DEF Accounts
<1>3. d.usage[s][u] \in [Payer -> Account]
  BY <1>2, Zenon
<1> QED
  BY <1>3, Zenon

\* What an account gives back or pays is a natural number, since jobs are finitely many.
LEMMA ReleaseTable ==
    ASSUME NEW d \in Tables, NEW J \in SUBSET Job
    PROVE  /\ Release(d, J) \in Tables
           /\ \A j \in Job :
                /\ Release(d, J).job[j].cleanup <=>
                       d.job[j].cleanup /\ ~(j \in J /\ d.job[j].reserved)
                /\ Release(d, J).job[j].share = d.job[j].share
                /\ Release(d, J).job[j].status = d.job[j].status
<1> DEFINE back == {j \in J : d.job[j].reserved}
           Payers(s, u, p) == {j \in back : /\ d.job[j].share = s /\ d.job[j].day = u
                                            /\ p \in {All, d.job[j].by}}
           Settle(a, from) ==
               LET left == a.reserved - Cardinality(from) IN
               IF a.calls = 0 THEN a
               ELSE [a EXCEPT !.reserved = IF left > 0 THEN left ELSE 0,
                              !.used = @ + Cardinality({j \in from : d.job[j].cleanup})]
           q(j) == [d.job[j] EXCEPT !.reserved = FALSE, !.cleanup = FALSE]
           f == [j \in Job |-> IF j \in back THEN q(j) ELSE d.job[j]]
           g == [s \in Share |-> [u \in 0 .. MaxDay |-> [p \in Payer |->
                    Settle(d.usage[s][u][p], Payers(s, u, p))]]]
<1>1. \A S \in SUBSET Job : Cardinality(S) \in Nat
  BY SharingAssumption, FS_Subset, FS_CardinalityType
<1>2. ASSUME NEW a \in Account, NEW from \in SUBSET Job
      PROVE  Settle(a, from) \in Account
  <2> DEFINE left == a.reserved - Cardinality(from)
             paid == a.used + Cardinality({j \in from : d.job[j].cleanup})
             kept == IF left > 0 THEN left ELSE 0
  <2>1. {j \in from : d.job[j].cleanup} \in SUBSET Job
    OBVIOUS
  <2>2. kept \in Nat /\ paid \in Nat
    BY <1>1, <2>1 DEF Account
  <2>3. Settle(a, from) \in {a, [a EXCEPT !.reserved = kept, !.used = paid]}
    BY Zenon
  <2> HIDE DEF left, paid, kept, Settle
  <2> QED
    BY <2>2, <2>3 DEF Account
<1>3. \A s, u, p : Payers(s, u, p) \in SUBSET Job
  OBVIOUS
<1>4. Release(d, J) = [d EXCEPT !.job = f, !.usage = g]
  BY Zenon DEF Release
<1>5. \A j \in Job : d.job[j] \in Row
  BY DEF Tables
<1>8. \A j \in Job : /\ q(j) \in Row /\ ~q(j).cleanup
                     /\ q(j).share = d.job[j].share /\ q(j).status = d.job[j].status
  BY <1>5, RowReleased
<1> HIDE DEF q
<1>9. f \in [Job -> Row]
  BY <1>5, <1>8
<1> HIDE DEF Settle, Payers
<1>6. g \in Accounts
  BY <1>2, <1>3, UsageType, Zenon DEF Accounts
<1> HIDE DEF g
<1>7. Release(d, J) \in Tables /\ Release(d, J).job = f
  BY <1>4, <1>6, <1>9 DEF Tables
<1> QED
  BY <1>7, <1>8

\* An ended job is over for the room and keeps its slot if it was running.
Stopped(d, J) ==
    LET ended == Ended(d, J, "over")
        ran == {j \in J : d.job[j].status = "running"}
    IN  [ended EXCEPT !.job = [j \in Job |-> [ended.job[j] EXCEPT !.cleanup = @ \/ j \in ran]]]

LEMMA StoppedTable ==
    ASSUME NEW d \in Tables, Awaited(d),
           NEW J, \A j \in J : j \in Job /\ d.job[j].status \in Open
    PROVE  /\ Stopped(d, J) \in Tables
           /\ \A j \in Job :
                /\ Stopped(d, J).job[j].cleanup <=> d.job[j].cleanup
                /\ Stopped(d, J).job[j].share = d.job[j].share
                /\ Stopped(d, J).job[j].status = IF j \in J THEN "over" ELSE d.job[j].status
<1> DEFINE ended == Ended(d, J, "over")
           ran == {j \in J : d.job[j].status = "running"}
           f == [j \in Job |-> [ended.job[j] EXCEPT !.cleanup = @ \/ j \in ran]]
<1>1. ended \in Tables
  BY EndedTable DEF Closed
<1>2. \A j \in Job : ended.job[j] \in Row /\ d.job[j] \in Row
  BY <1>1 DEF Tables
<1>3. ASSUME NEW j \in Job
      PROVE  /\ ended.job[j].cleanup <=> d.job[j].cleanup
             /\ ended.job[j].share = d.job[j].share
             /\ ended.job[j].status = IF j \in J THEN "over" ELSE d.job[j].status
  BY EndedTable DEF Closed
<1>4. ASSUME NEW j \in Job
      PROVE  /\ f[j] \in Row
             /\ f[j].cleanup <=> d.job[j].cleanup
             /\ f[j].share = d.job[j].share
             /\ f[j].status = IF j \in J THEN "over" ELSE d.job[j].status
  <2>1. (ended.job[j].cleanup \/ j \in ran) <=> d.job[j].cleanup
    BY <1>2, <1>3 DEF Awaited, Row
  <2> QED
    BY <1>2, <1>3, <2>1, RowCleanup DEF Row
<1>5. Stopped(d, J) = [ended EXCEPT !.job = f]
  BY Zenon DEF Stopped
<1> HIDE DEF ended
<1>6. Stopped(d, J) \in Tables /\ Stopped(d, J).job = f
  BY <1>1, <1>4, <1>5 DEF Tables
<1> QED
  BY <1>4, <1>6

LEMMA FencedTable ==
    ASSUME NEW d \in Tables, Awaited(d), NEW J \in SUBSET Job
    PROVE  Fenced(d, J) \in Tables /\ Awaited(Fenced(d, J)) /\ SameHeld(d, Fenced(d, J))
<1> DEFINE K == {j \in Job : j \in J /\ d.job[j].status \in Open}
           ran == {j \in J : d.job[j].status = "running"}
           held == Stopped(d, K)
<1>1. ran = {j \in K : d.job[j].status = "running"}
  BY DEF Open, Tables
<1>2. Ended(d, {j \in J : d.job[j].status \in Open}, "over") = Ended(d, K, "over")
  BY DEF Ended
<1>3. Fenced(d, J) = held
  BY <1>1, <1>2, Zenon DEF Fenced, Stopped
<1>4. \A j \in K : j \in Job /\ d.job[j].status \in Open
  OBVIOUS
<1> HIDE DEF K, ran
<1>5. /\ held \in Tables
      /\ \A j \in Job : /\ held.job[j].cleanup <=> d.job[j].cleanup
                        /\ held.job[j].share = d.job[j].share
                        /\ held.job[j].status = IF j \in K THEN "over" ELSE d.job[j].status
  BY <1>4, StoppedTable
<1> QED
  BY <1>3, <1>5 DEF Awaited, SameHeld, Closed

LEMMA FinishTable ==
    ASSUME NEW d \in Tables, Awaited(d),
           NEW J \in SUBSET {j \in Job : d.job[j].status \in Open}
    PROVE  Finish(d, J) \in Tables /\ Awaited(Finish(d, J)) /\ SameHeld(d, Finish(d, J))
<1> DEFINE ran == {j \in J : d.job[j].status = "running"}
           held == Stopped(d, J)
           free == Release(held, J \ ran)
<1>1. Finish(d, J) = Tell(free, J)
  BY Zenon DEF Finish, Stopped
<1>2. J \ ran \in SUBSET Job /\ \A j \in J : j \in Job /\ d.job[j].status \in Open
  OBVIOUS
<1>3. \A j \in J \ ran : ~d.job[j].cleanup
  BY DEF Awaited, Open, Closed, Tables, Row
<1> HIDE DEF ran
<1>4. /\ held \in Tables
      /\ \A j \in Job : /\ held.job[j].cleanup <=> d.job[j].cleanup
                        /\ held.job[j].share = d.job[j].share
                        /\ held.job[j].status = IF j \in J THEN "over" ELSE d.job[j].status
  BY <1>2, StoppedTable
<1> HIDE DEF held
<1>7. free \in Tables
  BY <1>2, <1>4, ReleaseTable
<1>5. ASSUME NEW j \in Job
      PROVE  /\ free.job[j].cleanup <=> d.job[j].cleanup
             /\ free.job[j].share = d.job[j].share
             /\ free.job[j].status = IF j \in J THEN "over" ELSE d.job[j].status
  BY <1>2, <1>3, <1>4, ReleaseTable
<1> HIDE DEF free
<1>6. /\ Tell(free, J) \in Tables
      /\ \A j \in Job : /\ Tell(free, J).job[j].cleanup <=> d.job[j].cleanup
                        /\ Tell(free, J).job[j].share = d.job[j].share
                        /\ Tell(free, J).job[j].status = IF j \in J THEN "over" ELSE d.job[j].status
  BY <1>5, <1>7, TellTable
<1> QED
  BY <1>1, <1>6 DEF Awaited, SameHeld, Closed

-----------------------------------------------------------------------------
(* The pump ends and settles, and leaves every execution its slot. *)

LEMMA SettledTable ==
    ASSUME NEW d \in Tables, Awaited(d)
    PROVE  Settled(d) \in Tables /\ Awaited(Settled(d)) /\ SameHeld(d, Settled(d))
<1> DEFINE C == {j \in Job : d.job[j].status \in Closed /\ ~d.job[j].cleanup}
           N == {j \in Job : d.job[j].status \in Closed /\ d.job[j].response = "none"}
           free == Release(d, C)
<1>1. Settled(d) = Tell(free, N)
  BY Zenon DEF Settled
<1>2. C \in SUBSET Job /\ \A j \in C : ~d.job[j].cleanup
  BY DEF Tables, Row
<1> HIDE DEF C
<1>3. free \in Tables
  BY <1>2, ReleaseTable
<1>4. ASSUME NEW j \in Job
      PROVE  /\ free.job[j].cleanup <=> d.job[j].cleanup
             /\ free.job[j].share = d.job[j].share
             /\ free.job[j].status = d.job[j].status
  BY <1>2, ReleaseTable
<1> HIDE DEF free, N
<1> QED
  BY <1>1, <1>3, <1>4, TellTable DEF Awaited, SameHeld

LEMMA SweptTable ==
    ASSUME NEW d \in Tables, Awaited(d),
           NEW old \in SUBSET {j \in Job : ~d.job[j].cleanup}
    PROVE  Swept(d, old) \in Tables /\ Awaited(Swept(d, old)) /\ SameHeld(d, Swept(d, old))
<1> DEFINE kept(s, u) == \E j \in Job : d.job[j].share = s /\ d.job[j].day = u /\ d.job[j].reserved
           gone == [NoRow EXCEPT !.status = "pruned"]
           f == [j \in Job |-> IF j \in old THEN gone ELSE d.job[j]]
           g == [s \in Share |-> [u \in 0 .. MaxDay |-> [p \in Payer |->
                    IF u < day /\ ~kept(s, u) THEN NoAccount ELSE d.usage[s][u][p]]]]
<1>1. Swept(d, old) = [d EXCEPT !.job = f, !.usage = g]
  BY Zenon DEF Swept
<1>2. gone \in Row /\ ~gone.cleanup /\ gone.status = "pruned"
  BY NoRowType DEF NoRow
<1>3. \A j \in old : j \in Job /\ ~d.job[j].cleanup
  BY DEF Tables, Row
<1>4. f \in [Job -> Row]
  BY <1>2 DEF Tables
<1>5. g \in Accounts
  <2>1. NoAccount \in Account
    BY DEF NoAccount, Account
  <2> HIDE DEF kept
  <2> QED
    BY <2>1, UsageType, Zenon DEF Accounts
<1> HIDE DEF g
<1>6. Swept(d, old) \in Tables /\ Swept(d, old).job = f
  BY <1>1, <1>4, <1>5 DEF Tables
<1> QED
  BY <1>2, <1>3, <1>6 DEF Awaited, SameHeld

LEMMA ExpiredTable ==
    ASSUME NEW d \in Tables, Awaited(d), NEW e \in Expired(d)
    PROVE  e \in Tables /\ Awaited(e) /\ SameHeld(d, e)
<1> DEFINE open == {j \in Job : d.job[j].status \in Open}
<1>1. PICK J \in SUBSET open : \E S : e = SwitchOff(Finish(d, J), S)
  BY DEF Expired
<1> QED
  BY <1>1, FinishTable, SwitchOffTable DEF Awaited, SameHeld

LEMMA PumpedTable ==
    ASSUME NEW d \in Tables, Awaited(d), NEW e \in Pumped(d)
    PROVE  e \in Tables /\ Awaited(e) /\ SameHeld(d, e)
<1> DEFINE off == SwitchOff(d, {s \in Share : ~GrantInForce(s)})
<1>0. e \in {Swept(Settled(x), old) : x \in Expired(off), old \in SUBSET Old(d)}
  BY DEF Pumped
<1>1. PICK x \in Expired(off), old \in SUBSET Old(d) : e = Swept(Settled(x), old)
  BY <1>0
<1>2. off \in Tables /\ Awaited(off) /\ off.job = d.job
  BY SwitchOffTable DEF Awaited
<1> HIDE DEF off
<1>3. x \in Tables /\ Awaited(x) /\ SameHeld(off, x)
  BY <1>2, ExpiredTable
<1>4. Settled(x) \in Tables /\ Awaited(Settled(x)) /\ SameHeld(x, Settled(x))
  BY <1>3, SettledTable
<1>5. old \in SUBSET {j \in Job : ~Settled(x).job[j].cleanup}
  BY <1>2, <1>3, <1>4 DEF SameHeld, Old
<1>6. e \in Tables /\ Awaited(e) /\ SameHeld(Settled(x), e)
  BY <1>1, <1>4, <1>5, SweptTable
<1> QED
  BY <1>2, <1>3, <1>4, <1>6 DEF SameHeld

-----------------------------------------------------------------------------
(* The invariant. *)

\* A native process that may exist has a job that holds its slot.
Guarded == \A j \in Job : exec[j] \in MayLive => db.job[j].cleanup

IInv == BrokerTypeOK /\ Awaited(db) /\ OneWaits(db) /\ Guarded

\* All types but those of the tables.
OtherTypes ==
    /\ source \in [Share -> {"ready", "silent", "off"}]
    /\ erased \subseteq Job /\ stale \subseteq Job /\ stopped \subseteq Team
    /\ day \in 0 .. MaxDay
    /\ writers \subseteq Member /\ owner \in {"member", "removed", "revoked"} /\ turns \subseteq Turn
    /\ exec \in [Job -> {"none", "granted", "live", "lost", "refused", "exited"}]

LEMMA TypeParts == BrokerTypeOK <=> db \in Tables /\ OtherTypes /\ faults \in 0 .. MaxFaults
BY DEF BrokerTypeOK, Tables, Accounts, OtherTypes

\* A step that neither hands out nor takes back an execution: all it does to the
\* tables keeps the slots, and it takes no turn and starts nothing.
Quiet ==
    /\ db' \in Tables /\ Awaited(db') /\ SameHeld(db, db')
    /\ OtherTypes'
    /\ turns' \subseteq turns
    /\ \A j \in Job : exec'[j] \in MayLive => exec[j] \in MayLive

LEMMA QuietStep == ASSUME IInv, Quiet, faults' \in 0 .. MaxFaults PROVE IInv'
<1>1. BrokerTypeOK'
  BY DEF Quiet, OtherTypes, BrokerTypeOK, Tables, Accounts
<1>2. OneWaits(db)'
  BY DEF Quiet, IInv, OneWaits, SameHeld
<1>3. Guarded'
  BY DEF Quiet, IInv, Guarded, SameHeld
<1> QED
  BY <1>1, <1>2, <1>3 DEF Quiet, IInv

LEMMA SameHeldRefl == \A d : SameHeld(d, d)
BY DEF SameHeld

\* Steps that leave the tables alone.
LEMMA QuietOutside ==
    ASSUME IInv,
           \/ \E s \in Share : Appear(s) \/ Vanish(s)
           \/ \E j \in Job : Start(j) \/ Exit(j) \/ Lose(j) \/ StopTeam(j)
           \/ \E t \in Turn : EndTurn(t)
           \/ Rejoin \/ NextDay
    PROVE  Quiet
<1>1. db \in Tables /\ OtherTypes /\ Awaited(db) /\ SameHeld(db, db)
  BY TypeParts, SameHeldRefl DEF IInv
<1>2. ASSUME \E s \in Share : Appear(s) \/ Vanish(s) PROVE Quiet
  BY <1>1, <1>2 DEF Appear, Vanish, Quiet, OtherTypes, room, people
<1>3. ASSUME NEW j \in Job, Start(j) \/ Exit(j) \/ Lose(j) PROVE Quiet
  BY <1>1, <1>3 DEF Start, Exit, Lose, Quiet, OtherTypes, room, people, MayLive
<1>4. ASSUME NEW j \in Job, StopTeam(j) PROVE Quiet
  BY <1>1, <1>4 DEF StopTeam, Quiet, OtherTypes, people
<1>5. ASSUME NEW t \in Turn, EndTurn(t) PROVE Quiet
  BY <1>1, <1>5 DEF EndTurn, Quiet, OtherTypes, room, people
<1>6. ASSUME Rejoin PROVE Quiet
  BY <1>1, <1>6 DEF Rejoin, Quiet, OtherTypes, room
<1>7. ASSUME NextDay PROVE Quiet
  BY <1>1, <1>7, SharingAssumption DEF NextDay, Quiet, OtherTypes, room, people
<1> QED
  BY <1>2, <1>3, <1>4, <1>5, <1>6, <1>7

\* Changes of one grant, one row, one line of a session.
LEMMA GrantTable ==
    ASSUME NEW d \in Tables, NEW s \in Share, NEW g \in Grant
    PROVE  [d EXCEPT !.share[s] = g] \in Tables /\ [d EXCEPT !.share[s] = g].job = d.job
BY DEF Tables

LEMMA RowTable ==
    ASSUME NEW d \in Tables, NEW j \in Job, NEW r \in Row
    PROVE  /\ [d EXCEPT !.job[j] = r] \in Tables
           /\ \A k \in Job : [d EXCEPT !.job[j] = r].job[k] = IF k = j THEN r ELSE d.job[k]
BY DEF Tables

LEMMA LogTable ==
    ASSUME NEW d \in Tables, NEW l \in [Job -> Seq(Message)]
    PROVE  [d EXCEPT !.log = l] \in Tables /\ [d EXCEPT !.log = l].job = d.job
BY DEF Tables

LEMMA SameHeldTrans ==
    ASSUME NEW d, NEW e, NEW f, e.job = d.job, SameHeld(e, f)
    PROVE  SameHeld(d, f)
BY DEF SameHeld

\* The people and the clock as they were: what most handlers leave alone.
LEMMA QuietTables ==
    ASSUME IInv, db' \in Tables, Awaited(db'), SameHeld(db, db'),
           UNCHANGED <<source, room, day, people, turns, exec>>
    PROVE  Quiet
BY TypeParts DEF IInv, Quiet, OtherTypes, room, people

\* A handler that changes a grant and pumps.
LEMMA QuietPump ==
    ASSUME IInv, NEW d \in Tables, d.job = db.job, db' \in Pumped(d)
    PROVE  db' \in Tables /\ Awaited(db') /\ SameHeld(db, db')
<1>1. Awaited(d)
  BY DEF IInv, Awaited
<1> QED
  BY <1>1, PumpedTable, SameHeldTrans

\* The handlers of the owner.
LEMMA QuietOwner ==
    ASSUME IInv,
           \/ Pump \/ Restart
           \/ \E s \in Share : \/ \E allowed \in SUBSET Member, on \in BOOLEAN : Save(s, allowed, on)
                               \/ \E on \in BOOLEAN : Control(s, on)
           \/ \E S \in SUBSET Share : ReportOff(S)
    PROVE  Quiet
<1>1. db \in Tables /\ OtherTypes /\ Awaited(db)
  BY TypeParts DEF IInv
<1>2. ASSUME Pump PROVE Quiet
  BY <1>1, <1>2, QuietPump, QuietTables DEF Pump
<1>3. ASSUME Restart PROVE Quiet
  BY <1>1, <1>3, SwitchOffTable, QuietPump, QuietTables DEF Restart
<1>4. ASSUME NEW s \in Share, NEW allowed \in SUBSET Member, NEW on \in BOOLEAN,
             Save(s, allowed, on)
      PROVE  Quiet
  <2> DEFINE g == [rev |-> db.share[s].rev + 1, on |-> on, allowed |-> allowed]
  <2>1. g \in Grant
    BY <1>1 DEF Tables, Grant
  <2>2. db' \in Pumped([db EXCEPT !.share[s] = g])
    BY <1>4, Zenon DEF Save
  <2> QED
    BY <1>1, <1>4, <2>1, <2>2, GrantTable, QuietPump, QuietTables DEF Save
<1>5. ASSUME NEW s \in Share, NEW on \in BOOLEAN, Control(s, on) PROVE Quiet
  <2> DEFINE g == [db.share[s] EXCEPT !.rev = @ + 1, !.on = on]
  <2>1. g \in Grant
    <3>1. db.share[s] \in Grant /\ db.share[s].rev + 1 \in Nat
      BY <1>1 DEF Tables, Grant
    <3> QED
      BY <3>1, Zenon DEF Grant
  <2>2. [db EXCEPT !.share[s].rev = @ + 1, !.share[s].on = on] = [db EXCEPT !.share[s] = g]
    BY <1>1 DEF Tables, Grant
  <2>3. db' \in Pumped([db EXCEPT !.share[s] = g])
    BY <1>5, <2>2, Zenon DEF Control
  <2> QED
    BY <1>1, <1>5, <2>1, <2>3, GrantTable, QuietPump, QuietTables DEF Control
<1>6. ASSUME NEW S \in SUBSET Share, ReportOff(S) PROVE Quiet
  <2> DEFINE cut == {j \in Job : db.job[j].status \in Open /\ db.job[j].share \in S}
             off == SwitchOff(db, S)
  <2>1. off \in Tables /\ off.job = db.job /\ Awaited(off)
    BY <1>1, SwitchOffTable DEF Awaited
  <2>2. cut \in SUBSET {j \in Job : off.job[j].status \in Open}
    BY <2>1
  <2>3. db' = Finish(off, cut)
    BY <1>6, Zenon DEF ReportOff
  <2> HIDE DEF off, cut
  <2>4. db' \in Tables /\ Awaited(db') /\ SameHeld(db, db')
    BY <2>1, <2>2, <2>3, FinishTable, SameHeldTrans
  <2> QED
    BY <1>1, <1>6, <2>4 DEF ReportOff, Quiet, OtherTypes, room, people
<1> QED
  BY <1>2, <1>3, <1>4, <1>5, <1>6

\* A reservation is made for a member and for the total.
LEMMA ReserveTable ==
    ASSUME NEW d \in Tables, NEW s \in Share, NEW m \in Member, day \in 0 .. MaxDay
    PROVE  Reserve(d, s, m) \in Tables /\ Reserve(d, s, m).job = d.job
<1> DEFINE a(p) == d.usage[s][day][p]
           g == [p \in Payer |-> IF p \in {All, m}
                                 THEN [a(p) EXCEPT !.calls = @ + 1, !.reserved = @ + 1] ELSE a(p)]
           u == [d.usage EXCEPT ![s][day] = g]
<1>1. ASSUME NEW b \in Account
      PROVE  [b EXCEPT !.calls = @ + 1, !.reserved = @ + 1] \in Account
  <2>1. b.calls + 1 \in Nat /\ b.reserved + 1 \in Nat
    BY DEF Account
  <2> QED
    BY <2>1, Zenon DEF Account
<1>2. \A p \in Payer : a(p) \in Account
  BY UsageType
<1> HIDE DEF a
<1>3. g \in [Payer -> Account]
  BY <1>1, <1>2
<1> HIDE DEF g
<1>4. d.usage \in [Share -> [0 .. MaxDay -> [Payer -> Account]]]
  BY Zenon DEF Tables, Accounts
<1>5. u \in Accounts
  BY <1>3, <1>4, Zenon DEF Accounts
<1>6. Reserve(d, s, m) = [d EXCEPT !.usage = u]
  BY Zenon DEF Reserve, g, a, Tables
<1> HIDE DEF u
<1> QED
  BY <1>5, <1>6 DEF Tables

\* The handlers of the borrower, and what the computer says on the way.
LEMMA QuietBorrower ==
    ASSUME IInv,
           \/ \E j \in Job, s \in Share, m \in Member : Ask(j, s, m)
           \/ \E j \in Job : CancelRequest(j) \/ Progress(j) \/ LeaseEnds(j) \/ DeadlineEnds(j)
    PROVE  Quiet
<1>1. db \in Tables /\ OtherTypes /\ Awaited(db)
  BY TypeParts DEF IInv
<1>2. \A j \in Job : db.job[j] \in Row
  BY <1>1 DEF Tables
<1>3. ASSUME NEW j \in Job, NEW s \in Share, NEW m \in Member, Ask(j, s, m)
      PROVE  Quiet
  <2> DEFINE d == Reserve(db, s, m)
             r == [NoRow EXCEPT !.status = "queued", !.share = s, !.rev = db.share[s].rev,
                                !.by = m, !.day = day, !.reserved = TRUE]
  <2>1. d \in Tables /\ d.job = db.job
    BY <1>1, ReserveTable DEF OtherTypes
  <2>2. r \in Row /\ r.cleanup = FALSE /\ r.status = "queued"
    <3>1. db.share[s].rev \in Nat /\ day \in 0 .. MaxDay
      BY <1>1 DEF Tables, Grant, OtherTypes
    <3> QED
      BY <3>1 DEF NoRow, Row, Open
  <2>3. db' = [d EXCEPT !.job[j] = r]
    BY <1>3, Zenon DEF Ask
  <2>4. ~db.job[j].cleanup
    BY <1>1, <1>3 DEF Ask, Awaited, Closed
  <2> HIDE DEF d, r
  <2>5. db' \in Tables /\ \A k \in Job : db'.job[k] = IF k = j THEN r ELSE db.job[k]
    BY <2>1, <2>2, <2>3, RowTable
  <2>6. Awaited(db') /\ SameHeld(db, db')
    BY <1>1, <2>2, <2>4, <2>5 DEF Awaited, SameHeld
  <2> QED
    BY <1>3, <2>5, <2>6, QuietTables DEF Ask
<1>4. ASSUME NEW j \in Job, CancelRequest(j) PROVE Quiet
  <2>1. db' = Finish(db, {j}) /\ {j} \in SUBSET {k \in Job : db.job[k].status \in Open}
    BY <1>4 DEF CancelRequest
  <2> QED
    BY <1>1, <1>4, <2>1, FinishTable, QuietTables DEF CancelRequest
<1>5. ASSUME NEW j \in Job, Progress(j) PROVE Quiet
  <2>1. PICK d \in Pumped(db) : db' = [d EXCEPT !.log[j] = Append(@, "progress")]
    BY <1>5 DEF Progress
  <2>2. d \in Tables /\ Awaited(d) /\ SameHeld(db, d)
    BY <1>1, PumpedTable
  <2>3. db' \in Tables /\ db'.job = d.job
    <3> DEFINE l == [d.log EXCEPT ![j] = Append(@, "progress")]
    <3>1. d.log \in [Job -> Seq(Message)]
      BY <2>2 DEF Tables
    <3>2. l \in [Job -> Seq(Message)]
      BY <3>1 DEF Message
    <3>3. db' = [d EXCEPT !.log = l]
      BY <2>1, <2>2 DEF Tables
    <3> HIDE DEF l
    <3> QED
      BY <2>2, <3>2, <3>3, LogTable
  <2>4. Awaited(db') /\ SameHeld(db, db')
    BY <2>2, <2>3 DEF Awaited, SameHeld
  <2> QED
    BY <1>5, <2>3, <2>4, QuietTables DEF Progress
<1>6. ASSUME NEW j \in Job, LeaseEnds(j) PROVE Quiet
  <2> DEFINE r == [db.job[j] EXCEPT !.leased = FALSE]
  <2>1. /\ r \in Row /\ (r.cleanup <=> db.job[j].cleanup)
        /\ r.share = db.job[j].share /\ r.status = db.job[j].status
    BY <1>2 DEF Row
  <2>2. db' = [db EXCEPT !.job[j] = r]
    BY <1>6, Zenon DEF LeaseEnds
  <2> HIDE DEF r
  <2>3. db' \in Tables /\ \A k \in Job : db'.job[k] = IF k = j THEN r ELSE db.job[k]
    BY <1>1, <2>1, <2>2, RowTable
  <2>4. Awaited(db') /\ SameHeld(db, db')
    BY <1>1, <2>1, <2>3 DEF Awaited, SameHeld
  <2> QED
    BY <1>6, <2>3, <2>4, QuietTables DEF LeaseEnds
<1>7. ASSUME NEW j \in Job, DeadlineEnds(j) PROVE Quiet
  <2> DEFINE r == [db.job[j] EXCEPT !.overdue = TRUE, !.leased = FALSE]
  <2>1. /\ r \in Row /\ (r.cleanup <=> db.job[j].cleanup)
        /\ r.share = db.job[j].share /\ r.status = db.job[j].status
    BY <1>2 DEF Row
  <2>2. db' = [db EXCEPT !.job[j] = r]
    <3>1. [db EXCEPT !.job[j].overdue = TRUE, !.job[j].leased = FALSE] = [db EXCEPT !.job[j] = r]
      BY <1>1, <1>2 DEF Tables, Row
    <3> QED
      BY <1>7, <3>1, Zenon DEF DeadlineEnds
  <2> HIDE DEF r
  <2>3. db' \in Tables /\ \A k \in Job : db'.job[k] = IF k = j THEN r ELSE db.job[k]
    BY <1>1, <2>1, <2>2, RowTable
  <2>4. Awaited(db') /\ SameHeld(db, db')
    BY <1>1, <2>1, <2>3 DEF Awaited, SameHeld
  <2> QED
    BY <1>7, <2>3, <2>4, QuietTables DEF DeadlineEnds
<1> QED
  BY <1>3, <1>4, <1>5, <1>6, <1>7

\* The fences: memberships, devices, erasures.
LEMMA QuietFence ==
    ASSUME IInv,
           \/ \E m \in Member : FenceMember(m) \/ \E E, W \in SUBSET Job : Erase(m, E, W)
           \/ \E to \in {"removed", "revoked"} : FenceOwner(to)
    PROVE  Quiet
<1>1. db \in Tables /\ OtherTypes /\ Awaited(db)
  BY TypeParts DEF IInv
<1>2. ASSUME NEW m \in Member, FenceMember(m) PROVE Quiet
  <2> DEFINE J == {j \in Job : db.job[j].by = m}
  <2>1. db' = Fenced(db, J) /\ J \in SUBSET Job
    BY <1>2 DEF FenceMember
  <2> HIDE DEF J
  <2>2. db' \in Tables /\ Awaited(db') /\ SameHeld(db, db')
    BY <1>1, <2>1, FencedTable
  <2> QED
    BY <1>1, <1>2, <2>2 DEF FenceMember, Quiet, OtherTypes, room
<1>3. ASSUME NEW to \in {"removed", "revoked"}, FenceOwner(to) PROVE Quiet
  <2> DEFINE J == {j \in Job : db.job[j].by # None}
             d == Fenced(db, J)
  <2>1. db' = SwitchOff(d, Share) /\ J \in SUBSET Job
    BY <1>3 DEF FenceOwner
  <2> HIDE DEF J
  <2>2. d \in Tables /\ Awaited(d) /\ SameHeld(db, d)
    BY <1>1, <2>1, FencedTable
  <2> HIDE DEF d
  <2>3. db' \in Tables /\ Awaited(db') /\ SameHeld(db, db')
    BY <2>1, <2>2, SwitchOffTable DEF Awaited, SameHeld
  <2> QED
    BY <1>1, <1>3, <2>3 DEF FenceOwner, Quiet, OtherTypes, room
<1>4. ASSUME NEW m \in Member, NEW E \in SUBSET Job, NEW W \in SUBSET Job, Erase(m, E, W)
      PROVE  Quiet
  <2> DEFINE here == {j \in Job : db.job[j].by = m}
             d == Fenced(db, here)
             l == [j \in Job |->
                     IF j \in E THEN <<>>
                     ELSE IF j \in W THEN <<"context">>
                     ELSE IF j \in here \ erased /\ ~Answered(db, j) THEN Append(d.log[j], "context")
                     ELSE d.log[j]]
  <2>1. db' = [d EXCEPT !.log = l]
    BY <1>4, Zenon DEF Erase
  <2>2. here \in SUBSET Job
    OBVIOUS
  <2>3. erased' \subseteq Job /\ stale' \subseteq Job
    BY <1>1, <1>4, <2>2 DEF Erase, OtherTypes
  <2> HIDE DEF here
  <2>4. d \in Tables /\ Awaited(d) /\ SameHeld(db, d)
    BY <1>1, <2>2, FencedTable
  <2> HIDE DEF d
  <2>5. l \in [Job -> Seq(Message)]
    <3>1. d.log \in [Job -> Seq(Message)]
      BY <2>4 DEF Tables
    <3>2. <<>> \in Seq(Message) /\ <<"context">> \in Seq(Message)
      BY DEF Message
    <3>3. \A j \in Job : Append(d.log[j], "context") \in Seq(Message)
      BY <3>1 DEF Message
    <3> QED
      BY <3>1, <3>2, <3>3, Zenon
  <2> HIDE DEF l
  <2>6. db' \in Tables /\ db'.job = d.job
    BY <2>1, <2>4, <2>5, LogTable
  <2>7. Awaited(db') /\ SameHeld(db, db')
    BY <2>4, <2>6 DEF Awaited, SameHeld
  <2> QED
    BY <1>1, <1>4, <2>3, <2>6, <2>7 DEF Erase, Quiet, OtherTypes, people
<1> QED
  BY <1>2, <1>3, <1>4

-----------------------------------------------------------------------------
(* The steps that take a slot, and those that give it back. *)

\* A job takes its slot only if no job waits on it and no turn is beside it.
LEMMA ClaimStep == ASSUME IInv, NEW j \in Job, Claim(j), faults' = faults PROVE IInv'
<1>1. db \in Tables /\ OtherTypes /\ Awaited(db) /\ OneWaits(db) /\ Guarded /\ faults' \in 0 .. MaxFaults
  BY TypeParts DEF IInv
<1>2. PICK d \in Pumped(db) :
         /\ d.job[j].status = "queued" /\ SlotFree(d, SlotOf[d.job[j].share])
         /\ db' = [d EXCEPT !.job[j].status = "running", !.job[j].leased = TRUE, !.job[j].cleanup = TRUE]
  BY <1>1 DEF Claim
<1>3. d \in Tables /\ Awaited(d) /\ SameHeld(db, d)
  BY <1>1, PumpedTable
<1> DEFINE r == [d.job[j] EXCEPT !.status = "running", !.leased = TRUE, !.cleanup = TRUE]
<1>4. \A k \in Job : d.job[k] \in Row
  BY <1>3 DEF Tables
<1>5. r \in Row /\ r.cleanup = TRUE /\ r.share = d.job[j].share /\ r.status = "running"
  BY <1>4 DEF Row, Open
<1>6. db' = [d EXCEPT !.job[j] = r]
  BY <1>2, <1>3, <1>4 DEF Tables, Row
<1> HIDE DEF r
<1>7. db' \in Tables /\ \A k \in Job : db'.job[k] = IF k = j THEN r ELSE d.job[k]
  BY <1>3, <1>5, <1>6, RowTable
<1>8. Awaited(db)'
  BY <1>3, <1>5, <1>7 DEF Awaited
<1>9. OneWaits(d)
  BY <1>1, <1>3 DEF OneWaits, SameHeld
<1>10. /\ \A k \in Job : d.job[k].cleanup => SlotOf[d.job[k].share] # SlotOf[d.job[j].share]
       /\ \A t \in turns : SlotOf[t] # SlotOf[d.job[j].share]
  BY <1>2 DEF SlotFree, Busy
<1>11. turns' = turns /\ exec' = [exec EXCEPT ![j] = "granted"]
  BY DEF Claim
<1>12. OneWaits(db)'
  BY <1>5, <1>7, <1>9, <1>10, <1>11 DEF OneWaits
<1>13. Guarded'
  <2> SUFFICES ASSUME NEW k \in Job, exec'[k] \in MayLive PROVE db'.job[k].cleanup
    BY DEF Guarded
  <2>1. CASE k = j
    BY <1>5, <1>7, <2>1
  <2>2. CASE k # j
    <3>1. exec'[k] = exec[k]
      BY <1>1, <1>11, <2>2 DEF OtherTypes
    <3>2. db.job[k].cleanup
      BY <1>1, <3>1 DEF Guarded
    <3>3. d.job[k].cleanup
      BY <1>3, <3>2 DEF SameHeld
    <3> QED
      BY <1>7, <2>2, <3>3
  <2> QED
    BY <2>1, <2>2
<1>14. BrokerTypeOK'
  <2>1. OtherTypes'
    BY <1>1 DEF Claim, OtherTypes, room, people
  <2> QED
    BY <1>1, <1>7, <2>1 DEF BrokerTypeOK, Tables, Accounts, OtherTypes
<1> QED
  BY <1>8, <1>12, <1>13, <1>14 DEF IInv

\* Releasing one job whose execution is gone frees its slot and no other.
LEMMA FreedStep ==
    ASSUME IInv, NEW j \in Job, faults' = faults,
           exec' = [exec EXCEPT ![j] = "none"], UNCHANGED <<source, room, day, people, turns>>,
           db' \in Tables, Awaited(db'),
           \A k \in Job : /\ db'.job[k].cleanup => db.job[k].cleanup
                          /\ k # j => (db.job[k].cleanup => db'.job[k].cleanup)
                          /\ db'.job[k].cleanup => db'.job[k].share = db.job[k].share
    PROVE  IInv'
<1>1. db \in Tables /\ OtherTypes /\ OneWaits(db) /\ Guarded /\ faults' \in 0 .. MaxFaults
  BY TypeParts DEF IInv
<1>2. OneWaits(db)'
  BY <1>1 DEF OneWaits
<1>3. Guarded'
  BY <1>1 DEF Guarded, OtherTypes, MayLive
<1>4. BrokerTypeOK'
  <2>1. OtherTypes'
    BY <1>1 DEF OtherTypes, room, people
  <2> QED
    BY <1>1, <2>1 DEF BrokerTypeOK, Tables, Accounts, OtherTypes
<1> QED
  BY <1>2, <1>3, <1>4 DEF IInv

LEMMA AckStep == ASSUME IInv, NEW j \in Job, AckStopped(j), faults' = faults PROVE IInv'
<1>1. db \in Tables /\ Awaited(db)
  BY TypeParts DEF IInv
<1>2. PICK d \in Pumped(db) : d.job[j].status \in Closed /\ db' = Release(d, {j})
  BY DEF AckStopped
<1>3. d \in Tables /\ Awaited(d) /\ SameHeld(db, d)
  BY <1>1, PumpedTable
<1>4. db' \in Tables
  BY <1>2, <1>3, ReleaseTable
<1>5. ASSUME NEW k \in Job
      PROVE  /\ db'.job[k].cleanup <=> d.job[k].cleanup /\ ~(k \in {j} /\ d.job[k].reserved)
             /\ db'.job[k].share = d.job[k].share
             /\ db'.job[k].status = d.job[k].status
  BY <1>2, <1>3, ReleaseTable
<1>6. Awaited(db')
  BY <1>2, <1>3, <1>5 DEF Awaited, Closed
<1>7. \A k \in Job : /\ db'.job[k].cleanup => db.job[k].cleanup
                     /\ k # j => (db.job[k].cleanup => db'.job[k].cleanup)
                     /\ db'.job[k].cleanup => db'.job[k].share = db.job[k].share
  BY <1>3, <1>5 DEF SameHeld
<1> QED
  BY <1>4, <1>6, <1>7, FreedStep DEF AckStopped

LEMMA CompleteStep ==
    ASSUME IInv, NEW j \in Job, NEW to \in Closed, Complete(j, to), faults' = faults
    PROVE  IInv'
<1>1. db \in Tables /\ Awaited(db)
  BY TypeParts DEF IInv
<1> DEFINE over(d) == Ended(Release(d, {j}), {j}, to)
<1>2. PICK d \in Pumped(db) :
         db' = IF to = "completed"
               THEN [over(d) EXCEPT !.job[j].response = "told", !.log[j] = Append(@, "native")]
               ELSE Tell(over(d), {j})
  BY Zenon DEF Complete
<1>3. d \in Tables /\ Awaited(d) /\ SameHeld(db, d)
  BY <1>1, PumpedTable
<1>4. Release(d, {j}) \in Tables
  BY <1>3, ReleaseTable
<1>5. over(d) \in Tables
  BY <1>4, EndedTable
<1>6. ASSUME NEW k \in Job
      PROVE  /\ over(d).job[k].cleanup <=> d.job[k].cleanup /\ ~(k \in {j} /\ d.job[k].reserved)
             /\ over(d).job[k].share = d.job[k].share
             /\ over(d).job[k].status = IF k = j THEN to ELSE d.job[k].status
  BY <1>3, <1>4, ReleaseTable, EndedTable
<1> HIDE DEF over
<1>7. /\ db' \in Tables
      /\ \A k \in Job : /\ db'.job[k].cleanup <=> over(d).job[k].cleanup
                        /\ db'.job[k].share = over(d).job[k].share
                        /\ db'.job[k].status = over(d).job[k].status
  <2>1. CASE to # "completed"
    BY <1>2, <1>5, <2>1, TellTable
  <2>2. CASE to = "completed"
    <3> DEFINE o == over(d)
               r == [o.job[j] EXCEPT !.response = "told"]
               l == [o.log EXCEPT ![j] = Append(@, "native")]
               e == [o EXCEPT !.job[j] = r]
    <3>1. o \in Tables /\ db' = [o EXCEPT !.job[j].response = "told", !.log[j] = Append(@, "native")]
      BY <1>2, <1>5, <2>2
    <3> HIDE DEF o
    <3>2. o.job[j] \in Row /\ o.log \in [Job -> Seq(Message)]
      BY <3>1 DEF Tables
    <3>3. /\ r \in Row /\ (r.cleanup <=> o.job[j].cleanup)
          /\ r.share = o.job[j].share /\ r.status = o.job[j].status
      BY <3>2, RowTold
    <3>4. l \in [Job -> Seq(Message)]
      BY <3>2 DEF Message
    <3>5. db' = [e EXCEPT !.log = l]
      BY <3>1 DEF Tables
    <3> HIDE DEF r, l
    <3>6. e \in Tables /\ \A k \in Job : e.job[k] = IF k = j THEN r ELSE o.job[k]
      BY <3>1, <3>3, RowTable
    <3> HIDE DEF e
    <3>7. db' \in Tables /\ db'.job = e.job
      BY <3>4, <3>5, <3>6, LogTable
    <3> QED
      BY <3>3, <3>6, <3>7 DEF o
  <2> QED
    BY <2>1, <2>2
<1>8. Awaited(db')
  BY <1>3, <1>6, <1>7 DEF Awaited, Closed
<1>9. \A k \in Job : /\ db'.job[k].cleanup => db.job[k].cleanup
                     /\ k # j => (db.job[k].cleanup => db'.job[k].cleanup)
                     /\ db'.job[k].cleanup => db'.job[k].share = db.job[k].share
  BY <1>3, <1>6, <1>7 DEF SameHeld
<1> QED
  BY <1>7, <1>8, <1>9, FreedStep DEF Complete

\* An ordinary turn starts only on a slot no job is counted against.
LEMMA TurnStep == ASSUME IInv, NEW t \in Turn, TakeTurn(t), faults' = faults PROVE IInv'
<1>1. OneWaits(db)'
  BY DEF TakeTurn, IInv, OneWaits, Busy
<1>2. BrokerTypeOK'
  BY DEF TakeTurn, IInv, BrokerTypeOK, room, people
<1>3. Awaited(db)' /\ Guarded'
  BY DEF TakeTurn, IInv, Awaited, Guarded
<1> QED
  BY <1>1, <1>2, <1>3 DEF IInv

-----------------------------------------------------------------------------
(* The theorems. *)

LEMMA InitIInv == Init => IInv
<1> SUFFICES ASSUME Init PROVE IInv
  OBVIOUS
<1>1. BrokerTypeOK
  <2>1. [rev |-> 0, on |-> FALSE, allowed |-> {}] \in Grant
    BY DEF Grant
  <2>2. NoAccount \in Account
    BY DEF NoAccount, Account
  <2>3. db \in Tables
    BY <2>1, <2>2, NoRowType DEF Init, Tables, Accounts
  <2>4. OtherTypes /\ faults \in 0 .. MaxFaults
    BY SharingAssumption DEF Init, OtherTypes
  <2> QED
    BY <2>3, <2>4, TypeParts
<1>2. \A j \in Job : db.job[j] = NoRow /\ exec[j] = "none"
  BY DEF Init
<1> QED
  BY <1>1, <1>2 DEF IInv, Awaited, OneWaits, Guarded, NoRow, MayLive

LEMMA NextIInv == IInv /\ [Next]_vars => IInv'
<1> SUFFICES ASSUME IInv, [Next]_vars PROVE IInv'
  OBVIOUS
<1>1. CASE UNCHANGED vars
  BY <1>1 DEF vars, room, people, IInv, BrokerTypeOK, Awaited, OneWaits, Guarded
<1>2. CASE Fault /\ faults < MaxFaults /\ faults' = faults + 1
  <2>1. faults' \in 0 .. MaxFaults
    BY <1>2, SharingAssumption DEF IInv, BrokerTypeOK
  <2>2. Quiet
    <3>1. \A s \in Share : {s} \in SUBSET Share
      OBVIOUS
    <3> QED
      BY <1>2, <3>1, QuietOutside, QuietOwner, QuietFence DEF Fault
  <2> QED
    BY <2>1, <2>2, QuietStep
<1>3. CASE Work /\ faults' = faults
  <2>1. faults' \in 0 .. MaxFaults
    BY <1>3 DEF IInv, BrokerTypeOK
  <2>2. \/ Quiet
        \/ \E j \in Job : \/ Claim(j) \/ AckStopped(j)
                          \/ \E to \in Closed : Complete(j, to)
        \/ \E t \in Turn : TakeTurn(t)
    BY <1>3, QuietOutside, QuietOwner, QuietBorrower DEF Work
  <2> QED
    BY <1>3, <2>1, <2>2, QuietStep, ClaimStep, AckStep, CompleteStep, TurnStep
<1> QED
  BY <1>1, <1>2, <1>3 DEF Next

LEMMA Invariance == Spec => []IInv
BY InitIInv, NextIInv, PTL DEF Spec

\* Every table the broker writes keeps its types, through the pump, each fence and
\* each ending; in particular no account holds a negative reservation.
THEOREM TypeCorrect == Spec => []BrokerTypeOK
<1>1. IInv => BrokerTypeOK
  BY DEF IInv
<1> QED
  BY <1>1, Invariance, PTL

\* A native slot never holds two executions that may be alive, nor one beside an
\* ordinary turn, whatever ended their jobs and however often the computer, the
\* grant, the membership or the server came and went.
THEOREM SlotsAreExclusive == Spec => []SlotHeldByOne
<1>1. IInv => SlotHeldByOne
  BY DEF IInv, OneWaits, Guarded, SlotHeldByOne
<1> QED
  BY <1>1, Invariance, PTL

-----------------------------------------------------------------------------
(* The accounts and the answers.                                           *)

\* The jobs whose reservation an account holds.
Holding(d, s, u, p) ==
    {j \in Job : /\ d.job[j].reserved /\ d.job[j].share = s /\ d.job[j].day = u
                 /\ p \in {All, d.job[j].by}}

\* The accounts are right, an account in use exists, and only a job that was
\* accepted and not deleted holds a reservation.
Books(d) ==
    /\ \A s \in Share, u \in 0 .. MaxDay, p \in Payer :
          LET a == d.usage[s][u][p]
          IN  /\ a.reserved = Cardinality(Holding(d, s, u, p))
              /\ a.calls = 0 => a.reserved = 0
              /\ a.calls <= CallLimit[p] /\ a.used + a.reserved <= TimeLimit[p]
    /\ \A j \in Job : d.job[j].reserved => d.job[j].status \in Open \cup Closed

\* What the room sees of each job: an open job has no answer yet, one nobody asked
\* for has shown nothing, and what is marked as told is told.
Answers(d) ==
    \A j \in Job :
        /\ \A i \in DOMAIN d.log[j] : d.log[j][i] # "progress" => i = Len(d.log[j])
        /\ (\E i \in DOMAIN d.log[j] : d.log[j][i] = "native")
               => d.job[j].status \in {"completed", "pruned"}
        /\ d.job[j].status = "completed" => Answered(d, j) \/ j \in erased
        /\ d.job[j].status \in Open => ~Answered(d, j)
        /\ d.job[j].status = "none" => d.log[j] = <<>>
        /\ d.job[j].response # "none" => Answered(d, j) \/ j \in erased
        /\ d.job[j].status \in {"none", "pruned"} => d.job[j].by = None

SameJob(q, r) == q.share = r.share /\ q.rev = r.rev /\ q.by = r.by /\ q.day = r.day

\* What ends, fences and the pump may do to the tables: jobs end or are deleted,
\* grants are switched off, and who is not answered hears of the end, once.
Evolves(d, e) ==
    /\ \A s \in Share : e.share[s] = d.share[s] \/ ~e.share[s].on
    /\ \A j \in Job :
        /\ \/ e.job[j].status = d.job[j].status /\ SameJob(e.job[j], d.job[j])
           \/ d.job[j].status \in Open /\ e.job[j].status = "over" /\ SameJob(e.job[j], d.job[j])
           \/ d.job[j].status # "none" /\ e.job[j].status = "pruned" /\ e.job[j].by = None
        /\ \/ e.log[j] = d.log[j]
           \/ /\ e.log[j] = Append(d.log[j], "ended") /\ ~Answered(d, j) /\ j \notin erased
              /\ d.job[j].status # "none" /\ e.job[j].status \notin Open
        /\ \/ e.job[j].response \in {"none", d.job[j].response}
           \/ Answered(e, j) \/ j \in erased

LEMMA AppendAnswers ==
    ASSUME NEW l \in Seq(Message), NEW m \in Message
    PROVE  LET k == Append(l, m)
           IN  /\ k \in Seq(Message) /\ Len(k) = Len(l) + 1 /\ DOMAIN k = 1 .. Len(k)
               /\ DOMAIN l = 1 .. Len(l) /\ Len(l) \in Nat
               /\ k[Len(k)] = m /\ \A i \in DOMAIN l : i \in DOMAIN k /\ k[i] = l[i]
               /\ \A i \in DOMAIN k : i \in DOMAIN l \/ i = Len(k)
OBVIOUS

\* An end is an answer, and nothing un-answers.
LEMMA EvolvesAnswered ==
    ASSUME NEW d \in Tables, NEW e, Evolves(d, e), NEW j \in Job
    PROVE  /\ Answered(d, j) => Answered(e, j)
           /\ e.log[j] # d.log[j] => Answered(e, j)
<1>1. CASE e.log[j] = d.log[j]
  BY <1>1 DEF Answered
<1>2. CASE e.log[j] = Append(d.log[j], "ended") /\ ~Answered(d, j)
  <2>1. d.log[j] \in Seq(Message) /\ "ended" \in Message
    BY DEF Tables, Message
  <2>2. LET l == d.log[j] k == Append(l, "ended")
        IN  Len(k) \in DOMAIN k /\ k[Len(k)] = "ended"
    BY <2>1
  <2> QED
    BY <1>2, <2>2 DEF Answered
<1> QED
  BY <1>1, <1>2 DEF Evolves

LEMMA EvolvesTrans ==
    ASSUME NEW d \in Tables, NEW e \in Tables, NEW f, Evolves(d, e), Evolves(e, f)
    PROVE  Evolves(d, f)
<1>1. ASSUME NEW s \in Share
      PROVE  f.share[s] = d.share[s] \/ ~f.share[s].on
  BY DEF Evolves
<1>2. ASSUME NEW j \in Job
      PROVE  \/ f.job[j].status = d.job[j].status /\ SameJob(f.job[j], d.job[j])
             \/ d.job[j].status \in Open /\ f.job[j].status = "over" /\ SameJob(f.job[j], d.job[j])
             \/ d.job[j].status # "none" /\ f.job[j].status = "pruned" /\ f.job[j].by = None
  <2>1. e.job[j].status = "pruned" => f.job[j].status = "pruned"
    BY DEF Evolves, Open
  <2>2. SameJob(f.job[j], e.job[j]) /\ SameJob(e.job[j], d.job[j]) => SameJob(f.job[j], d.job[j])
    BY DEF SameJob
  <2>3. SameJob(f.job[j], e.job[j]) => f.job[j].by = e.job[j].by
    BY DEF SameJob
  <2> QED
    BY <2>1, <2>2, <2>3 DEF Evolves, Open
<1>3. ASSUME NEW j \in Job
      PROVE  \/ f.log[j] = d.log[j]
             \/ /\ f.log[j] = Append(d.log[j], "ended") /\ ~Answered(d, j) /\ j \notin erased
                /\ d.job[j].status # "none" /\ f.job[j].status \notin Open
  <2>1. CASE e.log[j] = d.log[j]
    <3>1. Answered(e, j) <=> Answered(d, j)
      BY <2>1 DEF Answered
    <3>2. d.job[j].status = "none" => e.job[j].status = "none"
      BY DEF Evolves, Open
    <3> QED
      BY <2>1, <3>1, <3>2 DEF Evolves
  <2>2. CASE e.log[j] # d.log[j]
    <3>1. Answered(e, j)
      BY <2>2, EvolvesAnswered
    <3>2. f.log[j] = e.log[j]
      BY <3>1 DEF Evolves
    <3>3. e.job[j].status \notin Open => f.job[j].status \notin Open
      BY DEF Evolves, Open
    <3> QED
      BY <2>2, <3>2, <3>3 DEF Evolves
  <2> QED
    BY <2>1, <2>2
<1>4. ASSUME NEW j \in Job
      PROVE  \/ f.job[j].response \in {"none", d.job[j].response}
             \/ Answered(f, j) \/ j \in erased
  BY EvolvesAnswered DEF Evolves
<1> QED
  BY <1>1, <1>2, <1>3, <1>4 DEF Evolves

LEMMA EvolvesKeepsAnswers ==
    ASSUME NEW d \in Tables, NEW e, Evolves(d, e), Answers(d)
    PROVE  Answers(e)
<1> SUFFICES ASSUME NEW j \in Job
             PROVE  /\ \A i \in DOMAIN e.log[j] : e.log[j][i] # "progress" => i = Len(e.log[j])
                    /\ (\E i \in DOMAIN e.log[j] : e.log[j][i] = "native")
                           => e.job[j].status \in {"completed", "pruned"}
                    /\ e.job[j].status = "completed" => Answered(e, j) \/ j \in erased
                    /\ e.job[j].status \in Open => ~Answered(e, j)
                    /\ e.job[j].status = "none" => e.log[j] = <<>>
                    /\ e.job[j].response # "none" => Answered(e, j) \/ j \in erased
                    /\ e.job[j].status \in {"none", "pruned"} => e.job[j].by = None
  BY DEF Answers
<1>0. d.log[j] \in Seq(Message) /\ "ended" \in Message
  BY DEF Tables, Message
<1> DEFINE l == d.log[j]
           k == Append(l, "ended")
<1>1. /\ DOMAIN k = 1 .. Len(k) /\ k[Len(k)] = "ended"
      /\ \A i \in DOMAIN k : (i \in DOMAIN l /\ k[i] = l[i]) \/ i = Len(k)
  BY <1>0
<1>2. \A i \in DOMAIN e.log[j] : e.log[j][i] # "progress" => i = Len(e.log[j])
  BY <1>1 DEF Evolves, Answers, Answered
<1>3. (\E i \in DOMAIN e.log[j] : e.log[j][i] = "native") => \E i \in DOMAIN l : l[i] = "native"
  BY <1>1 DEF Evolves
<1>4. (\E i \in DOMAIN e.log[j] : e.log[j][i] = "native")
          => e.job[j].status \in {"completed", "pruned"}
  BY <1>3 DEF Evolves, Answers, Open
<1>5. e.job[j].status = "completed" => Answered(e, j) \/ j \in erased
  BY EvolvesAnswered DEF Evolves, Answers
<1>6. e.job[j].status \in Open => ~Answered(e, j)
  <2> SUFFICES ASSUME e.job[j].status \in Open PROVE ~Answered(e, j)
    OBVIOUS
  <2>1. d.job[j].status = e.job[j].status /\ e.log[j] = d.log[j]
    BY DEF Evolves, Open
  <2> QED
    BY <2>1 DEF Answers, Answered
<1>7. e.job[j].status = "none" => e.log[j] = <<>>
  BY DEF Evolves, Answers
<1>8. e.job[j].response # "none" => Answered(e, j) \/ j \in erased
  BY EvolvesAnswered DEF Evolves, Answers
<1>9. e.job[j].status \in {"none", "pruned"} => e.job[j].by = None
  BY DEF Evolves, Answers, SameJob
<1> QED
  BY <1>2, <1>4, <1>5, <1>6, <1>7, <1>8, <1>9

-----------------------------------------------------------------------------
(* What each transformation of the tables leaves alone. *)

\* A row with its terms and its reservation as they were.
SameTerms(q, r) == SameJob(q, r) /\ q.reserved = r.reserved

\* Tables whose accounts balance if those of d do.
SameBooks(d, e) ==
    /\ e.usage = d.usage
    /\ \A j \in Job : /\ SameTerms(e.job[j], d.job[j])
                      /\ d.job[j].status \in Open \cup Closed => e.job[j].status \in Open \cup Closed

LEMMA SameBooksKeeps ==
    ASSUME NEW d, NEW e, SameBooks(d, e), Books(d)
    PROVE  Books(e)
<1>1. \A s, u, p : Holding(e, s, u, p) = Holding(d, s, u, p)
  BY DEF SameBooks, SameTerms, SameJob, Holding
<1> QED
  BY <1>1 DEF SameBooks, SameTerms, Books

LEMMA EndedRows ==
    ASSUME NEW d \in Tables, NEW J, NEW to
    PROVE  /\ Ended(d, J, to).log = d.log /\ Ended(d, J, to).share = d.share
           /\ Ended(d, J, to).usage = d.usage
           /\ \A j \in Job :
                /\ SameTerms(Ended(d, J, to).job[j], d.job[j])
                /\ Ended(d, J, to).job[j].response = d.job[j].response
                /\ Ended(d, J, to).job[j].status = IF j \in J THEN to ELSE d.job[j].status
<1> DEFINE q(j) == [d.job[j] EXCEPT !.status = to, !.leased = FALSE, !.overdue = FALSE]
           f == [j \in Job |-> IF j \notin J THEN d.job[j] ELSE q(j)]
<1>1. \A j \in Job : d.job[j] \in Row
  BY DEF Tables
<1>2. \A j \in Job : /\ SameTerms(q(j), d.job[j]) /\ q(j).response = d.job[j].response
                     /\ q(j).status = to
  BY <1>1 DEF Row, SameTerms, SameJob
<1>3. Ended(d, J, to) = [d EXCEPT !.job = f]
  BY Zenon DEF Ended
<1>4. \A j \in Job : SameTerms(d.job[j], d.job[j])
  BY DEF SameTerms, SameJob
<1> HIDE DEF q
<1>5. LET e == Ended(d, J, to)
      IN  e.job = f /\ e.log = d.log /\ e.share = d.share /\ e.usage = d.usage
  BY <1>3 DEF Tables
<1> HIDE DEF f
<1>6. \A j \in Job : f[j] = IF j \notin J THEN d.job[j] ELSE q(j)
  BY DEF f
<1> QED
  BY <1>2, <1>4, <1>5, <1>6

LEMMA StoppedRows ==
    ASSUME NEW d \in Tables, NEW J
    PROVE  LET e == Stopped(d, J)
           IN  /\ e.log = d.log /\ e.share = d.share /\ e.usage = d.usage
               /\ \A j \in Job :
                    /\ SameTerms(e.job[j], d.job[j])
                    /\ e.job[j].response = d.job[j].response
                    /\ e.job[j].status = IF j \in J THEN "over" ELSE d.job[j].status
<1> DEFINE ended == Ended(d, J, "over")
           ran == {j \in J : d.job[j].status = "running"}
           q(j) == [ended.job[j] EXCEPT !.cleanup = @ \/ j \in ran]
           f == [j \in Job |-> q(j)]
<1>1. ended \in Tables
  BY EndedTable DEF Closed
<1>2. \A j \in Job : ended.job[j] \in Row
  BY <1>1 DEF Tables
<1>3. Stopped(d, J) = [ended EXCEPT !.job = f]
  BY Zenon DEF Stopped
<1>4. /\ ended.log = d.log /\ ended.share = d.share /\ ended.usage = d.usage
      /\ \A j \in Job :
           /\ SameTerms(ended.job[j], d.job[j])
           /\ ended.job[j].response = d.job[j].response
           /\ ended.job[j].status = IF j \in J THEN "over" ELSE d.job[j].status
  BY EndedRows
<1> HIDE DEF ended, ran
<1>5. \A j \in Job : /\ SameTerms(q(j), ended.job[j]) /\ q(j).response = ended.job[j].response
                     /\ q(j).status = ended.job[j].status
  BY <1>2 DEF Row, SameTerms, SameJob
<1> HIDE DEF q
<1>6. LET e == Stopped(d, J)
      IN  /\ e.log = ended.log /\ e.share = ended.share /\ e.usage = ended.usage
          /\ \A j \in Job : e.job[j] = q(j)
  BY <1>1, <1>3 DEF Tables
<1> QED
  BY <1>4, <1>5, <1>6 DEF SameTerms, SameJob

LEMMA TellRows ==
    ASSUME NEW d \in Tables, NEW J
    PROVE  /\ Tell(d, J).share = d.share /\ Tell(d, J).usage = d.usage
           /\ \A j \in Job :
                /\ SameTerms(Tell(d, J).job[j], d.job[j])
                /\ Tell(d, J).job[j].status = d.job[j].status
                /\ j \notin J => Tell(d, J).job[j].response = d.job[j].response
                /\ Tell(d, J).log[j] = IF j \in J \ erased /\ ~Answered(d, j)
                                       THEN Append(d.log[j], "ended") ELSE d.log[j]
<1> DEFINE mark(j) == IF j \in erased /\ ~Answered(d, j) THEN "unavailable" ELSE "told"
           q(j) == [d.job[j] EXCEPT !.response = mark(j)]
           f == [j \in Job |-> IF j \in J THEN q(j) ELSE d.job[j]]
           g == [j \in Job |-> IF j \in J \ erased /\ ~Answered(d, j)
                               THEN Append(d.log[j], "ended") ELSE d.log[j]]
<1>1. \A j \in Job : d.job[j] \in Row
  BY DEF Tables
<1>2. Tell(d, J) = [d EXCEPT !.job = f, !.log = g]
  BY Zenon DEF Tell
<1> HIDE DEF mark
<1>3. \A j \in Job : SameTerms(q(j), d.job[j]) /\ q(j).status = d.job[j].status
  BY <1>1 DEF Row, SameTerms, SameJob
<1>4. \A j \in Job : SameTerms(d.job[j], d.job[j])
  BY DEF SameTerms, SameJob
<1> HIDE DEF q
<1>5. /\ Tell(d, J).share = d.share /\ Tell(d, J).usage = d.usage
      /\ Tell(d, J).job = f /\ Tell(d, J).log = g
  BY <1>2 DEF Tables
<1>6. \A j \in Job : f[j] = IF j \in J THEN q(j) ELSE d.job[j]
  OBVIOUS
<1>7. \A j \in Job : g[j] = IF j \in J \ erased /\ ~Answered(d, j)
                            THEN Append(d.log[j], "ended") ELSE d.log[j]
  OBVIOUS
<1> HIDE DEF f, g
<1> QED
  BY <1>3, <1>4, <1>5, <1>6, <1>7

LEMMA SwitchOffRows ==
    ASSUME NEW d \in Tables, NEW S
    PROVE  /\ SwitchOff(d, S).job = d.job /\ SwitchOff(d, S).log = d.log
           /\ SwitchOff(d, S).usage = d.usage
           /\ \A s \in Share : \/ SwitchOff(d, S).share[s] = d.share[s]
                              \/ ~SwitchOff(d, S).share[s].on
<1> DEFINE g(s) == [d.share[s] EXCEPT !.on = FALSE, !.rev = @ + 1]
           f == [s \in Share |-> IF s \in S /\ d.share[s].on THEN g(s) ELSE d.share[s]]
<1>1. \A s \in Share : d.share[s] \in Grant
  BY DEF Tables
<1>2. \A s \in Share : ~g(s).on
  BY <1>1 DEF Grant
<1>3. SwitchOff(d, S) = [d EXCEPT !.share = f]
  BY Zenon DEF SwitchOff
<1> HIDE DEF g
<1>4. /\ SwitchOff(d, S).job = d.job /\ SwitchOff(d, S).log = d.log
      /\ SwitchOff(d, S).usage = d.usage /\ SwitchOff(d, S).share = f
  BY <1>3 DEF Tables
<1> QED
  BY <1>2, <1>4

LEMMA ReleaseRows ==
    ASSUME NEW d \in Tables, NEW J
    PROVE  /\ Release(d, J).log = d.log /\ Release(d, J).share = d.share
           /\ \A j \in Job :
                /\ SameJob(Release(d, J).job[j], d.job[j])
                /\ Release(d, J).job[j].response = d.job[j].response
                /\ Release(d, J).job[j].status = d.job[j].status
                /\ Release(d, J).job[j].reserved <=> d.job[j].reserved /\ j \notin J
<1> DEFINE back == {j \in J : d.job[j].reserved}
           q(j) == [d.job[j] EXCEPT !.reserved = FALSE, !.cleanup = FALSE]
           f == [j \in Job |-> IF j \in back THEN q(j) ELSE d.job[j]]
<1>1. \A j \in Job : d.job[j] \in Row
  BY DEF Tables
<1>2. PICK g : Release(d, J) = [d EXCEPT !.job = f, !.usage = g]
  BY Zenon DEF Release
<1>3. \A j \in Job : /\ SameJob(q(j), d.job[j]) /\ q(j).response = d.job[j].response
                     /\ q(j).status = d.job[j].status /\ ~q(j).reserved
  BY <1>1 DEF Row, SameJob
<1>4. \A j \in Job : SameJob(d.job[j], d.job[j])
  BY DEF SameJob
<1> HIDE DEF q
<1>5. Release(d, J).log = d.log /\ Release(d, J).share = d.share /\ Release(d, J).job = f
  BY <1>2 DEF Tables
<1>6. \A j \in Job : f[j] = IF j \in J /\ d.job[j].reserved THEN q(j) ELSE d.job[j]
  OBVIOUS
<1> HIDE DEF f
<1> QED
  BY <1>3, <1>4, <1>5, <1>6

\* What is given back leaves the reserve and enters what is used if it was run.
LEMMA ReleaseBooks ==
    ASSUME NEW d \in Tables, NEW J \in SUBSET Job, Books(d)
    PROVE  Books(Release(d, J))
<1> DEFINE back == {j \in J : d.job[j].reserved}
           Payers(s, u, p) == {j \in back : /\ d.job[j].share = s /\ d.job[j].day = u
                                            /\ p \in {All, d.job[j].by}}
           Ran(s, u, p) == {j \in Payers(s, u, p) : d.job[j].cleanup}
           e == Release(d, J)
<1>1. ASSUME NEW s \in Share, NEW u \in 0 .. MaxDay, NEW p \in Payer
      PROVE  LET a == d.usage[s][u][p] b == e.usage[s][u][p]
                 left == a.reserved - Cardinality(Payers(s, u, p))
             IN  b = IF a.calls = 0 THEN a
                     ELSE [a EXCEPT !.reserved = IF left > 0 THEN left ELSE 0,
                                    !.used = @ + Cardinality(Ran(s, u, p))]
  <2> DEFINE Settle(a, from) ==
                 LET left == a.reserved - Cardinality(from) IN
                 IF a.calls = 0 THEN a
                 ELSE [a EXCEPT !.reserved = IF left > 0 THEN left ELSE 0,
                                !.used = @ + Cardinality({j \in from : d.job[j].cleanup})]
             g == [ss \in Share |-> [uu \in 0 .. MaxDay |-> [pp \in Payer |->
                      Settle(d.usage[ss][uu][pp], Payers(ss, uu, pp))]]]
  <2>1. PICK f : e = [d EXCEPT !.job = f, !.usage = g]
    BY Zenon DEF Release
  <2> HIDE DEF Settle, Payers, e
  <2>2. e.usage = g
    BY <2>1 DEF Tables
  <2>3. g[s][u][p] = Settle(d.usage[s][u][p], Payers(s, u, p))
    OBVIOUS
  <2> QED
    BY <2>2, <2>3 DEF Settle
<1>2. ASSUME NEW s \in Share, NEW u \in 0 .. MaxDay, NEW p \in Payer
      PROVE  /\ Holding(e, s, u, p) = Holding(d, s, u, p) \ Payers(s, u, p)
             /\ Payers(s, u, p) \subseteq Holding(d, s, u, p)
             /\ Ran(s, u, p) \subseteq Payers(s, u, p)
             /\ Holding(d, s, u, p) \subseteq Job
  BY ReleaseRows DEF Holding, SameJob
<1>3. ASSUME NEW s \in Share, NEW u \in 0 .. MaxDay, NEW p \in Payer
      PROVE  LET h == Cardinality(Holding(d, s, u, p)) k == Cardinality(Payers(s, u, p))
                 r == Cardinality(Ran(s, u, p))
             IN  /\ h \in Nat /\ k \in Nat /\ r \in Nat /\ r <= k /\ k <= h
                 /\ Cardinality(Holding(e, s, u, p)) = h - k
  <2> DEFINE H == Holding(d, s, u, p) K == Payers(s, u, p) R == Ran(s, u, p)
             HE == Holding(e, s, u, p)
  <2>1. HE = H \ K /\ K \subseteq H /\ R \subseteq K /\ H \subseteq Job
    BY <1>2
  <2> HIDE DEF H, K, R, HE
  <2>2. IsFiniteSet(H) /\ IsFiniteSet(K) /\ IsFiniteSet(R)
    BY <2>1, SharingAssumption, FS_Subset
  <2>3. Cardinality(H) \in Nat /\ Cardinality(K) \in Nat /\ Cardinality(R) \in Nat
    BY <2>2, FS_CardinalityType
  <2>4. Cardinality(K) <= Cardinality(H) /\ Cardinality(R) <= Cardinality(K)
    BY <2>1, <2>2, FS_Subset
  <2>5. H \cap K = K
    BY <2>1
  <2>6. Cardinality(HE) = Cardinality(H) - Cardinality(K)
    <3>1. Cardinality(H \ K) = Cardinality(H) - Cardinality(H \cap K)
      BY <2>2, FS_Difference
    <3> QED
      BY <2>1, <2>5, <3>1
  <2> QED
    BY <2>3, <2>4, <2>6 DEF H, K, R, HE
<1> HIDE DEF Payers, Ran, e
<1>4. ASSUME NEW s \in Share, NEW u \in 0 .. MaxDay, NEW p \in Payer
      PROVE  LET b == e.usage[s][u][p]
             IN  /\ b.reserved = Cardinality(Holding(e, s, u, p))
                 /\ b.calls = 0 => b.reserved = 0
                 /\ b.calls <= CallLimit[p] /\ b.used + b.reserved <= TimeLimit[p]
  <2> DEFINE a == d.usage[s][u][p]
             b == e.usage[s][u][p]
             h == Cardinality(Holding(d, s, u, p))
             k == Cardinality(Payers(s, u, p))
             r == Cardinality(Ran(s, u, p))
             z == Cardinality(Holding(e, s, u, p))
             left == a.reserved - k
             kept == IF left > 0 THEN left ELSE 0
             paid == a.used + r
  <2>1. /\ a \in Account /\ a.reserved = h /\ (a.calls = 0 => a.reserved = 0)
        /\ a.calls <= CallLimit[p] /\ a.used + a.reserved <= TimeLimit[p]
    BY UsageType DEF Books
  <2>2. b = IF a.calls = 0 THEN a ELSE [a EXCEPT !.reserved = kept, !.used = paid]
    BY <1>1, Zenon
  <2>3. /\ h \in Nat /\ k \in Nat /\ r \in Nat /\ r <= k /\ k <= h /\ z = h - k
    BY <1>3
  <2>4. TimeLimit[p] \in Nat
    BY SharingAssumption
  <2> HIDE DEF a, b, h, k, r, z
  <2>5. CASE a.calls = 0
    <3>1. b = a
      BY <2>2, <2>5
    <3>2. h = 0 /\ z = 0
      BY <2>1, <2>3, <2>5
    <3> QED
      BY <2>1, <3>1, <3>2 DEF a, b, h, z
  <2>6. CASE a.calls # 0
    <3>1. b = [a EXCEPT !.reserved = kept, !.used = paid]
      BY <2>2, <2>6
    <3>2. b.reserved = kept /\ b.used = paid /\ b.calls = a.calls
      BY <2>1, <3>1 DEF Account
    <3>3. kept = z /\ kept + paid <= a.used + a.reserved /\ a.used \in Nat
      BY <2>1, <2>3 DEF Account
    <3>4. b.used + b.reserved <= TimeLimit[p]
      BY <2>1, <2>3, <2>4, <3>2, <3>3 DEF Account
    <3> QED
      BY <2>1, <2>6, <3>2, <3>3, <3>4 DEF a, b, z
  <2> QED
    BY <2>5, <2>6
<1>5. \A j \in Job : e.job[j].reserved => e.job[j].status \in Open \cup Closed
  BY ReleaseRows DEF Books, e
<1> QED
  BY <1>4, <1>5 DEF Books, e

\* Accounts of past days are deleted once nothing in them is reserved.
LEMMA SweptRows ==
    ASSUME NEW d \in Tables, NEW old
    PROVE  /\ Swept(d, old).log = d.log /\ Swept(d, old).share = d.share
           /\ \A j \in Job :
                Swept(d, old).job[j] = IF j \in old THEN [NoRow EXCEPT !.status = "pruned"] ELSE d.job[j]
           /\ \A s \in Share, u \in 0 .. MaxDay, p \in Payer :
                \/ Swept(d, old).usage[s][u][p] = d.usage[s][u][p]
                \/ /\ Swept(d, old).usage[s][u][p] = NoAccount
                   /\ Holding(d, s, u, p) = {}
<1> DEFINE kept(s, u) == \E j \in Job : d.job[j].share = s /\ d.job[j].day = u /\ d.job[j].reserved
           f == [j \in Job |-> IF j \in old THEN [NoRow EXCEPT !.status = "pruned"] ELSE d.job[j]]
           g == [s \in Share |-> [u \in 0 .. MaxDay |-> [p \in Payer |->
                    IF u < day /\ ~kept(s, u) THEN NoAccount ELSE d.usage[s][u][p]]]]
           e == Swept(d, old)
<1>1. e = [d EXCEPT !.job = f, !.usage = g]
  BY Zenon DEF Swept
<1>2. \A s, u, p : ~kept(s, u) => Holding(d, s, u, p) = {}
  BY DEF Holding
<1> HIDE DEF kept, e
<1>3. e.log = d.log /\ e.share = d.share /\ e.job = f /\ e.usage = g
  BY <1>1 DEF Tables
<1>4. ASSUME NEW s \in Share, NEW u \in 0 .. MaxDay, NEW p \in Payer
      PROVE  g[s][u][p] = IF u < day /\ ~kept(s, u) THEN NoAccount ELSE d.usage[s][u][p]
  OBVIOUS
<1> HIDE DEF g
<1> QED
  BY <1>2, <1>3, <1>4 DEF e

LEMMA SweptBooks ==
    ASSUME NEW d \in Tables, Books(d), NEW old, \A j \in Job : j \in old => ~d.job[j].reserved
    PROVE  Books(Swept(d, old))
<1> DEFINE e == Swept(d, old)
           gone == [NoRow EXCEPT !.status = "pruned"]
<1>1. gone.reserved = FALSE
  BY DEF NoRow
<1>2. \A j \in Job : e.job[j] = IF j \in old THEN gone ELSE d.job[j]
  BY SweptRows
<1> HIDE DEF e, gone
<1>3. \A s, u, p : Holding(e, s, u, p) = Holding(d, s, u, p)
  BY <1>1, <1>2 DEF Holding
<1>4. Cardinality({}) = 0
  BY FS_EmptySet
<1>5. NoAccount.calls = 0 /\ NoAccount.used = 0 /\ NoAccount.reserved = 0
  BY DEF NoAccount
<1>6. ASSUME NEW s \in Share, NEW u \in 0 .. MaxDay, NEW p \in Payer
      PROVE  LET a == e.usage[s][u][p]
             IN  /\ a.reserved = Cardinality(Holding(e, s, u, p))
                 /\ a.calls = 0 => a.reserved = 0
                 /\ a.calls <= CallLimit[p] /\ a.used + a.reserved <= TimeLimit[p]
  <2>1. CASE e.usage[s][u][p] = d.usage[s][u][p]
    BY <1>3, <2>1 DEF Books
  <2>2. CASE e.usage[s][u][p] = NoAccount /\ Holding(d, s, u, p) = {}
    <3> DEFINE a == e.usage[s][u][p]
    <3>1. CallLimit[p] \in Nat /\ TimeLimit[p] \in Nat
      BY SharingAssumption
    <3>2. Cardinality(Holding(e, s, u, p)) = 0
      BY <1>3, <1>4, <2>2
    <3>3. a.calls = 0 /\ a.used = 0 /\ a.reserved = 0
      BY <1>5, <2>2
    <3> QED
      BY <3>1, <3>2, <3>3
  <2> QED
    BY <2>1, <2>2, SweptRows DEF e
<1>7. \A j \in Job : e.job[j].reserved => e.job[j].status \in Open \cup Closed
  BY <1>1, <1>2 DEF Books
<1> QED
  BY <1>6, <1>7 DEF Books, e

-----------------------------------------------------------------------------
(* Ends, fences and the pump evolve the tables and keep the books.          *)

LEMMA RowsEvolve ==
    ASSUME NEW d, NEW e, e.log = d.log,
           \A s \in Share : e.share[s] = d.share[s] \/ ~e.share[s].on,
           \A j \in Job :
              /\ SameJob(e.job[j], d.job[j]) /\ e.job[j].response = d.job[j].response
              /\ \/ e.job[j].status = d.job[j].status
                 \/ d.job[j].status \in Open /\ e.job[j].status = "over"
    PROVE  Evolves(d, e)
BY DEF Evolves

LEMMA SwitchOffEvolves ==
    ASSUME NEW d \in Tables, NEW S
    PROVE  Evolves(d, SwitchOff(d, S)) /\ SameBooks(d, SwitchOff(d, S))
<1>1. \A j \in Job : SameJob(d.job[j], d.job[j]) /\ SameTerms(d.job[j], d.job[j])
  BY DEF SameJob, SameTerms
<1> QED
  BY <1>1, SwitchOffRows, RowsEvolve DEF SameBooks

LEMMA StoppedEvolves ==
    ASSUME NEW d \in Tables, NEW J, \A j \in J : j \in Job /\ d.job[j].status \in Open
    PROVE  Evolves(d, Stopped(d, J)) /\ SameBooks(d, Stopped(d, J))
<1> DEFINE e == Stopped(d, J)
<1>1. /\ e.log = d.log /\ e.share = d.share /\ e.usage = d.usage
      /\ \A j \in Job :
           /\ SameTerms(e.job[j], d.job[j]) /\ e.job[j].response = d.job[j].response
           /\ e.job[j].status = IF j \in J THEN "over" ELSE d.job[j].status
  BY StoppedRows
<1> HIDE DEF e
<1>2. Evolves(d, e)
  BY <1>1, RowsEvolve DEF SameTerms
<1>3. SameBooks(d, e)
  BY <1>1 DEF SameBooks, Closed
<1> QED
  BY <1>2, <1>3 DEF e

LEMMA FencedEvolves ==
    ASSUME NEW d \in Tables, NEW J \in SUBSET Job
    PROVE  /\ Evolves(d, Fenced(d, J)) /\ SameBooks(d, Fenced(d, J)) /\ Fenced(d, J).log = d.log
           /\ \A j \in Job : /\ Fenced(d, J).job[j].status =
                                    IF j \in J /\ d.job[j].status \in Open THEN "over"
                                    ELSE d.job[j].status
                             /\ Fenced(d, J).job[j].response = d.job[j].response
<1> DEFINE K == {j \in Job : j \in J /\ d.job[j].status \in Open}
           ran == {j \in J : d.job[j].status = "running"}
           held == Stopped(d, K)
<1>1. ran = {j \in K : d.job[j].status = "running"}
  BY DEF Open, Tables
<1>2. Ended(d, {j \in J : d.job[j].status \in Open}, "over") = Ended(d, K, "over")
  BY DEF Ended
<1>3. Fenced(d, J) = held
  BY <1>1, <1>2, Zenon DEF Fenced, Stopped
<1>4. \A j \in K : j \in Job /\ d.job[j].status \in Open
  OBVIOUS
<1> QED
  BY <1>3, <1>4, StoppedEvolves, StoppedRows

LEMMA ReleaseEvolves ==
    ASSUME NEW d \in Tables, NEW J
    PROVE  Evolves(d, Release(d, J))
BY ReleaseRows, RowsEvolve

\* Whom the end of finish, or of the pump, tells is answered or erased.
LEMMA TellEvolves ==
    ASSUME NEW d \in Tables, NEW J, \A j \in J : j \in Job /\ d.job[j].status \in Closed
    PROVE  /\ Evolves(d, Tell(d, J)) /\ SameBooks(d, Tell(d, J))
           /\ \A j \in J : Answered(Tell(d, J), j) \/ j \in erased
<1> DEFINE e == Tell(d, J)
<1>1. /\ e.share = d.share /\ e.usage = d.usage
      /\ \A j \in Job :
           /\ SameTerms(e.job[j], d.job[j]) /\ e.job[j].status = d.job[j].status
           /\ j \notin J => e.job[j].response = d.job[j].response
           /\ e.log[j] = IF j \in J \ erased /\ ~Answered(d, j)
                         THEN Append(d.log[j], "ended") ELSE d.log[j]
  BY TellRows
<1> HIDE DEF e
<1>2. SameBooks(d, e)
  BY <1>1 DEF SameBooks
<1>3. ASSUME NEW j \in J
      PROVE  Answered(e, j) \/ j \in erased
  <2>1. CASE j \notin erased /\ ~Answered(d, j)
    <3>1. j \in Job /\ d.log[j] \in Seq(Message) /\ "ended" \in Message
      BY DEF Tables, Message
    <3>2. LET l == d.log[j] k == Append(l, "ended")
          IN  Len(k) \in DOMAIN k /\ k[Len(k)] = "ended"
      BY <3>1
    <3>3. e.log[j] = Append(d.log[j], "ended")
      BY <1>1, <2>1, <3>1
    <3> QED
      BY <3>2, <3>3 DEF Answered
  <2>2. CASE Answered(d, j)
    BY <1>1, <2>2 DEF Answered
  <2> QED
    BY <2>1, <2>2
<1>4. Evolves(d, e)
  BY <1>1, <1>3 DEF Evolves, SameTerms, Open, Closed
<1> QED
  BY <1>2, <1>3, <1>4 DEF e

LEMMA FinishEvolves ==
    ASSUME NEW d \in Tables, Awaited(d), Books(d),
           NEW J \in SUBSET {j \in Job : d.job[j].status \in Open}
    PROVE  /\ Evolves(d, Finish(d, J)) /\ Books(Finish(d, J))
           /\ \A j \in Job : Finish(d, J).job[j].status =
                                 IF j \in J THEN "over" ELSE d.job[j].status
<1> DEFINE ran == {j \in J : d.job[j].status = "running"}
           held == Stopped(d, J)
           free == Release(held, J \ ran)
           told == Tell(free, J)
<1>1. Finish(d, J) = told
  BY Zenon DEF Finish, Stopped
<1>2. J \ ran \in SUBSET Job /\ \A j \in J : j \in Job /\ d.job[j].status \in Open
  OBVIOUS
<1> HIDE DEF ran
<1>3. held \in Tables
  BY <1>2, StoppedTable
<1>4. /\ Evolves(d, held) /\ SameBooks(d, held)
      /\ \A j \in Job : held.job[j].status = IF j \in J THEN "over" ELSE d.job[j].status
  BY <1>2, StoppedEvolves, StoppedRows
<1>5. Books(held)
  BY <1>4, SameBooksKeeps
<1> HIDE DEF held
<1>6. free \in Tables /\ Evolves(held, free) /\ Books(free)
  BY <1>2, <1>3, <1>5, ReleaseTable, ReleaseEvolves, ReleaseBooks
<1>7. \A j \in Job : free.job[j].status = held.job[j].status
  BY <1>3, ReleaseRows
<1> HIDE DEF free
<1>8. \A j \in J : j \in Job /\ free.job[j].status \in Closed
  BY <1>2, <1>4, <1>7 DEF Closed
<1>9. told \in Tables /\ Evolves(free, told) /\ SameBooks(free, told)
  BY <1>6, <1>8, TellTable, TellEvolves
<1>10. \A j \in Job : told.job[j].status = free.job[j].status
  BY <1>6, TellRows
<1>11. Books(told)
  BY <1>6, <1>9, SameBooksKeeps
<1> HIDE DEF told
<1>12. Evolves(d, told)
  BY <1>3, <1>4, <1>6, <1>9, EvolvesTrans
<1> QED
  BY <1>1, <1>4, <1>7, <1>10, <1>11, <1>12

\* A job that is overdue does not survive the first part of the pump.
LEMMA ExpiredEvolves ==
    ASSUME NEW d \in Tables, Awaited(d), Books(d), NEW e \in Expired(d)
    PROVE  /\ e \in Tables /\ Evolves(d, e) /\ Books(e)
           /\ \A j \in Job : d.job[j].overdue => e.job[j].status \notin Open
<1> DEFINE open == {j \in Job : d.job[j].status \in Open}
           unfit == {j \in open : ~Authorized(d, j) \/ d.job[j].overdue}
<1>1. PICK J \in SUBSET open : unfit \subseteq J /\ \E S : e = SwitchOff(Finish(d, J), S)
  BY DEF Expired
<1>2. PICK S : e = SwitchOff(Finish(d, J), S)
  BY <1>1
<1>3. \A j \in Job : d.job[j].overdue /\ d.job[j].status \in Open => j \in J
  BY <1>1
<1>4. J \in SUBSET {j \in Job : d.job[j].status \in Open}
  BY <1>1
<1> HIDE DEF open, unfit
<1> DEFINE f == Finish(d, J)
<1>5. f \in Tables
  BY <1>4, FinishTable
<1>6. /\ Evolves(d, f) /\ Books(f)
      /\ \A j \in Job : f.job[j].status = IF j \in J THEN "over" ELSE d.job[j].status
  BY <1>4, FinishEvolves
<1> HIDE DEF f
<1>7. e = SwitchOff(f, S)
  BY <1>2 DEF f
<1>8. e \in Tables /\ e.job = f.job /\ Evolves(f, e) /\ SameBooks(f, e)
  BY <1>5, <1>7, SwitchOffTable, SwitchOffEvolves
<1>9. Evolves(d, e) /\ Books(e)
  BY <1>5, <1>6, <1>8, EvolvesTrans, SameBooksKeeps
<1>10. \A j \in Job : d.job[j].overdue => e.job[j].status \notin Open
  BY <1>3, <1>6, <1>8 DEF Open
<1> QED
  BY <1>8, <1>9, <1>10

\* The second part answers whatever has ended and keeps no reservation for what
\* has stopped.
LEMMA SettledEvolves ==
    ASSUME NEW d \in Tables, Awaited(d), Books(d), Answers(d)
    PROVE  /\ Settled(d) \in Tables /\ Evolves(d, Settled(d)) /\ Books(Settled(d))
           /\ \A j \in Job :
                /\ Settled(d).job[j].status = d.job[j].status
                /\ d.job[j].status \in Closed => Answered(Settled(d), j) \/ j \in erased
                /\ d.job[j].status \in Closed /\ ~d.job[j].cleanup => ~Settled(d).job[j].reserved
<1> DEFINE C == {j \in Job : d.job[j].status \in Closed /\ ~d.job[j].cleanup}
           N == {j \in Job : d.job[j].status \in Closed /\ d.job[j].response = "none"}
           free == Release(d, C)
           told == Tell(free, N)
<1>1. Settled(d) = told
  BY Zenon DEF Settled
<1>2. C \in SUBSET Job
  OBVIOUS
<1>3. \A j \in Job : d.job[j].status \in Closed /\ ~d.job[j].cleanup => j \in C
  OBVIOUS
<1>4. \A j \in Job : j \in N <=> d.job[j].status \in Closed /\ d.job[j].response = "none"
  OBVIOUS
<1>5. N \subseteq Job
  OBVIOUS
<1> HIDE DEF C, N
<1>6. free \in Tables /\ Evolves(d, free) /\ Books(free)
  BY <1>2, ReleaseTable, ReleaseEvolves, ReleaseBooks
<1>7. \A j \in Job : /\ free.job[j].status = d.job[j].status
                     /\ free.job[j].reserved <=> d.job[j].reserved /\ j \notin C
  BY ReleaseRows
<1> HIDE DEF free
<1>8. \A j \in N : j \in Job /\ free.job[j].status \in Closed
  BY <1>4, <1>5, <1>7
<1>9. /\ told \in Tables /\ Evolves(free, told) /\ SameBooks(free, told)
      /\ \A j \in N : Answered(told, j) \/ j \in erased
  BY <1>6, <1>8, TellTable, TellEvolves
<1>10. \A j \in Job : told.job[j].status = free.job[j].status
  BY <1>6, TellRows
<1> HIDE DEF told
<1>11. Evolves(d, told)
  BY <1>6, <1>9, EvolvesTrans
<1>12. Books(told)
  BY <1>6, <1>9, SameBooksKeeps
<1>13. ASSUME NEW j \in Job, d.job[j].status \in Closed
       PROVE  Answered(told, j) \/ j \in erased
  <2>1. CASE j \in N
    BY <1>9, <2>1
  <2>2. CASE j \notin N
    <3>1. Answered(d, j) \/ j \in erased
      BY <1>4, <1>13, <2>2 DEF Answers
    <3> QED
      BY <1>11, <3>1, EvolvesAnswered
  <2> QED
    BY <2>1, <2>2
<1>14. \A j \in Job : d.job[j].status \in Closed /\ ~d.job[j].cleanup => ~told.job[j].reserved
  BY <1>3, <1>7, <1>9 DEF SameBooks, SameTerms
<1> QED
  BY <1>1, <1>7, <1>9, <1>10, <1>11, <1>12, <1>13, <1>14

LEMMA PumpedEvolves ==
    ASSUME NEW d \in Tables, Awaited(d), Books(d), Answers(d), NEW e \in Pumped(d)
    PROVE  /\ e \in Tables /\ Evolves(d, e) /\ Books(e) /\ Answers(e)
           /\ \A j \in Job :
                /\ d.job[j].overdue => e.job[j].status \notin Open
                /\ e.job[j].status \in Closed => Answered(e, j) \/ j \in erased
<1> DEFINE off == SwitchOff(d, {s \in Share : ~GrantInForce(s)})
<1>1. PICK x \in Expired(off), old \in SUBSET Old(d) : e = Swept(Settled(x), old)
  <2>1. e \in {Swept(Settled(x), old) : x \in Expired(off), old \in SUBSET Old(d)}
    BY DEF Pumped
  <2> QED
    BY <2>1
<1>2. off \in Tables /\ off.job = d.job /\ Evolves(d, off) /\ SameBooks(d, off)
  BY SwitchOffTable, SwitchOffEvolves
<1> HIDE DEF off
<1>3. Awaited(off) /\ Books(off) /\ Answers(off)
  BY <1>2, SameBooksKeeps, EvolvesKeepsAnswers DEF Awaited
<1>4. /\ x \in Tables /\ Evolves(off, x) /\ Books(x)
      /\ \A j \in Job : off.job[j].overdue => x.job[j].status \notin Open
  BY <1>2, <1>3, ExpiredEvolves
<1>5. Awaited(x) /\ SameHeld(off, x) /\ Answers(x)
  BY <1>2, <1>3, <1>4, ExpiredTable, EvolvesKeepsAnswers
<1> DEFINE y == Settled(x)
<1>6. /\ y \in Tables /\ Evolves(x, y) /\ Books(y)
      /\ \A j \in Job :
           /\ y.job[j].status = x.job[j].status
           /\ x.job[j].status \in Closed => Answered(y, j) \/ j \in erased
           /\ x.job[j].status \in Closed /\ ~x.job[j].cleanup => ~y.job[j].reserved
  BY <1>4, <1>5, SettledEvolves
<1>7. e = Swept(y, old)
  BY <1>1
<1> HIDE DEF y
<1>8. ASSUME NEW j \in Job, j \in old
      PROVE  ~y.job[j].reserved /\ y.job[j].status # "none"
  <2>1. d.job[j].status \in Closed /\ ~d.job[j].cleanup
    BY <1>1, <1>8 DEF Old
  <2>2. ~x.job[j].cleanup /\ off.job[j].status \in Closed
    BY <1>2, <1>5, <2>1 DEF SameHeld
  <2>3. x.job[j].status \in Closed \cup {"pruned"}
    BY <1>4, <2>2 DEF Evolves, Open, Closed
  <2> QED
    BY <1>6, <2>2, <2>3 DEF Books, Open, Closed
<1>9. Books(e)
  BY <1>6, <1>7, <1>8, SweptBooks
<1>10. /\ e.log = y.log /\ e.share = y.share
       /\ \A j \in Job : e.job[j] = IF j \in old THEN [NoRow EXCEPT !.status = "pruned"] ELSE y.job[j]
  BY <1>6, <1>7, SweptRows
<1>11. LET r == [NoRow EXCEPT !.status = "pruned"]
       IN  r.status = "pruned" /\ r.by = None /\ r.response = "none"
  BY DEF NoRow
<1>12. \A j \in Job : SameJob(y.job[j], y.job[j])
  BY DEF SameJob
<1>13. Evolves(y, e)
  BY <1>8, <1>10, <1>11, <1>12 DEF Evolves
<1>14. e \in Tables
  BY PumpedTable
<1>15. Evolves(d, e)
  <2>1. Evolves(d, x)
    BY <1>2, <1>4, EvolvesTrans
  <2>2. Evolves(d, y)
    BY <1>4, <1>6, <2>1, EvolvesTrans
  <2> QED
    BY <1>6, <1>13, <2>2, EvolvesTrans
<1>16. ASSUME NEW j \in Job
       PROVE  /\ d.job[j].overdue => e.job[j].status \notin Open
              /\ e.job[j].status \in Closed => Answered(e, j) \/ j \in erased
  <2>1. e.job[j].status = IF j \in old THEN "pruned" ELSE x.job[j].status
    BY <1>6, <1>10, <1>11
  <2>2. Answered(y, j) => Answered(e, j)
    BY <1>10 DEF Answered
  <2>3. e.job[j].status \in Closed => x.job[j].status \in Closed
    BY <2>1 DEF Closed
  <2>4. d.job[j].overdue => e.job[j].status \notin Open
    BY <1>2, <1>4, <2>1 DEF Open
  <2> QED
    BY <1>6, <2>2, <2>3, <2>4
<1> QED
  BY <1>9, <1>14, <1>15, <1>16, EvolvesKeepsAnswers

-----------------------------------------------------------------------------
(* Every step keeps the books and the answers, and a grant that is gone is   *)
(* silent.                                                                   *)

Kept == IInv /\ Books(db) /\ Answers(db)

Silent ==
    \A j \in Job : GrantGone(j) =>
        /\ exec[j] = "none" => exec'[j] = "none"
        /\ \A i \in DOMAIN db'.log[j] \ DOMAIN db.log[j] : db'.log[j][i] \notin {"progress", "native"}

Good == Books(db') /\ Answers(db)' /\ Silent

LEMMA KeptTypes ==
    ASSUME Kept
    PROVE  /\ db \in Tables /\ OtherTypes /\ Awaited(db) /\ Books(db) /\ Answers(db)
           /\ \A j \in Job : db.job[j] \in Row /\ db.log[j] \in Seq(Message)
BY TypeParts DEF Kept, IInv, Tables

\* What evolution adds to a session is the end of a job.
LEMMA EvolvesHush ==
    ASSUME NEW d \in Tables, NEW e, Evolves(d, e), NEW j \in Job
    PROVE  \A i \in DOMAIN e.log[j] \ DOMAIN d.log[j] : e.log[j][i] \notin {"progress", "native"}
<1>1. d.log[j] \in Seq(Message) /\ "ended" \in Message
  BY DEF Tables, Message
<1>2. LET l == d.log[j] k == Append(l, "ended")
      IN  \A i \in DOMAIN k \ DOMAIN l : k[i] = "ended"
  BY <1>1
<1> QED
  BY <1>2 DEF Evolves

LEMMA EvolvedStep ==
    ASSUME Kept, NEW d \in Tables, d.log = db.log, Answers(d), Evolves(d, db'), Books(db'),
           erased' = erased, \A j \in Job : exec[j] = "none" => exec'[j] = "none"
    PROVE  Good
<1>1. Answers(db')
  BY EvolvesKeepsAnswers
<1>2. Answers(db)'
  BY <1>1 DEF Answers, Answered
<1>3. Silent
  BY EvolvesHush DEF Silent
<1> QED
  BY <1>2, <1>3 DEF Good

\* A handler that may change a grant, and pumps.
LEMMA PumpStep ==
    ASSUME Kept, NEW d \in Tables, d.job = db.job, d.log = db.log, d.usage = db.usage,
           db' \in Pumped(d), erased' = erased, \A j \in Job : exec[j] = "none" => exec'[j] = "none"
    PROVE  Good
<1>1. Awaited(d) /\ Books(d) /\ Answers(d)
  <2>1. Awaited(d)
    BY KeptTypes DEF Awaited
  <2>2. \A s, u, p : Holding(d, s, u, p) = Holding(db, s, u, p)
    BY DEF Holding
  <2>3. Books(d)
    BY <2>2, KeptTypes DEF Books
  <2>4. \A j \in Job : Answered(d, j) <=> Answered(db, j)
    BY DEF Answered
  <2>5. Answers(d)
    BY <2>4, KeptTypes DEF Answers
  <2> QED
    BY <2>1, <2>3, <2>5
<1>2. Evolves(d, db') /\ Books(db')
  BY <1>1, PumpedEvolves
<1> QED
  BY <1>1, <1>2, EvolvedStep

\* A grant under which the server still accepts something is not gone.
LEMMA AuthorizedStands ==
    ASSUME Kept, NEW d \in Tables, Evolves(db, d), NEW j \in Job,
           d.job[j].status \in Open, Authorized(d, j)
    PROVE  ~GrantGone(j)
<1>1. SameJob(d.job[j], db.job[j])
  BY DEF Evolves, Open
<1>2. db.job[j].share # None => db.job[j].share \in Share
  BY KeptTypes DEF Row
<1> QED
  BY <1>1, <1>2 DEF Evolves, GrantGone, Authorized, SameJob

LEMMA StepOutside ==
    ASSUME Kept, db' = db, erased' = erased, \A j \in Job : exec[j] = "none" => exec'[j] = "none"
    PROVE  Good
<1>1. Books(db') /\ Answers(db)'
  BY KeptTypes DEF Answers, Answered
<1> QED
  BY <1>1 DEF Good, Silent

LEMMA StepOwner ==
    ASSUME Kept,
           \/ Pump \/ Restart
           \/ \E s \in Share : \/ \E allowed \in SUBSET Member, on \in BOOLEAN : Save(s, allowed, on)
                               \/ \E on \in BOOLEAN : Control(s, on)
           \/ \E S \in SUBSET Share : ReportOff(S)
    PROVE  Good
<1>1. db \in Tables /\ Awaited(db) /\ Books(db) /\ Answers(db)
  BY KeptTypes
<1>2. CASE Pump
  BY <1>1, <1>2, PumpStep DEF Pump, room
<1>3. CASE Restart
  <2>1. SwitchOff(db, Share) \in Tables
    BY <1>1, SwitchOffTable
  <2> QED
    BY <1>1, <1>3, <2>1, SwitchOffRows, PumpStep DEF Restart, room
<1>4. ASSUME NEW s \in Share, NEW allowed \in SUBSET Member, NEW on \in BOOLEAN,
             Save(s, allowed, on)
      PROVE  Good
  <2> DEFINE g == [rev |-> db.share[s].rev + 1, on |-> on, allowed |-> allowed]
             d == [db EXCEPT !.share[s] = g]
  <2>1. g \in Grant
    BY <1>1 DEF Tables, Grant
  <2>2. db' \in Pumped(d) /\ erased' = erased /\ exec' = exec
    BY <1>4, Zenon DEF Save, room
  <2> HIDE DEF g
  <2>3. d \in Tables /\ d.job = db.job /\ d.log = db.log /\ d.usage = db.usage
    BY <1>1, <2>1 DEF Tables
  <2> HIDE DEF d
  <2> QED
    BY <2>2, <2>3, PumpStep
<1>5. ASSUME NEW s \in Share, NEW on \in BOOLEAN, Control(s, on) PROVE Good
  <2> DEFINE g == [db.share[s] EXCEPT !.rev = @ + 1, !.on = on]
             d == [db EXCEPT !.share[s] = g]
  <2>1. g \in Grant
    <3>1. db.share[s] \in Grant /\ db.share[s].rev + 1 \in Nat
      BY <1>1 DEF Tables, Grant
    <3> QED
      BY <3>1, Zenon DEF Grant
  <2>2. [db EXCEPT !.share[s].rev = @ + 1, !.share[s].on = on] = d
    BY <1>1 DEF Tables, Grant
  <2>3. db' \in Pumped(d) /\ erased' = erased /\ exec' = exec
    BY <1>5, <2>2, Zenon DEF Control, room
  <2> HIDE DEF g
  <2>4. d \in Tables /\ d.job = db.job /\ d.log = db.log /\ d.usage = db.usage
    BY <1>1, <2>1 DEF Tables
  <2> HIDE DEF d
  <2> QED
    BY <2>3, <2>4, PumpStep
<1>6. ASSUME NEW S \in SUBSET Share, ReportOff(S) PROVE Good
  <2> DEFINE cut == {j \in Job : db.job[j].status \in Open /\ db.job[j].share \in S}
             off == SwitchOff(db, S)
  <2>1. /\ off \in Tables /\ off.job = db.job /\ Evolves(db, off) /\ SameBooks(db, off)
        /\ Awaited(off)
    BY <1>1, SwitchOffTable, SwitchOffEvolves DEF Awaited
  <2>2. cut \in SUBSET {j \in Job : off.job[j].status \in Open}
    BY <2>1
  <2>3. db' = Finish(off, cut) /\ erased' = erased /\ exec' = exec
    BY <1>6, Zenon DEF ReportOff, room
  <2> HIDE DEF off, cut
  <2>4. Books(off)
    BY <1>1, <2>1, SameBooksKeeps
  <2>5. Evolves(off, db') /\ Books(db')
    BY <2>1, <2>2, <2>3, <2>4, FinishEvolves
  <2>6. Evolves(db, db')
    BY <1>1, <2>1, <2>5, EvolvesTrans
  <2> QED
    BY <1>1, <2>3, <2>5, <2>6, EvolvedStep
<1> QED
  BY <1>2, <1>3, <1>4, <1>5, <1>6

LEMMA StepEnds ==
    ASSUME Kept,
           \/ \E j \in Job : CancelRequest(j) \/ AckStopped(j) \/ LeaseEnds(j) \/ DeadlineEnds(j)
           \/ \E m \in Member : FenceMember(m)
           \/ \E to \in {"removed", "revoked"} : FenceOwner(to)
    PROVE  Good
<1>1. /\ db \in Tables /\ Awaited(db) /\ Books(db) /\ Answers(db)
      /\ \A j \in Job : db.job[j] \in Row
  BY KeptTypes
<1>2. ASSUME NEW j \in Job, CancelRequest(j) PROVE Good
  <2>1. db' = Finish(db, {j}) /\ {j} \in SUBSET {k \in Job : db.job[k].status \in Open}
    BY <1>2 DEF CancelRequest
  <2>2. Evolves(db, db') /\ Books(db')
    BY <1>1, <2>1, FinishEvolves
  <2> QED
    BY <1>1, <1>2, <2>2, EvolvedStep DEF CancelRequest, room
<1>3. ASSUME NEW j \in Job, AckStopped(j) PROVE Good
  <2>1. PICK d \in Pumped(db) : db' = Release(d, {j})
    BY <1>3 DEF AckStopped
  <2>2. d \in Tables /\ Evolves(db, d) /\ Books(d)
    BY <1>1, PumpedEvolves
  <2>3. Evolves(d, db') /\ Books(db')
    BY <2>1, <2>2, ReleaseEvolves, ReleaseBooks
  <2>4. Evolves(db, db')
    BY <1>1, <2>2, <2>3, EvolvesTrans
  <2>5. \A k \in Job : exec[k] = "none" => exec'[k] = "none"
    BY <1>3, KeptTypes DEF AckStopped, OtherTypes
  <2> QED
    BY <1>1, <1>3, <2>3, <2>4, <2>5, EvolvedStep DEF AckStopped, room
<1>4. ASSUME NEW j \in Job, NEW r \in Row, SameTerms(r, db.job[j]),
             r.response = db.job[j].response, r.status = db.job[j].status,
             db' = [db EXCEPT !.job[j] = r], erased' = erased, exec' = exec
      PROVE  Good
  <2>1. /\ db'.log = db.log /\ db'.share = db.share /\ db'.usage = db.usage
        /\ \A k \in Job : db'.job[k] = IF k = j THEN r ELSE db.job[k]
    BY <1>1, <1>4 DEF Tables
  <2>2. \A k \in Job : SameTerms(db.job[k], db.job[k])
    BY DEF SameTerms, SameJob
  <2>3. SameBooks(db, db')
    BY <1>4, <2>1, <2>2 DEF SameBooks
  <2>4. Evolves(db, db')
    <3>1. \A k \in Job : /\ SameJob(db'.job[k], db.job[k])
                         /\ db'.job[k].response = db.job[k].response
                         /\ db'.job[k].status = db.job[k].status
      BY <1>4, <2>1, <2>2 DEF SameTerms
    <3> QED
      BY <2>1, <3>1 DEF Evolves
  <2> QED
    BY <1>1, <1>4, <2>3, <2>4, SameBooksKeeps, EvolvedStep
<1>5. ASSUME NEW j \in Job, LeaseEnds(j) PROVE Good
  <2> DEFINE r == [db.job[j] EXCEPT !.leased = FALSE]
  <2>1. /\ r \in Row /\ SameTerms(r, db.job[j])
        /\ r.response = db.job[j].response /\ r.status = db.job[j].status
    BY <1>1 DEF Row, SameTerms, SameJob
  <2>2. db' = [db EXCEPT !.job[j] = r] /\ erased' = erased /\ exec' = exec
    BY <1>5, Zenon DEF LeaseEnds, room
  <2> HIDE DEF r
  <2> QED
    BY <1>4, <2>1, <2>2
<1>6. ASSUME NEW j \in Job, DeadlineEnds(j) PROVE Good
  <2> DEFINE r == [db.job[j] EXCEPT !.overdue = TRUE, !.leased = FALSE]
  <2>1. /\ r \in Row /\ SameTerms(r, db.job[j])
        /\ r.response = db.job[j].response /\ r.status = db.job[j].status
    BY <1>1 DEF Row, SameTerms, SameJob
  <2>2. [db EXCEPT !.job[j].overdue = TRUE, !.job[j].leased = FALSE] = [db EXCEPT !.job[j] = r]
    BY <1>1 DEF Tables, Row
  <2>3. db' = [db EXCEPT !.job[j] = r] /\ erased' = erased /\ exec' = exec
    BY <1>6, <2>2, Zenon DEF DeadlineEnds, room
  <2> HIDE DEF r
  <2> QED
    BY <1>4, <2>1, <2>3
<1>7. ASSUME NEW m \in Member, FenceMember(m) PROVE Good
  <2> DEFINE J == {j \in Job : db.job[j].by = m}
  <2>1. db' = Fenced(db, J) /\ J \in SUBSET Job /\ erased' = erased /\ exec' = exec
    BY <1>7 DEF FenceMember, room
  <2> HIDE DEF J
  <2>2. Evolves(db, db') /\ SameBooks(db, db')
    BY <1>1, <2>1, FencedEvolves
  <2> QED
    BY <1>1, <2>1, <2>2, SameBooksKeeps, EvolvedStep
<1>8. ASSUME NEW to \in {"removed", "revoked"}, FenceOwner(to) PROVE Good
  <2> DEFINE J == {j \in Job : db.job[j].by # None}
             d == Fenced(db, J)
  <2>1. db' = SwitchOff(d, Share) /\ J \in SUBSET Job /\ erased' = erased /\ exec' = exec
    BY <1>8 DEF FenceOwner, room
  <2> HIDE DEF J
  <2>2. d \in Tables /\ Evolves(db, d) /\ SameBooks(db, d)
    BY <1>1, <2>1, FencedTable, FencedEvolves
  <2> HIDE DEF d
  <2>3. Evolves(d, db') /\ SameBooks(d, db')
    BY <2>1, <2>2, SwitchOffEvolves
  <2>4. Evolves(db, db') /\ Books(db')
    BY <1>1, <2>2, <2>3, EvolvesTrans, SameBooksKeeps
  <2> QED
    BY <1>1, <2>1, <2>4, EvolvedStep
<1> QED
  BY <1>2, <1>3, <1>5, <1>6, <1>7, <1>8

\* A reservation is one call and one unit of time, of the member and of the total.
Charged(a) == [a EXCEPT !.calls = @ + 1, !.reserved = @ + 1]

LEMMA ChargedAccount ==
    ASSUME NEW a \in Account
    PROVE  /\ Charged(a).calls = a.calls + 1 /\ Charged(a).reserved = a.reserved + 1
           /\ Charged(a).used = a.used
BY DEF Account, Charged

LEMMA ReserveRows ==
    ASSUME NEW d \in Tables, NEW s \in Share, NEW m \in Member, day \in 0 .. MaxDay
    PROVE  /\ Reserve(d, s, m).log = d.log /\ Reserve(d, s, m).share = d.share
           /\ \A t \in Share, u \in 0 .. MaxDay, p \in Payer :
                Reserve(d, s, m).usage[t][u][p] =
                    IF t = s /\ u = day /\ p \in {All, m}
                    THEN Charged(d.usage[t][u][p]) ELSE d.usage[t][u][p]
<1> DEFINE a(p) == d.usage[s][day][p]
           g == [p \in Payer |-> IF p \in {All, m}
                                 THEN Charged(a(p)) ELSE a(p)]
           v == [d.usage EXCEPT ![s][day] = g]
           e == Reserve(d, s, m)
<1>1. d.usage \in [Share -> [0 .. MaxDay -> [Payer -> Account]]]
  BY Zenon DEF Tables, Accounts
<1>2. e = [d EXCEPT !.usage = v]
  BY Zenon DEF Reserve, Tables, Charged
<1> HIDE DEF e
<1>3. e.log = d.log /\ e.share = d.share /\ e.usage = v
  BY <1>2 DEF Tables
<1> HIDE DEF g
<1>4. ASSUME NEW t \in Share, NEW u \in 0 .. MaxDay
      PROVE  v[t][u] = IF t = s /\ u = day THEN g ELSE d.usage[t][u]
  BY <1>1
<1> HIDE DEF v
<1>5. ASSUME NEW p \in Payer
      PROVE  g[p] = IF p \in {All, m} THEN Charged(a(p)) ELSE a(p)
  BY DEF g
<1>6. ASSUME NEW t \in Share, NEW u \in 0 .. MaxDay, NEW p \in Payer
      PROVE  e.usage[t][u][p] = IF t = s /\ u = day /\ p \in {All, m}
                                THEN Charged(d.usage[t][u][p]) ELSE d.usage[t][u][p]
  BY <1>3, <1>4, <1>5
<1> QED
  BY <1>3, <1>6 DEF e

LEMMA StepAsk ==
    ASSUME Kept, NEW j \in Job, NEW s \in Share, NEW m \in Member, Ask(j, s, m)
    PROVE  Good
<1>1. /\ db \in Tables /\ Books(db) /\ Answers(db) /\ day \in 0 .. MaxDay
  BY KeptTypes DEF OtherTypes
<1> DEFINE d == Reserve(db, s, m)
           r == [NoRow EXCEPT !.status = "queued", !.share = s, !.rev = db.share[s].rev,
                              !.by = m, !.day = day, !.reserved = TRUE]
<1>2. d \in Tables /\ d.job = db.job /\ d.log = db.log /\ d.share = db.share
  BY <1>1, ReserveTable, ReserveRows
<1>3. \A t \in Share, u \in 0 .. MaxDay, p \in Payer :
          d.usage[t][u][p] = IF t = s /\ u = day /\ p \in {All, m}
                             THEN Charged(db.usage[t][u][p]) ELSE db.usage[t][u][p]
  BY <1>1, ReserveRows
<1>4. /\ db' = [d EXCEPT !.job[j] = r] /\ db.job[j].status = "none" /\ erased' = erased /\ exec' = exec
      /\ \A p \in {All, m} : Room(db, s, p)
  BY Zenon DEF Ask, room
<1>5. /\ r.reserved = TRUE /\ r.share = s /\ r.day = day /\ r.by = m /\ r.status = "queued"
      /\ r.response = "none"
  BY DEF NoRow
<1> HIDE DEF d, r
<1>6. /\ db'.log = db.log /\ db'.share = db.share /\ db'.usage = d.usage
      /\ \A k \in Job : db'.job[k] = IF k = j THEN r ELSE db.job[k]
  BY <1>2, <1>4 DEF Tables
<1>7. ~db.job[j].reserved
  BY <1>1, <1>4 DEF Books, Open, Closed
<1>8. ASSUME NEW t \in Share, NEW u \in 0 .. MaxDay, NEW p \in Payer
      PROVE  LET b == db'.usage[t][u][p]
             IN  /\ b.reserved = Cardinality(Holding(db', t, u, p))
                 /\ b.calls = 0 => b.reserved = 0
                 /\ b.calls <= CallLimit[p] /\ b.used + b.reserved <= TimeLimit[p]
  <2> DEFINE a == db.usage[t][u][p]
             b == db'.usage[t][u][p]
             H == Holding(db, t, u, p)
             G == Holding(db', t, u, p)
  <2>1. /\ a \in Account /\ a.reserved = Cardinality(H) /\ (a.calls = 0 => a.reserved = 0)
        /\ a.calls <= CallLimit[p] /\ a.used + a.reserved <= TimeLimit[p]
    BY <1>1, UsageType DEF Books
  <2>2. CASE t = s /\ u = day /\ p \in {All, m}
    <3>1. b = Charged(a)
      BY <1>3, <1>6, <2>2
    <3>2. G = H \cup {j} /\ j \notin H /\ H \in SUBSET Job
      BY <1>5, <1>6, <1>7, <2>2 DEF Holding
    <3>3. a.calls < CallLimit[p] /\ a.used + a.reserved < TimeLimit[p]
      BY <1>4, <2>2 DEF Room
    <3>4. CallLimit[p] \in Nat /\ TimeLimit[p] \in Nat
      BY SharingAssumption
    <3> HIDE DEF a, b, G, H
    <3>5. Cardinality(G) = Cardinality(H) + 1
      BY <3>2, SharingAssumption, FS_Subset, FS_AddElement
    <3>6. b.calls = a.calls + 1 /\ b.reserved = a.reserved + 1 /\ b.used = a.used
      BY <2>1, <3>1, ChargedAccount
    <3>7. /\ b.reserved = Cardinality(G) /\ b.calls # 0
          /\ b.calls <= CallLimit[p] /\ b.used + b.reserved <= TimeLimit[p]
      BY <2>1, <3>3, <3>4, <3>5, <3>6 DEF Account
    <3> QED
      BY <3>7 DEF b, G
  <2>3. CASE ~(t = s /\ u = day /\ p \in {All, m})
    <3>1. b = a
      BY <1>3, <1>6, <2>3
    <3>2. G = H
      BY <1>5, <1>6, <1>7, <2>3 DEF Holding
    <3> QED
      BY <2>1, <3>1, <3>2
  <2> QED
    BY <2>2, <2>3
<1>9. Books(db')
  BY <1>1, <1>5, <1>6, <1>8 DEF Books, Open
<1>10. \A k \in Job : Answered(db', k) <=> Answered(db, k)
  BY <1>6 DEF Answered
<1>11. db.log[j] = <<>> /\ ~Answered(db, j)
  BY <1>1, <1>4 DEF Answers, Answered
<1>12. Answers(db')
  BY <1>1, <1>5, <1>6, <1>10, <1>11 DEF Answers
<1>13. Answers(db)'
  BY <1>4, <1>12 DEF Answers, Answered
<1> QED
  BY <1>4, <1>6, <1>9, <1>13 DEF Good, Silent

\* A job is handed over, speaks or ends under a grant in force.
LEMMA StepClaim == ASSUME Kept, NEW j \in Job, Claim(j) PROVE Good
<1>1. db \in Tables /\ Awaited(db) /\ Books(db) /\ Answers(db) /\ OtherTypes
  BY KeptTypes
<1>2. PICK d \in Pumped(db) :
         /\ d.job[j].status = "queued" /\ Authorized(d, j)
         /\ db' = [d EXCEPT !.job[j].status = "running", !.job[j].leased = TRUE, !.job[j].cleanup = TRUE]
  BY DEF Claim
<1>3. d \in Tables /\ Evolves(db, d) /\ Books(d) /\ Answers(d)
  BY <1>1, PumpedEvolves
<1> DEFINE r == [d.job[j] EXCEPT !.status = "running", !.leased = TRUE, !.cleanup = TRUE]
<1>4. \A k \in Job : d.job[k] \in Row
  BY <1>3 DEF Tables
<1>5. SameTerms(r, d.job[j]) /\ r.status = "running" /\ r.response = d.job[j].response
  BY <1>4 DEF Row, SameTerms, SameJob
<1>6. db' = [d EXCEPT !.job[j] = r]
  BY <1>2, <1>3, <1>4 DEF Tables, Row
<1> HIDE DEF r
<1>7. /\ db'.log = d.log /\ db'.usage = d.usage
      /\ \A k \in Job : db'.job[k] = IF k = j THEN r ELSE d.job[k]
  BY <1>3, <1>6 DEF Tables
<1>8. \A k \in Job : SameTerms(d.job[k], d.job[k])
  BY DEF SameTerms, SameJob
<1>9. Books(db')
  <2>1. SameBooks(d, db')
    BY <1>5, <1>7, <1>8 DEF SameBooks, Open
  <2> QED
    BY <1>3, <2>1, SameBooksKeeps
<1>10. \A k \in Job : Answered(db', k) <=> Answered(d, k)
  BY <1>7 DEF Answered
<1>11. Answers(db')
  BY <1>2, <1>3, <1>5, <1>7, <1>10 DEF Answers, Open
<1>12. Answers(db)'
  BY <1>11 DEF Claim, room, Answers, Answered
<1>13. ~GrantGone(j)
  BY <1>2, <1>3, AuthorizedStands DEF Open
<1>14. Silent
  BY <1>1, <1>3, <1>7, <1>13, EvolvesHush DEF Silent, Claim, OtherTypes
<1> QED
  BY <1>9, <1>12, <1>14 DEF Good

LEMMA StepProgress == ASSUME Kept, NEW j \in Job, Progress(j) PROVE Good
<1>1. db \in Tables /\ Awaited(db) /\ Books(db) /\ Answers(db)
  BY KeptTypes
<1>2. PICK d \in Pumped(db) : MaySpeak(d, j) /\ db' = [d EXCEPT !.log[j] = Append(@, "progress")]
  BY DEF Progress
<1>3. d \in Tables /\ Evolves(db, d) /\ Books(d) /\ Answers(d)
  BY <1>1, PumpedEvolves
<1>4. d.job[j].status \in Open /\ Authorized(d, j)
  BY <1>2 DEF MaySpeak, Open
<1> DEFINE l == d.log[j]
           k == Append(l, "progress")
<1>5. l \in Seq(Message) /\ "progress" \in Message
  BY <1>3 DEF Tables, Message
<1>6. /\ \A i \in DOMAIN k : (i \in DOMAIN l /\ k[i] = l[i]) \/ k[i] = "progress"
      /\ k[Len(k)] = "progress"
  BY <1>5
<1> HIDE DEF k
<1>7. /\ db'.job = d.job /\ db'.usage = d.usage /\ db'.share = d.share
      /\ \A i \in Job : db'.log[i] = IF i = j THEN k ELSE d.log[i]
  BY <1>2, <1>3 DEF Tables, k
<1>8. Books(db')
  <2>1. \A s, u, p : Holding(db', s, u, p) = Holding(d, s, u, p)
    BY <1>7 DEF Holding
  <2> QED
    BY <1>3, <1>7, <2>1 DEF Books
<1>9. \A i \in DOMAIN k : k[i] = "progress"
  BY <1>3, <1>4, <1>6 DEF Answers, Answered
<1>10. \A i \in Job : Answered(db', i) <=> Answered(d, i)
  BY <1>3, <1>4, <1>7, <1>9 DEF Answered, Answers
<1>11. Answers(db')
  <2> SUFFICES ASSUME NEW i \in Job
               PROVE  /\ \A n \in DOMAIN db'.log[i] : db'.log[i][n] # "progress" => n = Len(db'.log[i])
                      /\ (\E n \in DOMAIN db'.log[i] : db'.log[i][n] = "native")
                             => db'.job[i].status \in {"completed", "pruned"}
                      /\ db'.job[i].status = "completed" => Answered(db', i) \/ i \in erased
                      /\ db'.job[i].status \in Open => ~Answered(db', i)
                      /\ db'.job[i].status = "none" => db'.log[i] = <<>>
                      /\ db'.job[i].response # "none" => Answered(db', i) \/ i \in erased
                      /\ db'.job[i].status \in {"none", "pruned"} => db'.job[i].by = None
    BY DEF Answers
  <2>1. CASE i # j
    BY <1>3, <1>7, <1>10, <2>1 DEF Answers
  <2>2. CASE i = j
    BY <1>3, <1>4, <1>7, <1>9, <1>10, <2>2 DEF Answers, Open
  <2> QED
    BY <2>1, <2>2
<1>12. Answers(db)'
  BY <1>11 DEF Progress, room, Answers, Answered
<1>13. ~GrantGone(j)
  BY <1>3, <1>4, AuthorizedStands
<1>14. Silent
  BY <1>1, <1>3, <1>7, <1>13, EvolvesHush DEF Silent, Progress
<1> QED
  BY <1>8, <1>12, <1>14 DEF Good

LEMMA StepComplete ==
    ASSUME Kept, NEW j \in Job, NEW to \in Closed, Complete(j, to)
    PROVE  Good
<1>1. db \in Tables /\ Awaited(db) /\ Books(db) /\ Answers(db) /\ OtherTypes
  BY KeptTypes
<1> DEFINE over(x) == Ended(Release(x, {j}), {j}, to)
<1>2. PICK d \in Pumped(db) :
         /\ MaySpeak(d, j)
         /\ db' = IF to = "completed"
                  THEN [over(d) EXCEPT !.job[j].response = "told", !.log[j] = Append(@, "native")]
                  ELSE Tell(over(d), {j})
  BY Zenon DEF Complete
<1>3. d \in Tables /\ Evolves(db, d) /\ Books(d) /\ Answers(d)
  BY <1>1, PumpedEvolves
<1>4. d.job[j].status \in Open /\ Authorized(d, j)
  BY <1>2 DEF MaySpeak, Open
<1>5. ~GrantGone(j)
  BY <1>3, <1>4, AuthorizedStands
<1> DEFINE f == Release(d, {j})
           o == over(d)
<1>6. f \in Tables /\ Evolves(d, f) /\ Books(f)
  BY <1>3, ReleaseTable, ReleaseEvolves, ReleaseBooks
<1>7. Answers(f)
  BY <1>3, <1>6, EvolvesKeepsAnswers
<1>8. \A k \in Job : f.job[k].status = d.job[k].status
  BY <1>3, ReleaseRows
<1>16. o = Ended(f, {j}, to)
  OBVIOUS
<1> HIDE DEF f, over
<1> HIDE DEF o
<1>9. o \in Tables
  BY <1>6, <1>16, EndedTable
<1>10. /\ o.log = f.log /\ o.share = f.share /\ o.usage = f.usage
       /\ \A k \in Job : /\ SameTerms(o.job[k], f.job[k]) /\ o.job[k].response = f.job[k].response
                         /\ o.job[k].status = IF k = j THEN to ELSE f.job[k].status
  BY <1>6, <1>16, EndedRows
<1>11. Books(o)
  <2>1. SameBooks(f, o)
    BY <1>10 DEF SameBooks
  <2> QED
    BY <1>6, <2>1, SameBooksKeeps
<1>12. db' = IF to = "completed"
             THEN [o EXCEPT !.job[j].response = "told", !.log[j] = Append(@, "native")]
             ELSE Tell(o, {j})
  BY <1>2 DEF o
<1>13. erased' = erased /\ \A k \in Job : exec[k] = "none" => exec'[k] = "none"
  BY <1>1 DEF Complete, room, OtherTypes
<1>14. CASE to # "completed"
  <2>1. to = "over"
    BY <1>14 DEF Closed
  <2>2. Evolves(f, o)
    BY <1>4, <1>8, <1>10, <2>1 DEF Evolves, SameTerms
  <2>3. Evolves(o, db') /\ SameBooks(o, db')
    BY <1>9, <1>10, <1>12, <1>14, TellEvolves
  <2>4. Evolves(db, f)
    BY <1>1, <1>3, <1>6, EvolvesTrans
  <2>5. Evolves(db, o)
    BY <1>1, <1>6, <2>2, <2>4, EvolvesTrans
  <2>6. Evolves(db, db') /\ Books(db')
    BY <1>1, <1>9, <1>11, <2>3, <2>5, EvolvesTrans, SameBooksKeeps
  <2> QED
    BY <1>1, <1>13, <2>6, EvolvedStep
<1>15. CASE to = "completed"
  <2> DEFINE l == o.log[j]
             k == Append(l, "native")
             r == [o.job[j] EXCEPT !.response = "told"]
  <2>1. \A i \in Job : o.job[i] \in Row /\ o.log[i] \in Seq(Message)
    BY <1>9 DEF Tables
  <2>2. l \in Seq(Message) /\ "native" \in Message
    BY <2>1 DEF Message
  <2>3. /\ Len(k) \in DOMAIN k /\ k[Len(k)] = "native"
        /\ \A i \in DOMAIN k : (i \in DOMAIN l /\ k[i] = l[i]) \/ i = Len(k)
    BY <2>2
  <2>4. SameTerms(r, o.job[j]) /\ r.status = o.job[j].status
    BY <2>1 DEF Row, SameTerms, SameJob
  <2> HIDE DEF k, r
  <2>5. /\ db'.usage = o.usage /\ db'.share = o.share
        /\ \A i \in Job : /\ db'.log[i] = IF i = j THEN k ELSE o.log[i]
                          /\ db'.job[i] = IF i = j THEN r ELSE o.job[i]
    BY <1>9, <1>12, <1>15 DEF Tables, k, r
  <2>6. \A i \in Job : SameTerms(o.job[i], o.job[i])
    BY DEF SameTerms, SameJob
  <2>7. SameBooks(o, db')
    BY <2>4, <2>5, <2>6 DEF SameBooks
  <2>8. ~Answered(f, j)
    BY <1>4, <1>7, <1>8 DEF Answers
  <2>9. \A i \in DOMAIN l : l[i] = "progress"
    BY <1>10, <2>8 DEF Answered
  <2>10. Answered(db', j) /\ db'.job[j].status = "completed"
    BY <1>10, <1>15, <2>3, <2>4, <2>5 DEF Answered
  <2>11. ASSUME NEW i \in Job, i # j
         PROVE  /\ db'.log[i] = f.log[i] /\ db'.job[i].status = f.job[i].status
                /\ db'.job[i].by = f.job[i].by /\ db'.job[i].response = f.job[i].response
                /\ (Answered(db', i) <=> Answered(f, i))
    BY <1>10, <2>5, <2>11 DEF Answered, SameTerms, SameJob
  <2>12. Answers(db')
    <3> SUFFICES ASSUME NEW i \in Job
                 PROVE  /\ \A n \in DOMAIN db'.log[i] : db'.log[i][n] # "progress" => n = Len(db'.log[i])
                        /\ (\E n \in DOMAIN db'.log[i] : db'.log[i][n] = "native")
                               => db'.job[i].status \in {"completed", "pruned"}
                        /\ db'.job[i].status = "completed" => Answered(db', i) \/ i \in erased
                        /\ db'.job[i].status \in Open => ~Answered(db', i)
                        /\ db'.job[i].status = "none" => db'.log[i] = <<>>
                        /\ db'.job[i].response # "none" => Answered(db', i) \/ i \in erased
                        /\ db'.job[i].status \in {"none", "pruned"} => db'.job[i].by = None
      BY DEF Answers
    <3>1. CASE i # j
      BY <1>7, <2>11, <3>1 DEF Answers
    <3>2. CASE i = j
      BY <2>3, <2>5, <2>9, <2>10, <3>2 DEF Open
    <3> QED
      BY <3>1, <3>2
  <2>13. Answers(db)'
    BY <1>13, <2>12 DEF Answers, Answered
  <2>14. Evolves(db, f)
    BY <1>1, <1>3, <1>6, EvolvesTrans
  <2>15. Silent
    BY <1>1, <1>5, <1>13, <2>11, <2>14, EvolvesHush DEF Silent
  <2> QED
    BY <1>11, <2>7, <2>13, <2>15, SameBooksKeeps DEF Good
<1> QED
  BY <1>14, <1>15

\* An erasure takes the answers of some requests away and tells the others.
LEMMA StepErase ==
    ASSUME Kept, NEW m \in Member, NEW E \in SUBSET Job, NEW W \in SUBSET Job, Erase(m, E, W)
    PROVE  Good
<1>1. /\ db \in Tables /\ Awaited(db) /\ Books(db) /\ Answers(db)
      /\ \A j \in Job : db.log[j] \in Seq(Message)
  BY KeptTypes
<1> DEFINE here == {j \in Job : db.job[j].by = m}
           d == Fenced(db, here)
           l == [j \in Job |->
                   IF j \in E THEN <<>>
                   ELSE IF j \in W THEN <<"context">>
                   ELSE IF j \in here \ erased /\ ~Answered(db, j) THEN Append(d.log[j], "context")
                   ELSE d.log[j]]
<1>2. db' = [d EXCEPT !.log = l]
  BY Zenon DEF Erase
<1>3. here \in SUBSET Job
  OBVIOUS
<1>4. \A j \in Job : j \in here <=> db.job[j].by = m
  OBVIOUS
<1>5. /\ E \subseteq here /\ W \subseteq here \ (E \cup erased)
      /\ erased' = erased \cup E /\ exec' = exec
  BY DEF Erase
<1> HIDE DEF here
<1>6. d \in Tables
  BY <1>1, <1>3, FencedTable
<1>7. /\ SameBooks(db, d) /\ d.log = db.log
      /\ \A j \in Job : /\ d.job[j].status = IF j \in here /\ db.job[j].status \in Open
                                              THEN "over" ELSE db.job[j].status
                        /\ d.job[j].response = db.job[j].response
  BY <1>1, <1>3, FencedEvolves
<1> HIDE DEF d
<1>8. /\ db'.job = d.job /\ db'.usage = d.usage /\ db'.share = d.share
      /\ \A j \in Job : db'.log[j] = l[j]
  BY <1>2, <1>6 DEF Tables
<1>9. Books(db')
  <2>1. Books(d)
    BY <1>1, <1>7, SameBooksKeeps
  <2>2. \A s, u, p : Holding(db', s, u, p) = Holding(d, s, u, p)
    BY <1>8 DEF Holding
  <2> QED
    BY <1>8, <2>1, <2>2 DEF Books
<1>10. ASSUME NEW j \in here
       PROVE  /\ j \in Job /\ db.job[j].by = m /\ d.job[j].by = m
              /\ db.job[j].status \notin {"none", "pruned"} /\ d.job[j].status \notin {"none", "pruned"}
              /\ d.job[j].status \notin Open
  BY <1>1, <1>3, <1>4, <1>7, SharingAssumption
     DEF Answers, SameBooks, SameTerms, SameJob, Open
<1>11. ASSUME NEW j \in Job
       PROVE  /\ \A i \in DOMAIN l[j] : l[j][i] # "progress" => i = Len(l[j])
              /\ (\E i \in DOMAIN l[j] : l[j][i] = "native") => db.log[j] = l[j]
              /\ (\E i \in DOMAIN l[j] : l[j][i] # "progress") \/ j \in erased \cup E
                     \/ (j \notin here /\ l[j] = db.log[j])
              /\ j \notin here => l[j] = db.log[j]
              /\ \A i \in DOMAIN l[j] \ DOMAIN db.log[j] : l[j][i] = "context"
  <2> DEFINE a == db.log[j]
             k == Append(a, "context")
  <2>1. a \in Seq(Message) /\ "context" \in Message
    BY <1>1 DEF Message
  <2>2. /\ Len(k) \in DOMAIN k /\ k[Len(k)] = "context"
        /\ \A i \in DOMAIN k : (i \in DOMAIN a /\ k[i] = a[i]) \/ i = Len(k)
    BY <2>1
  <2>3. \A i \in DOMAIN a : a[i] # "progress" => i = Len(a)
    BY <1>1 DEF Answers
  <2> HIDE DEF k
  <2>4. CASE j \in E
    <3>1. l[j] = <<>> /\ j \in here
      BY <1>5, <2>4
    <3> QED
      BY <2>4, <3>1
  <2>5. CASE j \notin E /\ j \in W
    <3> DEFINE w == <<"context">>
    <3>1. l[j] = w /\ j \in here
      BY <1>5, <2>5
    <3>2. DOMAIN w = {1} /\ w[1] = "context" /\ Len(w) = 1
      OBVIOUS
    <3> HIDE DEF w, l
    <3> QED
      BY <3>1, <3>2
  <2>6. CASE j \notin E \cup W /\ j \in here \ erased /\ ~Answered(db, j)
    <3>1. l[j] = k
      BY <1>7, <2>6 DEF k
    <3>2. \A i \in DOMAIN a : a[i] = "progress"
      BY <2>6 DEF Answered
    <3> HIDE DEF l
    <3> QED
      BY <2>2, <2>6, <3>1, <3>2
  <2>7. CASE j \notin E \cup W /\ ~(j \in here \ erased /\ ~Answered(db, j))
    <3>1. l[j] = a
      BY <1>7, <2>7
    <3> HIDE DEF l
    <3>2. j \in here \ erased => \E i \in DOMAIN a : a[i] # "progress"
      BY <2>7 DEF Answered
    <3> QED
      BY <2>3, <3>1, <3>2
  <2> QED
    BY <2>4, <2>5, <2>6, <2>7
<1> HIDE DEF l
<1>12. Answers(db)'
  <2> SUFFICES ASSUME NEW j \in Job
               PROVE  /\ \A i \in DOMAIN db'.log[j] : db'.log[j][i] # "progress" => i = Len(db'.log[j])
                      /\ (\E i \in DOMAIN db'.log[j] : db'.log[j][i] = "native")
                             => db'.job[j].status \in {"completed", "pruned"}
                      /\ db'.job[j].status = "completed" => Answered(db', j) \/ j \in erased'
                      /\ db'.job[j].status \in Open => ~Answered(db', j)
                      /\ db'.job[j].status = "none" => db'.log[j] = <<>>
                      /\ db'.job[j].response # "none" => Answered(db', j) \/ j \in erased'
                      /\ db'.job[j].status \in {"none", "pruned"} => db'.job[j].by = None
    BY DEF Answers, Answered
  <2>1. db'.log[j] = l[j] /\ db'.job[j] = d.job[j]
    BY <1>8
  <2>2. CASE j \notin here
    <3>1. /\ l[j] = db.log[j] /\ d.job[j].status = db.job[j].status
          /\ d.job[j].response = db.job[j].response /\ d.job[j].by = db.job[j].by
      BY <1>7, <1>11, <2>2 DEF SameBooks, SameTerms, SameJob
    <3>2. Answered(db', j) <=> Answered(db, j)
      BY <2>1, <3>1 DEF Answered
    <3> QED
      BY <1>1, <1>5, <2>1, <3>1, <3>2 DEF Answers
  <2>3. CASE j \in here
    <3>1. Answered(db', j) \/ j \in erased'
      BY <1>5, <1>11, <2>1, <2>3 DEF Answered
    <3>2. (\E i \in DOMAIN l[j] : l[j][i] = "native") => db'.job[j].status \in {"completed", "pruned"}
      BY <1>1, <1>7, <1>11, <2>1 DEF Answers, Open
    <3> QED
      BY <1>10, <1>11, <2>1, <2>3, <3>1, <3>2
  <2> QED
    BY <2>2, <2>3
<1>13. Silent
  BY <1>5, <1>8, <1>11 DEF Silent
<1> QED
  BY <1>9, <1>12, <1>13 DEF Good

LEMMA StepGood == ASSUME Kept, Next PROVE Good
<1>1. CASE Fault
  <2>1. \A s \in Share : {s} \in SUBSET Share
    OBVIOUS
  <2>2. ASSUME NEW s \in Share, Vanish(s) PROVE Good
    BY <2>2, StepOutside DEF Vanish, room
  <2>3. ASSUME NEW j \in Job, StopTeam(j) PROVE Good
    BY <2>3, StepOutside DEF StopTeam
  <2>4. CASE \E s \in Share : ReportOff({s})
    BY <2>1, <2>4, StepOwner
  <2>5. CASE ReportOff(Share) \/ Restart
    BY <2>5, StepOwner
  <2>6. CASE \/ \E m \in Member : FenceMember(m)
             \/ \E to \in {"removed", "revoked"} : FenceOwner(to)
    BY <2>6, StepEnds
  <2> QED
    BY <1>1, <2>2, <2>3, <2>4, <2>5, <2>6, StepErase DEF Fault
<1>2. CASE Work
  <2>1. OtherTypes
    BY KeptTypes
  <2>2. ASSUME NEW s \in Share, Appear(s) PROVE Good
    BY <2>2, StepOutside DEF Appear, room
  <2>3. ASSUME NEW j \in Job, Start(j) \/ Exit(j) \/ Lose(j) PROVE Good
    BY <2>1, <2>3, StepOutside DEF Start, Exit, Lose, room, OtherTypes
  <2>4. CASE Rejoin \/ NextDay \/ \E t \in Turn : TakeTurn(t) \/ EndTurn(t)
    BY <2>4, StepOutside DEF Rejoin, NextDay, TakeTurn, EndTurn, room
  <2>5. CASE \/ Pump
             \/ \E s \in Share : \/ \E allowed \in SUBSET Member, on \in BOOLEAN : Save(s, allowed, on)
                                 \/ \E on \in BOOLEAN : Control(s, on)
    BY <2>5, StepOwner
  <2>6. CASE \E j \in Job : CancelRequest(j) \/ AckStopped(j) \/ LeaseEnds(j) \/ DeadlineEnds(j)
    BY <2>6, StepEnds
  <2> QED
    BY <1>2, <2>2, <2>3, <2>4, <2>5, <2>6, StepAsk, StepClaim, StepProgress, StepComplete DEF Work
<1> QED
  BY <1>1, <1>2 DEF Next

LEMMA KeptInvariance == Spec => []Kept
<1>1. Init => Kept
  <2> SUFFICES ASSUME Init PROVE Kept
    OBVIOUS
  <2>1. IInv
    BY InitIInv
  <2>2. /\ \A j \in Job : db.job[j] = NoRow /\ db.log[j] = <<>>
        /\ \A s \in Share, u \in 0 .. MaxDay, p \in Payer : db.usage[s][u][p] = NoAccount
    BY DEF Init
  <2>3. \A s, u, p : Holding(db, s, u, p) = {}
    BY <2>2 DEF Holding, NoRow
  <2>4. Books(db)
    <3>1. \A p \in Payer : CallLimit[p] \in Nat /\ TimeLimit[p] \in Nat
      BY SharingAssumption
    <3>2. Cardinality({}) = 0
      BY FS_EmptySet
    <3>3. NoAccount.calls = 0 /\ NoAccount.used = 0 /\ NoAccount.reserved = 0 /\ NoRow.reserved = FALSE
      BY DEF NoAccount, NoRow
    <3>4. ASSUME NEW s \in Share, NEW u \in 0 .. MaxDay, NEW p \in Payer
          PROVE  LET a == db.usage[s][u][p]
                 IN  /\ a.reserved = Cardinality(Holding(db, s, u, p))
                     /\ a.calls = 0 => a.reserved = 0
                     /\ a.calls <= CallLimit[p] /\ a.used + a.reserved <= TimeLimit[p]
      <4> DEFINE a == db.usage[s][u][p]
      <4>1. a.calls = 0 /\ a.used = 0 /\ a.reserved = 0
        BY <2>2, <3>3
      <4>2. CallLimit[p] \in Nat /\ TimeLimit[p] \in Nat
        BY <3>1
      <4>3. Cardinality(Holding(db, s, u, p)) = 0
        BY <2>3, <3>2
      <4> QED
        BY <4>1, <4>2, <4>3
    <3>5. \A j \in Job : ~db.job[j].reserved
      BY <2>2, <3>3
    <3> QED
      BY <3>4, <3>5 DEF Books
  <2>5. Answers(db)
    BY <2>2 DEF Answers, Answered, NoRow, Open
  <2> QED
    BY <2>1, <2>4, <2>5 DEF Kept
<1>2. Kept /\ [Next]_vars => Kept'
  <2> SUFFICES ASSUME Kept, [Next]_vars PROVE Kept'
    OBVIOUS
  <2>1. IInv'
    BY NextIInv DEF Kept
  <2>2. Books(db') /\ Answers(db)'
    <3>1. CASE Next
      BY <3>1, StepGood DEF Good
    <3>2. CASE UNCHANGED vars
      BY <3>2, StepOutside DEF vars, room, Good
    <3> QED
      BY <3>1, <3>2
  <2>3. Books(db)'
    BY <2>2 DEF Books, Holding
  <2> QED
    BY <2>1, <2>2, <2>3 DEF Kept
<1> QED
  BY <1>1, <1>2, PTL DEF Spec

\* Every account of every share and day agrees with the jobs that will pay into
\* it, and no allowance is exceeded even if all that is out is used.
THEOREM AccountsKept == Spec => []BooksKept
<1>1. Kept => BooksKept
  <2> SUFFICES ASSUME Kept PROVE BooksKept
    OBVIOUS
  <2>1. BudgetKept
    BY DEF Kept, Books, BudgetKept
  <2>2. \A s \in Share, u \in 0 .. MaxDay, p \in Payer :
            db.usage[s][u][p].reserved = Cardinality(Holding(db, s, u, p))
    BY DEF Kept, Books
  <2>3. ReservesBalance
    <3> SUFFICES ASSUME NEW s \in Share, NEW u \in 0 .. MaxDay, NEW p \in Payer
                 PROVE  db.usage[s][u][p].reserved =
                            Cardinality({j \in Job : /\ db.job[j].reserved /\ db.job[j].share = s
                                                     /\ db.job[j].day = u /\ p \in {All, db.job[j].by}})
      BY Zenon DEF ReservesBalance
    <3> DEFINE S == {j \in Job : /\ db.job[j].reserved /\ db.job[j].share = s
                                /\ db.job[j].day = u /\ p \in {All, db.job[j].by}}
    <3>1. S = Holding(db, s, u, p)
      BY DEF Holding
    <3> HIDE DEF S
    <3>2. Cardinality(S) = db.usage[s][u][p].reserved
      BY <2>2, <3>1
    <3> QED
      BY <3>2 DEF S
  <2> QED
    BY <2>1, <2>3 DEF BooksKept
<1> QED
  BY <1>1, KeptInvariance, PTL

\* One answer to each request, the Agent's exactly if the job was completed, and
\* one pass of the pump leaves nothing overdue open and nothing ended unanswered.
THEOREM RequestsAnswered == Spec => []AnsweredOnce
<1>1. Kept => AnsweredOnce
  <2> SUFFICES ASSUME Kept PROVE AnsweredOnce
    OBVIOUS
  <2>1. AnswerIsLast /\ CompletedMeansAnswered
    BY DEF Kept, Answers, AnswerIsLast, CompletedMeansAnswered
  <2>2. PumpAnswers
    BY KeptTypes, PumpedEvolves DEF PumpAnswers
  <2> QED
    BY <2>1, <2>2 DEF AnsweredOnce
<1> QED
  BY <1>1, KeptInvariance, PTL

\* A job whose grant was switched off or changed is neither handed over nor heard.
THEOREM GrantsEnd == Spec => SilentAfterOff
<1>1. Kept /\ [Next]_vars => [Silent]_vars
  BY StepGood DEF Good
<1>2. Spec => [][Silent]_vars
  BY <1>1, KeptInvariance, PTL DEF Spec
<1> QED
  BY <1>2, PTL DEF SilentAfterOff, Silent
=============================================================================
