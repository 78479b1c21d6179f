---------------------------- MODULE AgentSharing ----------------------------
(***************************************************************************)
(* Sharing of one member's native Agents in one project: the switchable    *)
(* grants of the owner's computer, the jobs other members ask for under a  *)
(* grant, the lease and the deadline that end a job, the native slot that  *)
(* stays taken until the computer proves the execution has stopped, the    *)
(* daily allowance, and the ordinary claims that compete for the slot.     *)
(*                                                                         *)
(* Source: apps/server/src/agent-sharing.ts, agent-sharing-store.ts, the   *)
(* fences in database.ts and packages/bridge/src/shared-agent-controller.ts*)
(*                                                                         *)
(* The server runs one handler at a time, and most handlers run the pump   *)
(* first, so an action maps the tables through Pumped and then through its *)
(* own transaction.  A duration is counted in requests: each reserves one  *)
(* and uses one if it started.  Lease and deadline are flags of the clock. *)
(***************************************************************************)
EXTENDS Integers, Sequences, FiniteSets

CONSTANTS
    Share,          \* agent_shares rows, one for each source runtime
    Job,            \* requests for a shared Agent that may be accepted
    Member,         \* the members who may borrow; each asks in one session
    Turn,           \* ordinary claims (and holds of deleted ones) of the owner
    Slot, SlotOf,   \* the native slot (harness) a share or a turn executes on
    Team,           \* jobs that are steps of an Agent team run
    CallLimit,      \* limits.total_daily_calls and per_member_daily_calls
    TimeLimit,      \* limits.total_daily_seconds and per_member_daily_seconds
    All,            \* the member_user_id '' of the total
    None,           \* no share, no requester
    MaxGrants,      \* bound: switches of one grant by its owner
    MaxOutputs,     \* bound: progress events per job
    MaxDay,         \* bound: days after the first
    MaxFaults       \* bound: interruptions (Fault)

Payer == Member \cup {All}

ASSUME SharingAssumption ==
    /\ IsFiniteSet(Job)
    /\ SlotOf \in [Share \cup Turn -> Slot]
    /\ Team \subseteq Job /\ All \notin Member /\ None \notin Share \cup Member
    /\ CallLimit \in [Payer -> Nat] /\ TimeLimit \in [Payer -> Nat]
    /\ MaxGrants \in Nat /\ MaxOutputs \in Nat /\ MaxDay \in Nat
    /\ MaxFaults \in Nat

VARIABLES
    db,         \* the tables the broker writes: share, job, log, usage
    source,     \* what assertOnline reads of a share's source runtime
    erased,     \* jobs whose request message was erased
    stale,      \* jobs whose session has advanced its content revision
    day,        \* the UTC day
    writers,    \* members who may write, on the device they asked from
    owner,      \* the owner: a writing member, removed, or the device revoked
    stopped,    \* Team jobs teamRequestMayExecute refuses
    turns,      \* ordinary claims that are pending or hold a lease
    exec,       \* what the owner's computer does with a job it was handed
    faults      \* interruptions so far

room == <<erased, stale, stopped>>
people == <<writers, owner>>
vars == <<db, source, room, day, people, turns, exec, faults>>

Open == {"queued", "running"}
\* over stands for cancelled, failed and timed_out.
Closed == {"completed", "over"}
Message == {"progress", "native", "ended", "context"}
\* The native process may exist: lost is an execution nobody can vouch for.
MayLive == {"granted", "live", "lost"}

Grant == [rev: Nat, on: BOOLEAN, allowed: SUBSET Member]
Row == [status: {"none", "pruned"} \cup Open \cup Closed, share: Share \cup {None}, rev: Nat,
        by: Member \cup {None}, day: 0 .. MaxDay, leased: BOOLEAN, overdue: BOOLEAN, cleanup: BOOLEAN,
        reserved: BOOLEAN, response: {"none", "told", "unavailable"}]
NoRow == [status |-> "none", share |-> None, rev |-> 0, by |-> None, day |-> 0, leased |-> FALSE,
          overdue |-> FALSE, cleanup |-> FALSE, reserved |-> FALSE, response |-> "none"]
Account == [calls: Nat, used: Nat, reserved: Nat]
NoAccount == [calls |-> 0, used |-> 0, reserved |-> 0]

\* log is what the requester's session shows under each request.
BrokerTypeOK ==
    /\ db \in [share: [Share -> Grant], job: [Job -> Row], log: [Job -> Seq(Message)],
               usage: [Share -> [0 .. MaxDay -> [Payer -> Account]]]]
    /\ source \in [Share -> {"ready", "silent", "off"}]
    /\ erased \subseteq Job /\ stale \subseteq Job /\ stopped \subseteq Team
    /\ day \in 0 .. MaxDay
    /\ writers \subseteq Member /\ owner \in {"member", "removed", "revoked"} /\ turns \subseteq Turn
    /\ exec \in [Job -> {"none", "granted", "live", "lost", "refused", "exited"}]
    /\ faults \in 0 .. MaxFaults

-----------------------------------------------------------------------------
(* What the guards of the handlers read.  As elsewhere, an operator named  *)
(* X_Y is X as a plausible bug would write it and not part of the          *)
(* specification.                                                          *)

\* assertGrant, without a recipient and for the source online
GrantInForce(s) == owner = "member" /\ source[s] = "ready"

\* assertJob
Authorized_AnyEpoch(d, j) ==
    LET r == d.job[j] g == d.share[r.share] IN
    /\ j \notin stopped \cup stale
    /\ g.on
    /\ GrantInForce(r.share) /\ r.by \in g.allowed \cap writers
Authorized(d, j) ==
    LET r == d.job[j] g == d.share[r.share] IN
    /\ j \notin stopped \cup stale
    /\ g.on /\ g.rev = r.rev
    /\ GrantInForce(r.share) /\ r.by \in g.allowed \cap writers

\* assertAttempt
MaySpeak(d, j) ==
    /\ d.job[j].status = "running" /\ d.job[j].leased /\ ~d.job[j].overdue
    /\ Authorized(d, j)

\* The jobs the server counts against a native slot
Busy(d, slot) ==
    {j \in Job : (d.job[j].status = "running" \/ d.job[j].cleanup) /\ SlotOf[d.job[j].share] = slot}

\* claim: poolBusy, ordinaryBusy and detachedBusy; max_concurrent is 1, so that
\* the jobs of the share itself are refused by the pool already.
SlotFree(d, slot) == Busy(d, slot) = {} /\ \A t \in turns : SlotOf[t] # slot

Answered(d, j) == \E i \in DOMAIN d.log[j] : d.log[j][i] # "progress"

-----------------------------------------------------------------------------
Init ==
    /\ db = [share |-> [s \in Share |-> [rev |-> 0, on |-> FALSE, allowed |-> {}]],
             job |-> [j \in Job |-> NoRow], log |-> [j \in Job |-> <<>>],
             usage |-> [s \in Share |-> [d \in 0 .. MaxDay |-> [p \in Payer |-> NoAccount]]]]
    /\ source = [s \in Share |-> "off"]
    /\ erased = {} /\ stale = {} /\ stopped = {}
    /\ day = 0 /\ writers = Member /\ owner = "member" /\ turns = {}
    /\ exec = [j \in Job |-> "none"]
    /\ faults = 0

-----------------------------------------------------------------------------
(* The allowance. *)

Room_Unreserved(d, s, p) ==
    LET u == d.usage[s][day][p] IN u.calls < CallLimit[p] /\ u.used < TimeLimit[p]
Room(d, s, p) ==
    LET u == d.usage[s][day][p]
    IN  u.calls < CallLimit[p] /\ u.used + u.reserved < TimeLimit[p]

\* reserve
Reserve(d, s, m) ==
    [d EXCEPT !.usage[s][day] = [p \in Payer |->
        LET a == d.usage[s][day][p]
        IN  IF p \in {All, m} THEN [a EXCEPT !.calls = @ + 1, !.reserved = @ + 1] ELSE a]]

\* release: the jobs of J that hold a reservation give it back; who was handed to
\* the computer pays.  An account that was deleted stays deleted.
Release_Twice(d, J) ==
    LET Payers(s, u, p) == {j \in J : /\ d.job[j].share = s /\ d.job[j].day = u
                                      /\ p \in {All, d.job[j].by}}
    IN  [d EXCEPT
          !.job = [j \in Job |-> IF j \in J
                                 THEN [@[j] EXCEPT !.reserved = FALSE, !.cleanup = FALSE] ELSE @[j]],
          !.usage = [s \in Share |-> [u \in 0 .. MaxDay |-> [p \in Payer |->
              [d.usage[s][u][p] EXCEPT !.reserved = @ - Cardinality(Payers(s, u, p))]]]]]
Release(d, J) ==
    LET back == {j \in J : d.job[j].reserved}
        Payers(s, u, p) == {j \in back : /\ d.job[j].share = s /\ d.job[j].day = u
                                         /\ p \in {All, d.job[j].by}}
        Settled(a, from) ==
            LET left == a.reserved - Cardinality(from) IN
            IF a.calls = 0 THEN a
            ELSE [a EXCEPT !.reserved = IF left > 0 THEN left ELSE 0,
                           !.used = @ + Cardinality({j \in from : d.job[j].cleanup})]
    IN  [d EXCEPT
          !.job = [j \in Job |-> IF j \in back
                                 THEN [d.job[j] EXCEPT !.reserved = FALSE, !.cleanup = FALSE]
                                 ELSE d.job[j]],
          !.usage = [s \in Share |-> [u \in 0 .. MaxDay |-> [p \in Payer |->
              Settled(d.usage[s][u][p], Payers(s, u, p))]]]]

-----------------------------------------------------------------------------
(* How a job ends. *)

Ended(d, J, to) ==
    [d EXCEPT !.job = [j \in Job |-> IF j \notin J THEN d.job[j] ELSE
        [d.job[j] EXCEPT !.status = to, !.leased = FALSE, !.overdue = FALSE]]]

\* The end of finish: one failure, unless the request is answered or gone.
Tell(d, J) ==
    LET Mark(j) == IF j \in erased /\ ~Answered(d, j) THEN "unavailable" ELSE "told"
    IN  [d EXCEPT
          !.job = [j \in Job |-> IF j \in J THEN [d.job[j] EXCEPT !.response = Mark(j)] ELSE d.job[j]],
          !.log = [j \in Job |-> IF j \in J \ erased /\ ~Answered(d, j)
                                 THEN Append(d.log[j], "ended") ELSE d.log[j]]]

\* finish(stopped = FALSE) of the open jobs J: a queued one gives its reservation
\* back, a running one keeps it and the slot until the computer acknowledges that
\* it has stopped.
Finish_FreesSlot(d, J) == Tell(Release(Ended(d, J, "over"), J), J)
Finish(d, J) ==
    LET ran == {j \in J : d.job[j].status = "running"}
        ended == Ended(d, J, "over")
        held == [ended EXCEPT !.job = [j \in Job |-> [ended.job[j] EXCEPT !.cleanup = @ \/ j \in ran]]]
    IN  Tell(Release(held, J \ ran), J)

\* The fences inside other transactions settle neither account nor answer.
Fenced_Completed(d, J) ==
    LET ran == {j \in J : d.job[j].status = "running"}
        ended == Ended(d, J, "over")
    IN  [ended EXCEPT !.job = [j \in Job |-> [ended.job[j] EXCEPT !.cleanup = @ \/ j \in ran]]]
Fenced(d, J) ==
    LET ran == {j \in J : d.job[j].status = "running"}
        ended == Ended(d, {j \in J : d.job[j].status \in Open}, "over")
    IN  [ended EXCEPT !.job = [j \in Job |-> [ended.job[j] EXCEPT !.cleanup = @ \/ j \in ran]]]

\* disable
SwitchOff(d, S) ==
    [d EXCEPT !.share = [s \in Share |-> IF s \in S /\ d.share[s].on
                                         THEN [d.share[s] EXCEPT !.on = FALSE, !.rev = @ + 1]
                                         ELSE d.share[s]]]

-----------------------------------------------------------------------------
(* pump, one transaction: grants, open jobs, what fences left, old rows.   *)

\* A lapsed lease switches its grant off, so that another job of the grant is
\* over too, unless the loop had passed it by: then it waits for the next pump.
Expired(d) ==
    LET open == {j \in Job : d.job[j].status \in Open}
        unfit == {j \in open : ~Authorized(d, j) \/ d.job[j].overdue}
        lapsed == {j \in open \ unfit : d.job[j].status = "running" /\ ~d.job[j].leased}
        silent == {d.job[j].share : j \in lapsed}
    IN  {SwitchOff(Finish(d, unfit \cup lapsed \cup late), silent) :
            late \in SUBSET {j \in open \ (unfit \cup lapsed) : d.job[j].share \in silent}}

\* Reservations and answers that a fence left behind
Settled(d) ==
    Tell(Release(d, {j \in Job : d.job[j].status \in Closed /\ ~d.job[j].cleanup}),
         {j \in Job : d.job[j].status \in Closed /\ d.job[j].response = "none"})

\* Two weeks, here a change of day, after it finished a job may be deleted; the
\* accounts of past days go once no job of theirs holds a reservation.
Old(d) == {j \in Job : d.job[j].status \in Closed /\ ~d.job[j].cleanup /\ d.job[j].day < day}
Swept(d, old) ==
    LET kept(s, u) == \E j \in Job : d.job[j].share = s /\ d.job[j].day = u /\ d.job[j].reserved
    IN  [d EXCEPT
          !.job = [j \in Job |-> IF j \in old THEN [NoRow EXCEPT !.status = "pruned"] ELSE d.job[j]],
          !.usage = [s \in Share |-> [u \in 0 .. MaxDay |-> [p \in Payer |->
              IF u < day /\ ~kept(s, u) THEN NoAccount ELSE d.usage[s][u][p]]]]]

Pumped(d) ==
    LET off == SwitchOff(d, {s \in Share : ~GrantInForce(s)})
    IN  {Swept(Settled(e), old) : e \in Expired(off), old \in SUBSET Old(d)}

\* The timer, and every handler that reads: list, listJobs, renewLease
Pump == db' \in Pumped(db) /\ UNCHANGED <<source, room, day, people, turns, exec>>

-----------------------------------------------------------------------------
(* The owner: save, control, reports about the source, restart. *)

Save(s, allowed, on) ==
    /\ owner = "member" /\ db.share[s].rev < MaxGrants /\ allowed \subseteq writers
    /\ on => source[s] = "ready" /\ allowed # {}
    /\ db' \in Pumped([db EXCEPT !.share[s] = [rev |-> @.rev + 1, on |-> on, allowed |-> allowed]])
    /\ UNCHANGED <<source, room, day, people, turns, exec>>

Control(s, on) ==
    /\ owner = "member" /\ db.share[s].rev \in 1 .. MaxGrants - 1
    /\ on => GrantInForce(s) /\ db.share[s].allowed # {}
    /\ db' \in Pumped([db EXCEPT !.share[s].rev = @ + 1, !.share[s].on = on])
    /\ UNCHANGED <<source, room, day, people, turns, exec>>

\* sourceAvailability of one source, or of the whole computer ("locked"); the
\* controller reports OFF after every start and interruption.
ReportOff(S) ==
    /\ owner # "revoked"
    /\ LET cut == {j \in Job : db.job[j].status \in Open /\ db.job[j].share \in S}
       IN  db' = Finish(SwitchOff(db, S), cut)
    /\ source' = [s \in Share |-> IF s \in S THEN "off" ELSE source[s]]
    /\ UNCHANGED <<room, day, people, turns, exec>>

\* A READY report and a heartbeat restore the source, never the grant.
Appear(s) ==
    /\ owner = "member" /\ source[s] # "ready" /\ source' = [source EXCEPT ![s] = "ready"]
    /\ UNCHANGED <<db, room, day, people, turns, exec>>

\* No heartbeat for 30 seconds.
Vanish(s) ==
    /\ source[s] = "ready" /\ source' = [source EXCEPT ![s] = "silent"]
    /\ UNCHANGED <<db, room, day, people, turns, exec>>

\* The constructor commits OFF, then pumps, before anything else is served.
Restart ==
    /\ db' \in Pumped(SwitchOff(db, Share))
    /\ UNCHANGED <<source, room, day, people, turns, exec>>

-----------------------------------------------------------------------------
(* The borrower: start, cancelRequest. *)

Ask(j, s, m) ==
    /\ db.job[j].status = "none" /\ j \notin stopped
    /\ db.share[s].on /\ GrantInForce(s) /\ m \in db.share[s].allowed \cap writers
    /\ \A p \in {All, m} : Room(db, s, p)
    /\ db' = [Reserve(db, s, m) EXCEPT !.job[j] = [NoRow EXCEPT !.status = "queued", !.share = s,
                  !.rev = db.share[s].rev, !.by = m, !.day = day, !.reserved = TRUE]]
    /\ UNCHANGED <<source, room, day, people, turns, exec>>

CancelRequest(j) ==
    /\ db.job[j].status \in Open /\ db.job[j].by \in writers
    /\ db' = Finish(db, {j})
    /\ UNCHANGED <<source, room, day, people, turns, exec>>

-----------------------------------------------------------------------------
(* The owner's computer: claim, progress, complete, abort-ack. *)

Claim(j) ==
    /\ \E d \in Pumped(db) :
        /\ d.job[j].status = "queued" /\ Authorized(d, j) /\ SlotFree(d, SlotOf[d.job[j].share])
        /\ db' = [d EXCEPT !.job[j].status = "running", !.job[j].leased = TRUE,
                           !.job[j].cleanup = TRUE]
    /\ exec' = [exec EXCEPT ![j] = "granted"]
    /\ UNCHANGED <<source, room, day, people, turns>>

Progress(j) ==
    /\ exec[j] = "live" /\ Len(db.log[j]) < MaxOutputs
    /\ \E d \in Pumped(db) : MaySpeak(d, j) /\ db' = [d EXCEPT !.log[j] = Append(@, "progress")]
    /\ UNCHANGED <<source, room, day, people, turns, exec>>

\* complete; an answer that exceeds the storage quota ends as a failure.
Complete(j, to) ==
    /\ exec[j] = "exited"
    /\ \E d \in Pumped(db) :
        LET over == Ended(Release(d, {j}), {j}, to)
        IN  /\ MaySpeak(d, j)
            /\ db' = IF to = "completed"
                     THEN [over EXCEPT !.job[j].response = "told", !.log[j] = Append(@, "native")]
                     ELSE Tell(over, {j})
    /\ exec' = [exec EXCEPT ![j] = "none"]
    /\ UNCHANGED <<source, room, day, people, turns>>

\* abortAck, also after the grant, the membership or the request is gone.
AckStopped(j) ==
    /\ exec[j] \in {"exited", "refused"} /\ owner # "revoked"
    /\ \E d \in Pumped(db) : d.job[j].status \in Closed /\ db' = Release(d, {j})
    /\ exec' = [exec EXCEPT ![j] = "none"]
    /\ UNCHANGED <<source, room, day, people, turns>>

\* #execute starts the native task and records its exit before it reports; the
\* receipt is kept until complete or abort-ack has been confirmed.  A capsule
\* that arrives after an interruption is refused without a start.
Start(j) ==
    /\ exec[j] = "granted" /\ exec' = [exec EXCEPT ![j] = "live"]
    /\ UNCHANGED <<db, source, room, day, people, turns>>
Exit(j) ==
    /\ exec[j] \in {"granted", "live"}
    /\ exec' = [exec EXCEPT ![j] = IF @ = "live" THEN "exited" ELSE "refused"]
    /\ UNCHANGED <<db, source, room, day, people, turns>>

\* The claim's reply is lost, or the connector dies: there is no receipt.
Lose(j) ==
    /\ exec[j] \in {"granted", "live"} /\ exec' = [exec EXCEPT ![j] = "lost"]
    /\ UNCHANGED <<db, source, room, day, people, turns>>

-----------------------------------------------------------------------------
(* The rest of the server: fences, erasure, Team runs, claims, time. *)

\* fenceSharedExecutionsInsideTransaction: a borrower, or the owner, loses the
\* membership or the device; the owner's runtimes must register again.
FenceMember(m) ==
    /\ m \in writers /\ writers' = writers \ {m}
    /\ db' = Fenced(db, {j \in Job : db.job[j].by = m})
    /\ UNCHANGED <<source, room, day, owner, turns, exec>>
FenceOwner(to) ==
    /\ owner = "member" /\ owner' = to
    /\ db' = SwitchOff(Fenced(db, {j \in Job : db.job[j].by # None}), Share)
    /\ source' = [s \in Share |-> IF source[s] = "ready" THEN "silent" ELSE source[s]]
    /\ UNCHANGED <<room, day, writers, turns, exec>>
Rejoin ==
    /\ \/ \E m \in Member \ writers : writers' = writers \cup {m} /\ owner' = owner
       \/ owner = "removed" /\ owner' = "member" /\ writers' = writers
    /\ UNCHANGED <<db, source, room, day, turns, exec>>

\* deleteMessage in the session of m: the requests of E are erased, the replies
\* to those of W go, every job loses its context, and what is not answered is
\* told so (invalidateContextExecutions).
Erase(m, E, W) ==
    LET here == {j \in Job : db.job[j].by = m}
        fenced == Fenced(db, here)
    IN  /\ here # {} /\ E \subseteq here /\ W \subseteq here \ (E \cup erased)
        /\ db' = [fenced EXCEPT !.log = [j \in Job |->
               IF j \in E THEN <<>>
               ELSE IF j \in W THEN <<"context">>
               ELSE IF j \in here \ erased /\ ~Answered(db, j) THEN Append(@[j], "context")
               ELSE @[j]]]
        /\ erased' = erased \cup E /\ stale' = stale \cup here
        /\ UNCHANGED <<source, stopped, day, people, turns, exec>>

\* The run that waits for the job is halted or moves on.
StopTeam(j) ==
    /\ j \in Team \ stopped /\ stopped' = stopped \cup {j}
    /\ UNCHANGED <<db, source, erased, stale, day, people, turns, exec>>

\* assertRuntimeClaimSlotAvailable for an ordinary claim, and its end
TakeTurn(t) ==
    /\ t \notin turns /\ turns' = turns \cup {t} /\ Busy(db, SlotOf[t]) = {}
    /\ UNCHANGED <<db, source, room, day, people, exec>>
EndTurn(t) ==
    /\ t \in turns /\ turns' = turns \ {t}
    /\ UNCHANGED <<db, source, room, day, people, exec>>

LeaseEnds(j) ==
    /\ db.job[j].leased /\ db' = [db EXCEPT !.job[j].leased = FALSE]
    /\ UNCHANGED <<source, room, day, people, turns, exec>>
DeadlineEnds(j) ==
    /\ db.job[j].status \in Open /\ ~db.job[j].overdue
    /\ db' = [db EXCEPT !.job[j].overdue = TRUE, !.job[j].leased = FALSE]
    /\ UNCHANGED <<source, room, day, people, turns, exec>>
NextDay ==
    /\ day < MaxDay /\ day' = day + 1
    /\ UNCHANGED <<db, source, room, people, turns, exec>>

\* What interrupts the sharing as a whole; losing an execution or its lease, a
\* deadline and a new day are not counted.
Fault ==
    \/ \E s \in Share : ReportOff({s}) \/ Vanish(s)
    \/ ReportOff(Share) \/ Restart
    \/ \E j \in Job : StopTeam(j)
    \/ \E m \in Member : FenceMember(m) \/ \E E, W \in SUBSET Job : Erase(m, E, W)
    \/ \E to \in {"removed", "revoked"} : FenceOwner(to)

Work ==
    \/ \E s \in Share : \/ \E allowed \in SUBSET Member, on \in BOOLEAN : Save(s, allowed, on)
                        \/ \E on \in BOOLEAN : Control(s, on)
                        \/ Appear(s)
    \/ \E j \in Job, s \in Share, m \in Member : Ask(j, s, m)
    \/ \E j \in Job : \/ CancelRequest(j) \/ Claim(j) \/ Progress(j) \/ AckStopped(j)
                      \/ \E to \in Closed : Complete(j, to)
                      \/ Start(j) \/ Exit(j) \/ Lose(j)
                      \/ LeaseEnds(j) \/ DeadlineEnds(j)
    \/ Pump \/ Rejoin \/ NextDay
    \/ \E t \in Turn : TakeTurn(t) \/ EndTurn(t)

Next ==
    \/ Work /\ faults' = faults
    \/ faults < MaxFaults /\ Fault /\ faults' = faults + 1

Spec == Init /\ [][Next]_vars

-----------------------------------------------------------------------------
(* Properties. *)

\* One native slot never holds two executions that may be alive, whatever became
\* of their jobs, and none beside an ordinary turn: a job that was cancelled,
\* timed out, fenced or erased keeps its slot until the computer proves its exit.
SlotHeldByOne ==
    \A j \in Job : exec[j] \in MayLive =>
        LET slot == SlotOf[db.job[j].share] IN
        /\ \A k \in Job \ {j} : exec[k] \in MayLive => SlotOf[db.job[k].share] # slot
        /\ \A t \in turns : SlotOf[t] # slot

\* The books agree: what an account holds in reserve is what its jobs, open or
\* ended and not yet settled, will give back, over every fence, erasure, restart,
\* late acknowledgment and change of day.
ReservesBalance ==
    \A s \in Share, u \in 0 .. MaxDay, p \in Payer :
        db.usage[s][u][p].reserved =
            Cardinality({j \in Job : /\ db.job[j].reserved /\ db.job[j].share = s
                                     /\ db.job[j].day = u /\ p \in {All, db.job[j].by}})

\* No allowance is exceeded, by the total or by one member, even if every
\* reservation that is still out is used in full.
BudgetKept ==
    \A s \in Share, u \in 0 .. MaxDay, p \in Payer :
        LET a == db.usage[s][u][p] IN a.calls <= CallLimit[p] /\ a.used + a.reserved <= TimeLimit[p]

\* The accounts of a share are right and within their allowance.
BooksKept == ReservesBalance /\ BudgetKept

\* The room sees one answer to a request, the Agent's or the server's, whoever
\* ends the job first, and nothing of the execution after it.
AnswerIsLast ==
    \A j \in Job : \A i \in DOMAIN db.log[j] :
        db.log[j][i] # "progress" => i = Len(db.log[j])

\* A job is completed exactly if the Agent's answer is in the room, unless an
\* erasure took it away; a job that ended otherwise never shows one.
CompletedMeansAnswered ==
    \A j \in Job :
        /\ (\E i \in DOMAIN db.log[j] : db.log[j][i] = "native")
               => db.job[j].status \in {"completed", "pruned"}
        /\ db.job[j].status = "completed" => Answered(db, j) \/ j \in erased

\* Every accepted request is answered or erased within its deadline and one pass
\* of the pump, whatever became of the owner, the computer, the grant or the lease:
\* the pass leaves nothing overdue open and nothing that has ended unanswered.
PumpAnswers ==
    \A d \in Pumped(db), j \in Job :
        /\ db.job[j].overdue => d.job[j].status \notin Open
        /\ d.job[j].status \in Closed => Answered(d, j) \/ j \in erased

\* One answer to each request, in time, and the books say which.
AnsweredOnce == AnswerIsLast /\ CompletedMeansAnswered /\ PumpAnswers

\* Once a grant was switched off or changed, a job accepted under it is neither
\* started nor heard again, also if the owner switches the grant on once more.
GrantGone(j) ==
    LET r == db.job[j] IN
    r.share # None /\ (~db.share[r.share].on \/ db.share[r.share].rev # r.rev)
SilentAfterOff ==
    [][\A j \in Job : GrantGone(j) =>
           /\ exec[j] = "none" => exec'[j] = "none"
           /\ \A i \in DOMAIN db'.log[j] \ DOMAIN db.log[j] : db'.log[j][i] \notin {"progress", "native"}]_vars
=============================================================================
