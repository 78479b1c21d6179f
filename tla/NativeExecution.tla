-------------------------- MODULE NativeExecution --------------------------
(***************************************************************************)
(* The native processes of Agent Team requests, and the server's record of *)
(* them.  A granted request occupies its runtime until the exit of its     *)
(* process was confirmed: execution_pending of the claim, moved to         *)
(* agent_native_exit_holds when the session is deleted.  The connector     *)
(* keeps a journal of its processes (ProcessExecutionState) and the exits  *)
(* it still has to report (stoppedExecutions of the cursor file,           *)
(* native-stop-receipts.ts), one of each per session.                      *)
(*                                                                         *)
(* One device runs one connector, whose loop serves its sessions one after *)
(* the other.  All of them belong to one pool (device, project, harness).  *)
(* The protocol of the claim itself is AgentClaims; a request of a Team is *)
(* never granted a second attempt, so requests stand for their attempts.   *)
(***************************************************************************)
EXTENDS Integers, FiniteSets

CONSTANTS
    Session,        \* sessions of the project
    Request,        \* Team requests, numbered in the order of the log
    SessionOf,      \* [Request -> Session]
    Limit,          \* native holds an account may have
    Erasable,       \* bound: sessions that may be deleted
    MaxEnds,        \* bound: claims that end without an answer
    MaxCrashes,     \* bound: deaths of the connector process
    MaxFaults,      \* bound: lost calls and executions given up unconfirmed
    NoRequest, NoSession

ASSUME NativeAssumption ==
    /\ Request \subseteq Nat /\ IsFiniteSet(Request) /\ SessionOf \in [Request -> Session]
    /\ Limit \in Nat \ {0} /\ Erasable \subseteq Session /\ MaxEnds \in Nat
    /\ MaxCrashes \in Nat /\ MaxFaults \in Nat
    /\ NoRequest \notin Request /\ NoSession \notin Session

VARIABLES
    claim,      \* [Request -> status of the claim row]
    pending,    \* claims with execution_pending = 1
    holds,      \* rows of agent_native_exit_holds
    deleted,    \* deleted sessions
    journal,    \* [Request -> phase of its entry]; "reported": exitAcknowledged
    owner,      \* sessions whose journal has an .owner file
    receipts,   \* stoppedExecutions of all cursor files
    passed,     \* requests behind the cursors
    proc,       \* [Request -> "none" | "alive" | "exited"], the native processes
    spawned,    \* [Request -> Nat], processes started for it so far
    conn,       \* what the connector is doing
    scanned,    \* sessions whose exits were recovered since the connector started
    crashes, faults

serverVars == <<claim, pending, holds, deleted>>
diskVars == <<journal, owner, receipts, passed>>
nativeVars == <<proc, spawned>>
bounds == <<crashes, faults>>
vars == <<serverVars, diskVars, nativeVars, conn, scanned, bounds>>

Of(s) == {r \in Request : SessionOf[r] = s}
Down == [at |-> "down", s |-> NoSession, r |-> NoRequest, x |-> NoRequest,
         for |-> "none", prev |-> {}]
Idle == [Down EXCEPT !.at = "idle"]

\* Journal operations that hold the owner file while they last.
Bookkeeping == {"collect", "sent", "published", "dismissed"}
Owning == {"owned", "prepared", "running"}

\* The finally block of an execution that ended, or was answered by an error.
Closing == {"receipt", "thrown"}

TypeOK ==
    /\ claim \in [Request -> {"none", "claimed", "lapsed", "paused", "failed", "completed"}]
    /\ pending \subseteq {r \in Request : claim[r] # "none" /\ SessionOf[r] \notin deleted}
    /\ holds \subseteq {r \in Request : SessionOf[r] \in deleted}
    /\ deleted \subseteq Session /\ owner \subseteq Session
    /\ journal \in [Request -> {"none", "prepared", "started", "settled", "reported"}]
    /\ receipts \subseteq Request /\ passed \subseteq Request
    /\ proc \in [Request -> {"none", "alive", "exited"}] /\ spawned \in [Request -> Nat]
    /\ conn \in [at : {"down", "idle", "forward", "forwarded", "flush", "noted", "claim", "granted",
                       "returned"} \cup Bookkeeping \cup Owning \cup Closing,
                 s : Session \cup {NoSession}, r : Request \cup {NoRequest},
                 x : Request \cup {NoRequest},
                 for : {"none", "startup", "work", "end", "again"}, prev : SUBSET Request]
    /\ scanned \subseteq Session
    /\ crashes \in 0 .. MaxCrashes /\ faults \in 0 .. MaxFaults
    /\ conn.at \in Owning => conn.s \in owner

Init ==
    /\ claim = [r \in Request |-> "none"] /\ pending = {} /\ holds = {} /\ deleted = {}
    /\ journal = [r \in Request |-> "none"] /\ owner = {} /\ receipts = {} /\ passed = {}
    /\ proc = [r \in Request |-> "none"] /\ spawned = [r \in Request |-> 0]
    /\ conn = Down /\ scanned = {}
    /\ crashes = 0 /\ faults = 0

-----------------------------------------------------------------------------
(* The server. *)

Held(r) == r \in pending \cup holds

\* nativeHoldCapacityFull: a moved hold counts once, wherever it is.
CapacityFull_OffByOne == Cardinality(pending \cup holds) > Limit
CapacityFull == Cardinality(pending \cup holds) >= Limit

\* assertRuntimeClaimSlotAvailable: executionHoldIssue over the pool, then the
\* other claims of the runtime of this session.
SlotFree(r) ==
    /\ holds = {}
    /\ \A q \in Of(SessionOf[r]) \ {r} : q \notin pending /\ claim[q] # "claimed"

\* acknowledgeAgentExecutionStopped: a no-op unless this exact hold exists.
Acknowledge(r) ==
    /\ pending' = pending \ {r} /\ holds' = holds \ {r}

\* Time, the author, the coordinator: the claim ends, the hold does not.
Ended == {r \in Request : claim[r] \in {"lapsed", "paused", "failed"}}
ClaimEnds(r) ==
    /\ Cardinality(Ended \ {r}) < MaxEnds
    /\ \/ claim[r] = "claimed" /\ claim' = [claim EXCEPT ![r] = "lapsed"]
       \/ claim[r] \in {"claimed", "lapsed"} /\ claim' = [claim EXCEPT ![r] = "paused"]
    /\ SessionOf[r] \notin deleted
    /\ UNCHANGED <<pending, holds, deleted, diskVars, nativeVars, conn, scanned, bounds>>

\* The capture triggers keep what the deletion takes away.
DeleteSession(s) ==
    /\ s \in Erasable \ deleted /\ deleted' = deleted \cup {s}
    /\ pending' = pending \ Of(s) /\ holds' = holds \cup (pending \cap Of(s))
    /\ UNCHANGED <<claim, diskVars, nativeVars, conn, scanned, bounds>>

-----------------------------------------------------------------------------
(* The connector: where it goes next. *)

Goto(at) == conn' = [conn EXCEPT !.at = at]

\* An error ends the operation. At startup it ends the process; later the loop
\* reports it and comes back to the session.
Throw ==
    /\ conn' = IF conn.for = "startup" THEN Down ELSE Idle
    /\ scanned' = IF conn.for = "startup" THEN {} ELSE scanned

\* The call is not answered: it was lost, or only its answer.
Lost == faults < MaxFaults /\ faults' = faults + 1 /\ UNCHANGED crashes

At(p) == conn.at = p
Settled(r) == journal[r] = "settled"

-----------------------------------------------------------------------------
(* recoverNativeExecutionReceipts(api, store, executor), for a session: at   *)
(* startup (recoverProjectNativeReceipts, and connect() once more), and      *)
(* before each claim.                                                        *)

Recover(s, r, for) ==
    /\ conn' = [at |-> "forward", s |-> s, r |-> r, x |-> NoRequest, for |-> for,
                prev |-> IF for = "startup" THEN {} ELSE receipts \cap Of(s)]
    /\ UNCHANGED <<serverVars, diskVars, nativeVars, scanned, bounds>>

\* recoverProjectNativeReceipts over the files of every session, deleted ones
\* included. Receipts are forwarded before the journal is looked at.
Scan(s) == At("idle") /\ s \notin scanned /\ Recover(s, NoRequest, "startup")

\* processPendingAgentRequests reaches the next request of the session.
Face(r) ==
    LET s == SessionOf[r]
    IN  /\ At("idle") /\ scanned = Session /\ s \notin deleted
        /\ r \notin passed /\ \A q \in Of(s) : q < r => q \in passed
        /\ Recover(s, r, "work")

Outgoing == receipts \cap Of(conn.s)

\* flushNativeExecutionReceipts: the server hears of an exit before any local
\* evidence of it changes. "forward" is the flush without an executor.
SendReceipt ==
    /\ conn.at \in {"forward", "flush"}
    /\ \E r \in Outgoing :
          \/ /\ Acknowledge(r)
             /\ conn' = [conn EXCEPT !.at = IF At("forward") THEN "forwarded" ELSE "sent", !.x = r]
             /\ UNCHANGED <<scanned, bounds>>
          \/ Acknowledge(r) /\ Lost /\ Throw
          \/ UNCHANGED <<pending, holds>> /\ Lost /\ Throw
    /\ UNCHANGED <<claim, deleted, diskVars, nativeVars>>

\* acknowledgeExit; a foreign owner file refuses it.
NoteExit ==
    /\ At("sent")
    /\ IF conn.s \in owner THEN Throw /\ UNCHANGED journal
       ELSE /\ Goto("noted") /\ UNCHANGED scanned
            /\ journal' = [journal EXCEPT ![conn.x] = IF @ = "settled" THEN "reported" ELSE @]
    /\ UNCHANGED <<serverVars, owner, receipts, passed, nativeVars, bounds>>

\* The cursor file is read again after the wait, and only this receipt leaves it.
DropReceipt ==
    /\ conn.at \in {"forwarded", "noted"}
    /\ receipts' = receipts \ {conn.x}
    /\ conn' = [conn EXCEPT !.at = IF At("forwarded") THEN "forward" ELSE "flush", !.x = NoRequest]
    /\ UNCHANGED <<serverVars, journal, owner, passed, nativeVars, scanned, bounds>>

\* Exits the server knew of before: their journal entries need no receipt any more.
\* An uncertain journal stays unchanged.
Forwarded ==
    /\ At("forward") /\ Outgoing = {} /\ Goto("collect")
    /\ journal' = [r \in Request |-> IF r \in conn.prev /\ conn.s \notin owner /\ Settled(r)
                                     THEN "reported" ELSE journal[r]]
    /\ UNCHANGED <<serverVars, owner, receipts, passed, nativeVars, scanned, bounds>>

\* readStoppedExecutions: only settled work can produce a receipt.
Stopped_Finished(s) == {r \in Of(s) : journal[r] \in {"started", "settled"} /\ claim[r] # "claimed"}
Stopped(s) == {r \in Of(s) : Settled(r)}

\* Only what the cursor file still holds is sent again.
Collect_ReceiptsOnly ==
    /\ At("collect")
    /\ IF conn.s \in owner THEN Throw ELSE Goto("flush") /\ UNCHANGED scanned
    /\ UNCHANGED <<serverVars, diskVars, nativeVars, bounds>>

\* What the cursor file lost, or never got, is taken from the journal.
Collect ==
    /\ At("collect")
    /\ IF conn.s \in owner THEN Throw /\ UNCHANGED receipts
       ELSE receipts' = receipts \cup Stopped(conn.s) /\ Goto("flush") /\ UNCHANGED scanned
    /\ UNCHANGED <<serverVars, journal, owner, passed, nativeVars, bounds>>

Flushed ==
    /\ At("flush") /\ Outgoing = {}
    /\ \/ \* a projecting executor passes what the log holds (Connector)
          /\ conn.for = "startup" /\ conn' = Idle /\ scanned' = scanned \cup {conn.s}
          /\ passed' \in {passed, passed \cup {r \in Of(conn.s) : claim[r] # "none"}}
       \/ conn.for = "work" /\ Goto("claim") /\ UNCHANGED <<scanned, passed>>
       \/ /\ conn.for \in {"end", "again"} /\ conn' = Idle /\ UNCHANGED scanned
          /\ passed' = IF conn.for = "end" THEN passed \cup {conn.r} ELSE passed
    /\ UNCHANGED <<serverVars, journal, owner, receipts, nativeVars, bounds>>

-----------------------------------------------------------------------------
(* processAgentRequest: the claim. *)

Refuse == Throw /\ UNCHANGED <<claim, pending, passed>>

\* claimAgentRequest, as a request of a Team meets it.
Grant(r) ==
    \/ /\ claim[r] = "none"
       /\ claim' = [claim EXCEPT ![r] = "claimed"] /\ pending' = pending \cup {r}
       /\ SlotFree(r) /\ ~CapacityFull
    \/ claim[r] = "claimed" /\ UNCHANGED <<claim, pending>>     \* the same attempt again
Busy(r) ==
    \/ SessionOf[r] \in deleted
    \/ claim[r] = "none" /\ (~SlotFree(r) \/ CapacityFull)
    \/ claim[r] = "lapsed" /\ r \in pending
Claim ==
    LET r == conn.r
    IN  /\ At("claim")
        /\ \/ SessionOf[r] \notin deleted /\ Grant(r) /\ UNCHANGED passed
              /\ \/ Goto("granted") /\ UNCHANGED <<scanned, bounds>>
                 \/ Lost /\ Throw
           \/ Busy(r) /\ Refuse /\ UNCHANGED bounds
           \/ Lost /\ Refuse
           \/ \* failAbandonedClaim: a step of a Team has no second attempt
              /\ SessionOf[r] \notin deleted /\ r \notin pending /\ claim[r] \in {"lapsed", "failed"}
              /\ claim' = [claim EXCEPT ![r] = "failed"] /\ UNCHANGED pending
              /\ conn' = Idle /\ passed' = passed \cup {r} /\ UNCHANGED <<scanned, bounds>>
           \/ /\ SessionOf[r] \notin deleted /\ claim[r] \in {"completed", "paused"}
              /\ Goto("dismissed") /\ UNCHANGED <<claim, pending, passed, scanned, bounds>>
    /\ UNCHANGED <<holds, deleted, journal, owner, receipts, nativeVars>>

\* acknowledgeCanonicalCompletion: the answer needs no replay any more.
Prune_Any == [r \in Request |-> IF r = conn.r THEN "none" ELSE journal[r]]
Prune == [r \in Request |-> IF r = conn.r /\ journal[r] \in {"settled", "reported"}
                            THEN "none" ELSE journal[r]]
Dismiss ==
    /\ At("dismissed")
    /\ IF conn.s \in owner THEN Throw /\ UNCHANGED <<journal, passed>>
       ELSE /\ journal' = Prune /\ passed' = passed \cup {conn.r}
            /\ conn' = Idle /\ UNCHANGED scanned
    /\ UNCHANGED <<serverVars, owner, receipts, nativeVars, bounds>>

-----------------------------------------------------------------------------
(* ProcessExecutionState.execute around the process. *)

\* The preparation of the turn fails: a lost call, or the exact attempt is not
\* active any more (executionWatch). Nothing proves that no process runs.
Unprepared ==
    /\ At("granted") /\ Throw
    /\ IF claim[conn.r] = "claimed" /\ conn.s \notin deleted THEN Lost ELSE UNCHANGED bounds
    /\ UNCHANGED <<serverVars, diskVars, nativeVars>>

Acquire ==
    /\ At("granted") /\ claim[conn.r] = "claimed" /\ conn.s \notin deleted
    /\ IF conn.s \in owner THEN Throw /\ UNCHANGED owner
       ELSE Goto("owned") /\ owner' = owner \cup {conn.s} /\ UNCHANGED scanned
    /\ UNCHANGED <<serverVars, journal, receipts, passed, nativeVars, bounds>>

Unlocked == owner' = owner \ {conn.s}
Unconfirmed(s) == \E q \in Of(s) : journal[q] \in {"prepared", "started"}

\* A settled entry answers again; an unconfirmed one refuses any process.
Admit_Reclaims(r) == journal[r] # "settled" /\ journal[r] # "reported"
Admit(r) == journal[r] = "none" /\ ~Unconfirmed(SessionOf[r])
Execute ==
    LET r == conn.r
    IN  /\ At("owned")
        /\ \/ Admit(r) /\ journal' = [journal EXCEPT ![r] = "prepared"]
              /\ Goto("prepared") /\ UNCHANGED <<owner, scanned>>
           \/ journal[r] \in {"settled", "reported"} /\ Goto("returned") /\ Unlocked
              /\ UNCHANGED <<journal, scanned>>
           \/ ~Admit(r) /\ journal[r] \notin {"settled", "reported"} /\ Throw /\ Unlocked
              /\ UNCHANGED journal
        /\ UNCHANGED <<serverVars, receipts, passed, nativeVars, bounds>>

\* runAdapterProcess. A process that cannot be started has no exit to wait for.
Spawn ==
    /\ At("prepared") /\ Goto("running")
    /\ \/ /\ proc' = [proc EXCEPT ![conn.r] = "alive"]
          /\ spawned' = [spawned EXCEPT ![conn.r] = @ + 1]
       \/ proc' = [proc EXCEPT ![conn.r] = "exited"] /\ UNCHANGED spawned
    /\ UNCHANGED <<serverVars, diskVars, scanned, bounds>>

\* The journal learns of the process after it started.
Started ==
    /\ At("running") /\ journal[conn.r] = "prepared" /\ proc[conn.r] = "alive"
    /\ journal' = [journal EXCEPT ![conn.r] = "started"]
    /\ UNCHANGED <<serverVars, owner, receipts, passed, nativeVars, conn, scanned, bounds>>

Exit(r) ==
    /\ proc[r] = "alive" /\ proc' = [proc EXCEPT ![r] = "exited"]
    /\ UNCHANGED <<serverVars, diskVars, spawned, conn, scanned, bounds>>

Confirmed == proc[conn.r] = "exited"
Settle ==
    /\ At("running") /\ Confirmed
    /\ journal' = [journal EXCEPT ![conn.r] = "settled"]
    /\ Goto("returned") /\ Unlocked
    /\ UNCHANGED <<serverVars, receipts, passed, nativeVars, scanned, bounds>>

\* The process group could not be confirmed, a save failed, or the abort came
\* between the first save and the spawn: the entry stays as it is.
GiveUp ==
    /\ conn.at \in {"prepared", "running"} /\ Lost /\ Throw /\ Unlocked
    /\ UNCHANGED <<serverVars, journal, receipts, passed, nativeVars>>

-----------------------------------------------------------------------------
(* Publication, and the receipt of the finally block. *)

\* A refused or lost answer is thrown: the cursor stays before the request.
Publish ==
    /\ At("returned")
    /\ \/ /\ claim[conn.r] = "claimed" /\ conn.s \notin deleted
          /\ claim' = [claim EXCEPT ![conn.r] = "completed"] /\ pending' = pending \ {conn.r}
          /\ \/ Goto("published") /\ UNCHANGED bounds
             \/ Goto("thrown") /\ Lost
       \/ /\ Goto("thrown") /\ UNCHANGED <<claim, pending>>
          /\ IF claim[conn.r] = "claimed" /\ conn.s \notin deleted THEN Lost ELSE UNCHANGED bounds
    /\ UNCHANGED <<holds, deleted, diskVars, nativeVars, scanned>>

PruneAnswered ==
    /\ At("published") /\ journal' = Prune /\ Goto("receipt")
    /\ UNCHANGED <<serverVars, owner, receipts, passed, nativeVars, scanned, bounds>>

\* The answer was accepted, refused or lost: the exit is confirmed in each case.
PushReceipt ==
    /\ conn.at \in Closing
    /\ receipts' = receipts \cup {conn.r}
    /\ conn' = [conn EXCEPT !.at = "flush", !.for = IF At("receipt") THEN "end" ELSE "again"]
    /\ UNCHANGED <<serverVars, journal, owner, passed, nativeVars, scanned, bounds>>

-----------------------------------------------------------------------------
(* The connector process, and its operator. *)

\* The owner file of an operation that was cut off stays behind; the native
\* process is no child that dies with the connector.
Crash ==
    /\ crashes < MaxCrashes /\ crashes' = crashes + 1 /\ conn.at # "down"
    /\ conn' = Down /\ scanned' = {}
    /\ owner' \in IF conn.at \in Bookkeeping THEN {owner, owner \cup {conn.s}} ELSE {owner}
    /\ UNCHANGED <<serverVars, journal, receipts, passed, nativeVars, faults>>

Start ==
    /\ At("down") /\ conn' = Idle
    /\ UNCHANGED <<serverVars, diskVars, nativeVars, scanned, bounds>>

\* "confirm old execution exit before repairing its owner file": the operator.
Repair(s) ==
    /\ At("down") /\ s \in owner /\ \A r \in Of(s) : proc[r] # "alive"
    /\ owner' = owner \ {s}
    /\ UNCHANGED <<serverVars, journal, receipts, passed, nativeVars, conn, scanned, bounds>>

Working ==
    \/ SendReceipt \/ NoteExit \/ DropReceipt \/ Forwarded \/ Collect \/ Flushed
    \/ Claim \/ Dismiss \/ Unprepared \/ Acquire \/ Execute \/ Spawn \/ Started \/ Settle
    \/ GiveUp \/ Publish \/ PruneAnswered \/ PushReceipt
Next ==
    \/ \E r \in Request : ClaimEnds(r) \/ Face(r) \/ Exit(r)
    \/ \E s \in Session : DeleteSession(s) \/ Scan(s) \/ Repair(s)
    \/ Working \/ Crash \/ Start

Spec == Init /\ [][Next]_vars

\* The loop runs on and is started again, it visits every session, native
\* processes end (they have a deadline), and the operator repairs owner files.
FairSpec ==
    /\ Spec /\ WF_vars(Working) /\ WF_vars(Start) /\ WF_vars(\E r \in Request : Exit(r))
    /\ \A r \in Request : SF_vars(Face(r))
    /\ SF_vars(\E s \in Session : Scan(s)) /\ SF_vars(\E s \in Session : Repair(s))

-----------------------------------------------------------------------------
(* Properties. *)

\* No hold of an attempt ends while its process may still run: not by the end of
\* the claim, a restart, the deletion of the session or a lost answer.
HoldUntilExit ==
    [][\A r \in Request : Held(r) /\ ~Held(r)' => proc[r] = "exited"]_vars

\* What the connector works on.
AtWork == {"claim", "granted", "dismissed", "returned", "published"} \cup Owning \cup Closing
WhereItIs ==
    /\ conn.at \notin {"down", "idle"} => conn.s \in Session
    /\ conn.at \in AtWork => conn.for = "work"
    /\ conn.for \in {"work", "end", "again"} => conn.r \in Request /\ conn.s = SessionOf[conn.r]

\* Only a process that has exited is settled in the journal, answered for, or
\* reported to the server.
ExitsAreReal ==
    /\ \A r \in Request : r \in receipts \/ journal[r] \in {"settled", "reported"} => proc[r] = "exited"
    /\ conn.at \in {"returned", "published"} \cup Closing => proc[conn.r] = "exited"
    /\ conn.at \in {"sent", "noted", "forwarded"} => conn.x \in Request /\ proc[conn.x] = "exited"

\* Whatever is replayed, restarted or granted again, a request has one process:
\* its entry stays until no grant can lead to another one.
RunOnce == \A r \in Request : spawned[r] <= 1
OneProcess ==
    /\ RunOnce
    /\ \A r \in Request :
          /\ proc[r] = "none" => spawned[r] = 0
          /\ claim[r] = "none" => proc[r] = "none" /\ journal[r] = "none"
          /\ journal[r] = "none" => proc[r] = "none" \/ claim[r] \in {"completed", "paused"}
    /\ conn.at \in AtWork \ {"claim"} => claim[conn.r] # "none"
    /\ conn.at = "owned" /\ journal[conn.r] = "none" => proc[conn.r] = "none"
    /\ conn.at = "prepared" => proc[conn.r] = "none" /\ journal[conn.r] = "prepared"
    /\ conn.at = "dismissed" => claim[conn.r] \in {"completed", "paused"}
    /\ conn.at = "published" => claim[conn.r] = "completed"

\* The journal tells the truth about the processes, across crashes, lost calls
\* and unconfirmed exits, and no request is ever executed twice.
JournalTrue == TypeOK /\ WhereItIs /\ ExitsAreReal /\ OneProcess

\* The exit of a held attempt, once confirmed, is never forgotten on disk: the
\* journal or the cursor file still knows it, until the server does.
EvidenceKept ==
    \A r \in Request :
        Held(r) /\ proc[r] = "exited" /\ journal[r] \notin {"prepared", "started"} =>
            r \in receipts \/ Settled(r)

\* Live and detached holds of an account share one capacity.
WithinCapacity == Cardinality(pending \cup holds) <= Limit

\* A confirmed exit frees its slot, whatever call was lost and wherever the
\* connector died; only the deletion of its session may delay that further.
ExitIsReported ==
    \A r \in Request : (Settled(r) ~> ~Held(r) \/ SessionOf[r] \in deleted)
=============================================================================
