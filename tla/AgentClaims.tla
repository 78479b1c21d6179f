---------------------------- MODULE AgentClaims ----------------------------
(***************************************************************************)
(* The claim protocol of one collaboration session, seen by one author:    *)
(* how an agent_request reaches at most one of the author's runtimes at a  *)
(* time, how the lease and the attempt number fence a runtime that lost    *)
(* it, how pause, message erasure, lost membership and a stopped Team run  *)
(* end it, and what each of those may leave behind in the event log.       *)
(*                                                                         *)
(* Source: apps/server/src/database.ts (the CollaborationDatabase; every   *)
(* method is one BEGIN IMMEDIATE transaction and therefore one action) and *)
(* packages/bridge/src/bridge.ts (the connector that executes a claim).    *)
(*                                                                         *)
(* Time is the remaining lease of each claim, counted down by Tick; zero   *)
(* stands for "lease_expires_at <= now" and for NULL alike.                *)
(***************************************************************************)
EXTENDS Integers, FiniteSets

CONSTANTS
    Request,        \* agent_request events the author may post
    Runtime,        \* execution runtimes the author may register here
    Device,         \* the author's devices
    DeviceOf,       \* runtimes.device_id
    Matches,        \* per request, the runtimes its execution_profile selects
    Sole,           \* requests naming neither a runtime nor the codex harness
    Team,           \* requests dispatched as steps of an Agent team run
    Run,            \* Agent team runs
    RunOf,          \* the run whose step a Team request is
    RunDevice,      \* agent_team_runs.device_id: where each run was started
    Aware,          \* runtimes with context_deletion_version = 1
    Lease,          \* AGENT_CLAIM_LEASE_MS in ticks
    MaxAttempts,    \* MAX_AGENT_CLAIM_ATTEMPTS
    MaxChats,       \* bound: human_chat events
    MaxOutputs,     \* bound: runtime outputs before their answers
    MaxHead,        \* bound: chats and runtime outputs are among that many entries
    MaxErasures,    \* bound: author erasures
    NoRuntime,      \* absent runtime provenance
    NoRequest       \* absent current step

ASSUME ConstantsAssumption ==
    /\ IsFiniteSet(Request)
    /\ DeviceOf \in [Runtime -> Device]
    /\ Matches \in [Request -> SUBSET Runtime]
    /\ Sole \subseteq Request /\ Team \subseteq Request /\ Aware \subseteq Runtime
    /\ RunOf \in [Team -> Run] /\ RunDevice \in [Run -> Device]
    /\ Lease \in Nat \ {0} /\ MaxAttempts \in Nat \ {0}
    /\ MaxChats \in Nat /\ MaxOutputs \in Nat /\ MaxHead \in Nat /\ MaxErasures \in Nat
    /\ NoRuntime \notin Runtime /\ NoRequest \notin Request

VARIABLES
    head,       \* sessions.next_sequence: sequence of the newest event
    revision,   \* sessions.content_revision
    chats,      \* human_chat rows: set of [seq, rev, erased]
    request,    \* agent_request rows: [seq, rev, erased], seq = 0 before Ask
    work,       \* rows replying to a request (progress, tools, responses)
    claim,      \* agent_request_claims rows
    run,        \* agent_team_runs: [status, step]
    presence,   \* runtimes.status as runtimeStatus reads it
    devices,    \* devices whose credential is not revoked
    visible,    \* session_member_visibility.visible of the author
    blocked,    \* session_member_visibility.blocked_through_sequence
    exec        \* what the connector does with each attempt it was granted

sessionVars == <<head, revision, chats, request, work>>
accessVars  == <<presence, devices, visible, blocked>>
vars == <<head, revision, chats, request, work, claim, run, presence, devices,
          visible, blocked, exec>>

Attempt == 1 .. MaxAttempts
Permit  == Request \X Runtime \X Attempt

WorkKind == {"progress", "tool", "response"}
\* by = NoRuntime: published by the server (pause marker, abandoned-claim
\* failure, context-changed failure); otherwise the runtime's provenance.
\* rev is events.content_revision: of the append, then of the erasure.
Work == [req: Request, seq: Nat, rev: Nat, kind: WorkKind, by: Runtime \cup {NoRuntime},
         attempt: 0 .. MaxAttempts, erased: BOOLEAN]
Output(r, seq, rev, kind, by, n) ==
    [req |-> r, seq |-> seq, rev |-> rev, kind |-> kind, by |-> by, attempt |-> n,
     erased |-> FALSE]

ClaimStatus == {"none", "claimed", "paused", "completed", "failed"}
NoClaim == [status |-> "none", runtime |-> NoRuntime, attempt |-> 0, lease |-> 0,
            pending |-> FALSE]

Row == [seq: Nat, rev: Nat, erased: BOOLEAN]
Claim == [status: ClaimStatus, runtime: Runtime \cup {NoRuntime}, attempt: 0 .. MaxAttempts,
          lease: 0 .. Lease, pending: BOOLEAN]
TeamRun == [status: {"none", "running", "paused", "ended", "forgotten"},
            step: Request \cup {NoRequest}]

TypeOK ==
    /\ head \in Nat /\ revision \in Nat /\ blocked \in Nat
    /\ chats \subseteq Row
    /\ request \in [Request -> Row]
    /\ work \subseteq Work
    /\ claim \in [Request -> Claim]
    /\ run \in [Run -> TeamRun]
    /\ presence \in [Runtime -> {"online", "stale", "revoked"}]
    /\ devices \subseteq Device /\ visible \in BOOLEAN
    /\ exec \in [Permit -> {"none", "granted", "live", "stopped"}]

-----------------------------------------------------------------------------
(* What the guards of the handlers read.  Here and below an operator named *)
(* X_Y is not part of the specification: it is X as a plausible bug would  *)
(* write it, kept to show that a property of the runs notices that bug.    *)

Asked(r) == request[r].seq > 0

\* isRequestContextCurrent
ContextCurrent(r) ==
    /\ Asked(r) /\ ~request[r].erased
    /\ request[r].rev = revision
    /\ request[r].seq > blocked

\* assertContextCapability
Capable(rt) == revision = 0 \/ rt \in Aware

\* assertTeamRunAuthority: the run's own device, or the membership, is gone.
AuthorityLost(g) == ~visible \/ RunDevice[g] \notin devices

\* teamRequestMayExecute
MayExecute_AnyStatus(r) ==
    r \in Team => run[RunOf[r]].step = r /\ ~AuthorityLost(RunOf[r])
MayExecute(r) ==
    r \in Team => /\ run[RunOf[r]] = [status |-> "running", step |-> r]
                  /\ ~AuthorityLost(RunOf[r])

\* The author's credential and write access: assertActiveDevice, requireWrite.
MayWrite(rt) == visible /\ DeviceOf[rt] \in devices

\* The checks every runtime-authored write shares.
RuntimeActs(r, rt) ==
    /\ MayWrite(rt) /\ presence[rt] \in {"online", "stale"}
    /\ ContextCurrent(r) /\ Capable(rt)

\* agentRequestTarget and runtimeSupportsAgentTarget over the online runtimes.
Selected(r, rt) ==
    LET online == {m \in Matches[r] : presence[m] = "online"}
    IN  rt \in online /\ (r \in Sole => online = {rt})

\* assertRuntimeClaimSlotAvailable, for the claims of this session
Occupies_ByLease(r, rt) ==
    /\ claim[r].runtime = rt /\ claim[r].status = "claimed" /\ claim[r].lease > 0
Occupies(r, rt) ==
    /\ claim[r].runtime = rt
    /\ claim[r].pending \/ (claim[r].status = "claimed" /\ claim[r].lease > 0)
SlotFree(r, rt) == \A q \in Request \ {r} : ~Occupies(q, rt)

\* isCurrentClaimAttempt
CurrentAttempt_AnyStatus(r, rt, n) ==
    /\ claim[r].runtime = rt /\ claim[r].attempt = n
CurrentAttempt(r, rt, n) ==
    /\ claim[r].runtime = rt /\ claim[r].status = "claimed"
    /\ claim[r].lease > 0 /\ claim[r].attempt = n

LiveWork(r) == {e \in work : e.req = r /\ ~e.erased}
LiveAnswers(r) == {e \in LiveWork(r) : e.kind = "response"}
Answered(r) == LiveAnswers(r) # {}
AnsweredByRuntime(r) == \E e \in LiveAnswers(r) : e.by # NoRuntime

-----------------------------------------------------------------------------
\* The author's connectors have registered their runtimes; nothing of what this
\* module follows is posted.
InitWith(older, present) ==
    /\ head = older /\ revision = 0 /\ chats = {} /\ work = {}
    /\ request = [r \in Request |-> [seq |-> 0, rev |-> 0, erased |-> FALSE]]
    /\ claim = [r \in Request |-> NoClaim]
    /\ run = [g \in Run |-> [status |-> "none", step |-> NoRequest]]
    /\ presence = [rt \in Runtime |-> "online"]
    /\ devices = present /\ visible = TRUE /\ blocked = 0
    /\ exec = [t \in Permit |-> "none"]
Init == InitWith(0, Device)

-----------------------------------------------------------------------------
(* The conversation: appendEvent, appendTeamAgentRequest. *)

Chat ==
    /\ Cardinality(chats) < MaxChats /\ head < MaxHead
    /\ head' = head + 1
    /\ chats' = chats \cup {[seq |-> head + 1, rev |-> revision, erased |-> FALSE]}
    /\ UNCHANGED <<revision, request, work, claim, run, accessVars, exec>>

PostRequest(r) ==
    /\ ~Asked(r) /\ visible /\ devices # {}
    /\ head' = head + 1
    /\ request' = [request EXCEPT ![r] = [seq |-> head + 1, rev |-> revision, erased |-> FALSE]]
    /\ UNCHANGED <<revision, chats, work, claim, accessVars, exec>>

\* After an erasure a request is refused while every runtime it could reach
\* is too old to rebuild its context.
Ask(r) ==
    /\ r \notin Team
    /\ Matches[r] # {} /\ revision > 0 => Matches[r] \cap Aware # {}
    /\ PostRequest(r)
    /\ UNCHANGED run

\* The Team coordinator dispatches the next step of a run to its exact
\* runtime once the previous step has an answer (AgentTeams.consume).
Dispatch(r) ==
    /\ r \in Team /\ ~AuthorityLost(RunOf[r])
    /\ LET g == run[RunOf[r]]
       IN  /\ g.status \in {"none", "running"}
           /\ g.step # NoRequest => AnsweredByRuntime(g.step) /\ ContextCurrent(g.step)
    /\ \E rt \in Matches[r] :
          presence[rt] = "online" /\ DeviceOf[rt] \in devices /\ Capable(rt)
    /\ PostRequest(r)
    /\ run' = [run EXCEPT ![RunOf[r]] = [status |-> "running", step |-> r]]

-----------------------------------------------------------------------------
(* claimAgentRequest: its three outcomes that change state. *)

Eligible(r, rt) ==
    /\ RuntimeActs(r, rt) /\ MayExecute(r) /\ Selected(r, rt)

Grant(r, rt, n) ==
    /\ claim' = [claim EXCEPT ![r] =
           [status |-> "claimed", runtime |-> rt, attempt |-> n, lease |-> Lease,
            pending |-> r \in Team]]
    /\ exec' = [exec EXCEPT ![<<r, rt, n>>] = "granted"]
    /\ UNCHANGED <<sessionVars, run, accessVars>>

ClaimFresh(r, rt) ==
    /\ Eligible(r, rt) /\ claim[r].status = "none"
    /\ SlotFree(r, rt)
    /\ Grant(r, rt, 1)

Lapsed(r) == claim[r].status = "claimed" /\ claim[r].lease = 0

Reclaim_Uncapped(r, rt) ==
    /\ Eligible(r, rt) /\ Lapsed(r) /\ ~claim[r].pending /\ r \notin Team
    /\ SlotFree(r, rt)
    /\ Grant(r, rt, claim[r].attempt + 1)
Reclaim_BusySlot(r, rt) ==
    /\ Eligible(r, rt) /\ Lapsed(r) /\ ~claim[r].pending
    /\ r \notin Team /\ claim[r].attempt < MaxAttempts
    /\ Grant(r, rt, claim[r].attempt + 1)

\* A lapsed claim is handed to the asking runtime under the next attempt.
Reclaim(r, rt) ==
    /\ Eligible(r, rt) /\ Lapsed(r) /\ ~claim[r].pending
    /\ r \notin Team /\ claim[r].attempt < MaxAttempts
    /\ SlotFree(r, rt)
    /\ Grant(r, rt, claim[r].attempt + 1)

Abandon_Silent(r, rt) ==
    /\ Eligible(r, rt) /\ Lapsed(r) /\ ~claim[r].pending
    /\ r \in Team \/ claim[r].attempt >= MaxAttempts
    /\ claim' = [claim EXCEPT ![r].status = "failed", ![r].lease = 0]
    /\ UNCHANGED <<sessionVars, run, accessVars, exec>>

\* failAbandonedClaim: the attempts are spent, or a Team step lapsed.
Abandon(r, rt) ==
    /\ Eligible(r, rt) /\ Lapsed(r) /\ ~claim[r].pending
    /\ r \in Team \/ claim[r].attempt >= MaxAttempts
    /\ claim' = [claim EXCEPT ![r].status = "failed", ![r].lease = 0]
    /\ head' = head + 1
    /\ work' = work \cup {Output(r, head + 1, revision, "response", NoRuntime, 0)}
    /\ UNCHANGED <<revision, chats, request, run, accessVars, exec>>

-----------------------------------------------------------------------------
(* The connector's execution of a granted attempt, and what it publishes.  *)
(* Any message may arrive late: nothing but the server's guards stops an   *)
(* attempt from being heard long after it was superseded.  The native turn *)
(* itself is followed for Team requests, whose exit the server waits for.  *)

\* The native turn starts some time after the claim was answered; the
\* execution journal never starts the same attempt twice.
Start(t) ==
    /\ t[1] \in Team /\ exec[t] = "granted"
    /\ exec' = [exec EXCEPT ![t] = "live"]
    /\ UNCHANGED <<sessionVars, claim, run, accessVars>>

\* The native turn has exited: it finished, failed or was aborted.
Stop(t) ==
    /\ exec[t] = "live"
    /\ exec' = [exec EXCEPT ![t] = "stopped"]
    /\ UNCHANGED <<sessionVars, claim, run, accessVars>>

\* execute() settles only after the native exit.
Returned(r, rt, n) ==
    exec[<<r, rt, n>>] = IF r \in Team THEN "stopped" ELSE "granted"

Outputs == {e \in work : e.by # NoRuntime /\ e.kind # "response"}
RoomForOutput == Cardinality(Outputs) < MaxOutputs /\ head < MaxHead

Publish_Unfenced(r, kind, rt, n) ==
    /\ RuntimeActs(r, rt) /\ MayExecute(r)
    /\ head' = head + 1
    /\ work' = work \cup {Output(r, head + 1, revision, kind, rt, n)}
    /\ UNCHANGED <<revision, chats, request, run, accessVars, exec>>
Publish(r, kind, rt, n) ==
    /\ RuntimeActs(r, rt) /\ CurrentAttempt(r, rt, n) /\ MayExecute(r)
    /\ head' = head + 1
    /\ work' = work \cup {Output(r, head + 1, revision, kind, rt, n)}
    /\ UNCHANGED <<revision, chats, request, run, accessVars, exec>>

\* appendAgentProgress: the only write that renews the lease. The bridge also
\* reports "started processing" before the native turn exists.
Progress(r, rt, n) ==
    /\ exec[<<r, rt, n>>] # "none" /\ RoomForOutput
    /\ Publish(r, "progress", rt, n)
    /\ claim' = [claim EXCEPT ![r].lease = Lease]

\* appendEvent of a request-linked tool_call or tool_result
Tool(r, rt, n) ==
    /\ Returned(r, rt, n) /\ RoomForOutput
    /\ Publish(r, "tool", rt, n)
    /\ UNCHANGED claim

\* completeAgentRequest
Complete(r, rt, n) ==
    /\ Returned(r, rt, n)
    /\ Publish(r, "response", rt, n)
    /\ claim' = [claim EXCEPT ![r].status = "completed", ![r].pending = FALSE]

\* acknowledgeAgentExecutionStopped needs only the original active device.
AckStopped(r, rt, n) ==
    /\ exec[<<r, rt, n>>] = "stopped" /\ DeviceOf[rt] \in devices
    /\ claim[r].runtime = rt /\ claim[r].attempt = n /\ claim[r].pending
    /\ claim' = [claim EXCEPT ![r].pending = FALSE]
    /\ UNCHANGED <<sessionVars, run, accessVars, exec>>

-----------------------------------------------------------------------------
(* The author's and the coordinator's controls. *)

PauseMarker(r) == Output(r, head + 1, revision, "progress", NoRuntime, 0)
Ended_DropsPending(c) == [c EXCEPT !.status = "paused", !.lease = 0, !.pending = FALSE]
Ended(c) == [c EXCEPT !.status = "paused", !.lease = 0]

PauseClaim(r) ==
    /\ visible /\ devices # {} /\ ContextCurrent(r) /\ claim[r].status = "claimed"
    /\ claim' = [claim EXCEPT ![r] = Ended(@)]
    /\ head' = head + 1
    /\ work' = work \cup {PauseMarker(r)}
    /\ UNCHANGED <<revision, chats, request, run, accessVars, exec>>

\* pauseAgentRequest; a step whose private run survives is refused.
Pause(r) ==
    /\ r \in Team => run[RunOf[r]].status = "forgotten"
    /\ PauseClaim(r)

\* A step the run no longer waits for: the run is not running, or has moved on.
Retired(r) ==
    /\ r \in Team /\ Asked(r)
    /\ LET g == run[RunOf[r]]
       IN  \/ g.status \in {"paused", "ended"}
           \/ g.status = "running" /\ g.step # r

\* pauseTeamAgentRequest, on the run's own device (cancel and its retries). It
\* commits the claim it invents for a step nobody claimed before it pauses
\* that claim in a second transaction.
StubClaim(r) ==
    /\ Retired(r) /\ RunDevice[RunOf[r]] \in devices /\ claim[r].status = "none"
    /\ \E rt \in Matches[r] :
          claim' = [claim EXCEPT ![r] = [NoClaim EXCEPT
                        !.status = "claimed", !.runtime = rt, !.attempt = 1]]
    /\ UNCHANGED <<sessionVars, run, accessVars, exec>>

PauseStep(r) == Retired(r) /\ ~AuthorityLost(RunOf[r]) /\ PauseClaim(r)

\* Pause, a step that timed out, a clarification and a server restart pause
\* the run; Stop, the deadline and a failed step end it.
HaltRun(g) ==
    /\ run[g].status \in {"running", "paused"}
    /\ \E status \in {"paused", "ended"} : run' = [run EXCEPT ![g].status = status]
    /\ UNCHANGED <<sessionVars, claim, accessVars, exec>>

\* AgentTeams.end: losing the run's authority retires its current claim
\* without a marker.
RevokeRun(g) ==
    /\ AuthorityLost(g) /\ run[g].status \in {"running", "paused"}
    /\ run' = [run EXCEPT ![g].status = "ended"]
    /\ claim' = [r \in Request |->
           IF run[g].step = r /\ claim[r].status = "claimed" THEN Ended(claim[r]) ELSE claim[r]]
    /\ UNCHANGED <<sessionVars, accessVars, exec>>

\* retryNativeCancellation retires what the lost authority left claimed.
RetireStep(r) ==
    /\ Retired(r) /\ AuthorityLost(RunOf[r]) /\ claim[r].status = "claimed"
    /\ claim' = [claim EXCEPT ![r] = Ended(@)]
    /\ UNCHANGED <<sessionVars, run, accessVars, exec>>

\* Resume keeps a step that has its answer, unless a restart or a time-out
\* spoiled it, and drops a step that has none.
ResumeRun(g) ==
    /\ run[g].status = "paused" /\ ~AuthorityLost(g)
    /\ \E step \in {run[g].step, NoRequest} :
          /\ step # NoRequest => Answered(step)
          /\ run' = [run EXCEPT ![g] = [status |-> "running", step |-> step]]
    /\ UNCHANGED <<sessionVars, claim, accessVars, exec>>

\* Deleting a run ends the claims its steps still hold (trigger
\* agent_team_runs_native_claim_cleanup).
CleanedUp(r) == IF claim[r].status = "claimed" THEN Ended(claim[r]) ELSE claim[r]

\* forget and prune delete a terminal run; its requests stay fenced.
ForgetRun(g) ==
    /\ run[g].status = "ended"
    /\ run' = [run EXCEPT ![g].status = "forgotten"]
    /\ claim' = [r \in Request |->
           IF r \in Team /\ RunOf[r] = g THEN CleanedUp(r) ELSE claim[r]]
    /\ UNCHANGED <<sessionVars, accessVars, exec>>

-----------------------------------------------------------------------------
(* Presence, devices, membership and time. *)

\* registerRuntime also brings a revoked runtime back.
Register(rt) ==
    /\ MayWrite(rt) /\ presence[rt] # "online"
    /\ presence' = [presence EXCEPT ![rt] = "online"]
    /\ UNCHANGED <<sessionVars, claim, run, devices, visible, blocked, exec>>

\* No heartbeat for RUNTIME_OFFLINE_AFTER_MS.
GoStale(rt) ==
    /\ presence[rt] = "online"
    /\ presence' = [presence EXCEPT ![rt] = "stale"]
    /\ UNCHANGED <<sessionVars, claim, run, devices, visible, blocked, exec>>

RevokeDevice(d) ==
    /\ d \in devices
    /\ devices' = devices \ {d}
    /\ presence' = [rt \in Runtime |->
           IF DeviceOf[rt] = d THEN "revoked" ELSE presence[rt]]
    /\ UNCHANGED <<sessionVars, claim, run, visible, blocked, exec>>

\* setSessionMemberVisibility(visible = false) of the author by the owner
Hide ==
    /\ visible /\ visible' = FALSE /\ blocked' = head
    /\ run' = [g \in Run |-> IF run[g].status \in {"running", "paused"}
                             THEN [run[g] EXCEPT !.status = "ended"] ELSE run[g]]
    /\ claim' = [r \in Request |->
           IF claim[r].status = "claimed" THEN Ended(claim[r]) ELSE claim[r]]
    /\ presence' = [rt \in Runtime |-> "revoked"]
    /\ UNCHANGED <<sessionVars, devices, exec>>

Show ==
    /\ ~visible /\ visible' = TRUE
    /\ UNCHANGED <<sessionVars, claim, run, presence, devices, blocked, exec>>

Tick ==
    /\ \E r \in Request : claim[r].status = "claimed" /\ claim[r].lease > 0
    /\ claim' = [r \in Request |-> [claim[r] EXCEPT !.lease = IF @ > 0 THEN @ - 1 ELSE 0]]
    /\ UNCHANGED <<sessionVars, run, accessVars, exec>>

-----------------------------------------------------------------------------
(* deleteMessage: the erased closure, then invalidateContextExecutions.    *)

\* Team requests copy earlier requests and answers of their run.
Derived(gone) ==
    {r \in Team : /\ Asked(r) /\ ~request[r].erased
                  /\ \E q \in Team : /\ RunOf[q] = RunOf[r] /\ ~request[q].erased
                                     /\ \/ q \in gone.requests /\ request[q].seq < request[r].seq
                                        \/ \E e \in gone.work : /\ e.req = q /\ e.kind = "response"
                                                                /\ e.seq < request[r].seq}

Closure_OffByOne(requests, outputs, from) ==
    LET first == [requests |-> requests,
                  work |-> outputs \cup {e \in work : \/ request[e.req].seq > from + 1
                                                      \/ e.req \in requests}]
        more == Derived(first)
    IN  [requests |-> first.requests \cup more,
         work |-> first.work \cup {e \in work : e.req \in more}]

\* The closure of the rows an erasure starts with, cut at sequence `from`.
Closure(requests, outputs, from) ==
    LET first == [requests |-> requests,
                  work |-> outputs \cup {e \in work : \/ request[e.req].seq > from
                                                      \/ e.req \in requests}]
        more == Derived(first)
    IN  [requests |-> first.requests \cup more,
         work |-> first.work \cup {e \in work : e.req \in more}]

\* invalidateContextExecutions: the surviving requests without an answer
Unsettled(erased, kept) ==
    {r \in Request : /\ Asked(r) /\ ~erased[r]
                     /\ ~\E e \in kept : e.req = r /\ e.kind = "response" /\ ~e.erased}

\* Tombstone the closure, advance the revision, end every request that the
\* new revision leaves without an answer, and append the control event.
Erase(goneChats, gone) ==
    LET erased == [r \in Request |-> request[r].erased \/ r \in gone.requests]
        next == revision + 1
        Tombstone(row) == [row EXCEPT !.erased = TRUE, !.rev = next]
        kept == {IF e \in gone.work /\ ~e.erased THEN Tombstone(e) ELSE e : e \in work}
        cut == Unsettled(erased, kept)
        place(r) == head + 1 + Cardinality({q \in cut : request[q].seq < request[r].seq})
    IN  /\ revision < MaxErasures
        /\ revision' = next
        /\ head' = head + 1 + Cardinality(cut)
        /\ chats' = {IF c \in goneChats THEN Tombstone(c) ELSE c : c \in chats}
        /\ request' = [r \in Request |-> 
               IF erased[r] /\ ~request[r].erased THEN Tombstone(request[r]) ELSE request[r]]
        /\ work' = kept \cup {Output(r, place(r), next, "response", NoRuntime, 0) : r \in cut}
        /\ claim' = [r \in Request |->
               IF r \in Team THEN CleanedUp(r)
               ELSE IF claim[r].status = "claimed" /\ (r \in cut \/ erased[r])
               THEN [claim[r] EXCEPT !.status = "paused"] ELSE claim[r]]
        /\ run' = [g \in Run |-> IF run[g].status = "none" THEN run[g]
                                 ELSE [run[g] EXCEPT !.status = "forgotten"]]
        /\ UNCHANGED <<accessVars, exec>>

\* Any member erases a message of their own.
EraseChat(c) ==
    /\ c \in chats /\ ~c.erased
    /\ Erase({c}, Closure({}, {}, c.seq))

EraseRequest(r) ==
    /\ visible /\ devices # {} /\ Asked(r) /\ ~request[r].erased
    /\ Erase({}, Closure({r}, {}, request[r].seq))

\* An answer takes the whole output of its request with it, and everything
\* derived from the first surviving part of that output.
EraseAnswer(a) ==
    /\ visible /\ devices # {} /\ a \in work /\ a.kind = "response" /\ ~a.erased
    /\ LET first == CHOOSE e \in LiveWork(a.req) : \A o \in LiveWork(a.req) : e.seq <= o.seq
       IN  Erase({}, Closure({}, {e \in work : e.req = a.req}, first.seq))

-----------------------------------------------------------------------------
Next ==
    \/ Chat
    \/ \E r \in Request : \/ Ask(r) \/ Dispatch(r) \/ Pause(r) \/ StubClaim(r)
                          \/ PauseStep(r) \/ RetireStep(r)
                          \/ EraseRequest(r)
    \/ \E r \in Request, rt \in Runtime : \/ ClaimFresh(r, rt) \/ Reclaim(r, rt) \/ Abandon(r, rt)
    \/ \E t \in Permit : Start(t) \/ Stop(t)
    \/ \E r \in Request, rt \in Runtime, n \in Attempt :
          \/ Progress(r, rt, n) \/ Tool(r, rt, n) \/ Complete(r, rt, n) \/ AckStopped(r, rt, n)
    \/ \E g \in Run : HaltRun(g) \/ RevokeRun(g) \/ ResumeRun(g) \/ ForgetRun(g)
    \/ \E rt \in Runtime : Register(rt) \/ GoStale(rt)
    \/ \E d \in Device : RevokeDevice(d)
    \/ Hide \/ Show \/ Tick
    \/ \E c \in chats : EraseChat(c)
    \/ \E a \in work : EraseAnswer(a)

Spec == Init /\ [][Next]_vars

-----------------------------------------------------------------------------
(* Properties. *)

\* A request never shows two answers: completion, the abandoned-claim failure
\* and the context-changed failure exclude one another whatever the order in
\* which a late runtime, a reclaim and an erasure reach the server.  While its
\* context is current the private claim row and the log every member reads tell
\* one story: completed means the holder's answer is shown, failed means the
\* server's failure is, and nothing else is answered.
ClaimMatchesLog ==
    \A r \in Request :
      /\ \A a, b \in LiveAnswers(r) : a = b
      /\ Asked(r) /\ ~request[r].erased /\ request[r].rev = revision =>
            CASE claim[r].status = "completed" ->
                    \E a \in LiveAnswers(r) : /\ a.by = claim[r].runtime
                                              /\ a.attempt = claim[r].attempt
              [] claim[r].status = "failed" -> \E a \in LiveAnswers(r) : a.by = NoRuntime
              [] OTHER -> ~Answered(r)

\* After an erasure no request asked before it waits for ever or keeps a copy:
\* each surviving one has its terminal answer and no live claim, and an erased
\* one shows no output at all.
ErasureSettles ==
    \A r \in Request :
        /\ Asked(r) /\ ~request[r].erased /\ request[r].rev < revision =>
              Answered(r) /\ claim[r].status # "claimed"
        /\ request[r].erased => LiveWork(r) = {} /\ claim[r].status # "claimed"

\* Whatever an Agent said after it could read an erased message is gone too: a
\* surviving runtime output belongs to a request asked before the message was
\* posted or after it was erased.
NoOutputFromErased ==
    \A e \in work : ~e.erased /\ e.by # NoRuntime =>
        LET asked == request[e.req]
            Erased(row) == row.erased /\ row.seq < asked.seq => row.rev <= asked.rev
        IN  /\ \A c \in chats : Erased(c)
            /\ \A o \in work : Erased(o)
            /\ \A q \in Request : Erased(request[q])

\* What an erasure must take along, and what it must not leave waiting.
ErasureComplete == ErasureSettles /\ NoOutputFromErased

\* A runtime executes one claim at a time as far as the server knows, through
\* lapsed leases, reclaims and renewals.
SlotExclusive ==
    \A rt \in Runtime : \A q, r \in Request :
        Occupies(q, rt) /\ Occupies(r, rt) => q = r

\* The output of superseded attempts never mixes with that of a later one:
\* the log holds the attempts of a request in order, each from one runtime.
AttemptsInOrder ==
    \A d, e \in work :
        d.req = e.req /\ d.by # NoRuntime /\ e.by # NoRuntime =>
            /\ d.seq < e.seq => d.attempt <= e.attempt
            /\ d.attempt = e.attempt => d.by = e.by

\* Once the room has been told that a request was paused, failed or answered
\* no runtime is heard on it again, and it is told of a pause only once.
StopIsFinal ==
    \A m, e \in work : m.req = e.req =>
        /\ (m.kind = "response" \/ m.by = NoRuntime) /\ e.by # NoRuntime => e.seq <= m.seq
        /\ m.by = NoRuntime /\ e.by = NoRuntime /\ m.kind = "progress" /\ e.kind = "progress" => m = e

\* The server never forgets a turn it is answerable for: as long as a granted
\* Team attempt has not been seen to exit, its claim row still names that
\* runtime and attempt and still waits, however the claim itself ended.
PendingHeld ==
    /\ \A q \in Team, rt \in Runtime, n \in Attempt :
          exec[<<q, rt, n>>] \in {"granted", "live"} =>
              claim[q].runtime = rt /\ claim[q].attempt = n /\ claim[q].pending
    /\ \A q \in Request : claim[q].status = "none" => ~claim[q].pending

\* Native capacity outlives the claim: while the turn of a Team attempt may
\* still run on a computer (granted, or started and not seen to exit), no
\* other request is handed to that runtime, whatever happened to the lease,
\* the run, the membership or the history in between.
NoGrantOverTeamTurn ==
    [][\A r \in Request, rt \in Runtime, n \in Attempt :
          exec[<<r, rt, n>>] = "none" /\ exec'[<<r, rt, n>>] = "granted" =>
              \A q \in Team \ {r}, m \in Attempt : exec[<<q, rt, m>>] \notin {"granted", "live"}]_vars
=============================================================================
