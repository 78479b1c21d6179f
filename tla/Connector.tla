----------------------------- MODULE Connector -----------------------------
(***************************************************************************)
(* The connectors that drive the claim protocol.  Each one reads its       *)
(* session's events behind one durable, monotonic cursor, asks a claim for *)
(* the author's requests one by one, executes what it is granted and moves *)
(* the cursor only past what it has handled: LocalBridge of                *)
(* packages/bridge/src/bridge.ts, polled by BridgeDaemon or by the project *)
(* connector.  Requests of Team runs, lost memberships and revoked devices *)
(* belong to AgentClaims alone: here the author stays connected.           *)
(***************************************************************************)
EXTENDS AgentClaims

CONSTANTS
    Projecting,     \* runtimes whose executor has projectCanonicalEvents
    Crashing        \* bound: the runtimes whose connectors crash in this instance

ASSUME ConnectorAssumption ==
    Projecting \subseteq Runtime /\ Crashing \subseteq Runtime

VARIABLES
    cursor,     \* BridgeCursorState.server of the session, per connector
    hand        \* the request processAgentRequest is executing

connectorVars == <<cursor, hand>>
allVars == <<vars, connectorVars>>

ConnectorTypeOK ==
    /\ cursor \in [Runtime -> 0 .. head]
    /\ hand \in [Runtime -> Request \cup {NoRequest}]

\* What is left behind the cursor once deleted rows, other members' events
\* and, where the executor has a shouldExecute, other targets are passed over.
Due(rt) ==
    {r \in Request : /\ Asked(r) /\ ~request[r].erased /\ request[r].seq > cursor[rt]
                     /\ rt \in Projecting => rt \in Matches[r]}

\* Nothing in hand, and r is the next request of the page.
Facing(rt, r) ==
    /\ hand[rt] = NoRequest /\ r \in Due(rt)
    /\ \A q \in Due(rt) : request[r].seq <= request[q].seq

\* #saveServerCursor
Advance(rt, r) == cursor' = [cursor EXCEPT ![rt] = request[r].seq]

ConnectorInit ==
    /\ Init
    /\ cursor = [rt \in Runtime |-> 0]
    /\ hand = [rt \in Runtime |-> NoRequest]

-----------------------------------------------------------------------------
(* processPendingAgentRequests: what becomes of the claim it asks for. *)

\* The claim is granted, or is still its own from before a failed execution.
Take(rt, r) ==
    /\ Facing(rt, r)
    /\ \/ ClaimFresh(r, rt)
       \/ Reclaim(r, rt)
       \/ /\ Eligible(r, rt) /\ claim[r].runtime = rt
          /\ claim[r].status = "claimed" /\ claim[r].lease > 0
          /\ UNCHANGED vars
    /\ hand' = [hand EXCEPT ![rt] = r]
    /\ UNCHANGED cursor

\* The claim request itself ends a request that used up its attempts.
GiveUp(rt, r) ==
    /\ Facing(rt, r) /\ Abandon(r, rt) /\ Advance(rt, r)
    /\ UNCHANGED hand

Passable_AnyClaim(r, rt) == claim[r].status # "none"

\* The outcomes after which the cursor moves on: agent_request_failed, an
\* ended claim of its own, and, for an executor that can project it, one that
\* another runtime holds or has completed (isTerminalAgentRequestClaimConflict).
\* Any other error, the paused claim of another runtime included (the client
\* takes it for a scope mismatch), leaves the cursor where it is.
Passable(r, rt) ==
    \/ claim[r].status = "failed"
    \/ claim[r].status \in {"completed", "paused"} /\ claim[r].runtime = rt
    \/ /\ rt \in Projecting /\ claim[r].runtime # rt
       /\ claim[r].status = "completed" \/ (claim[r].status = "claimed" /\ claim[r].lease > 0)

Pass(rt, r) ==
    /\ Facing(rt, r) /\ Eligible(r, rt) /\ Passable(r, rt)
    /\ Advance(rt, r)
    /\ UNCHANGED <<vars, hand>>

-----------------------------------------------------------------------------
(* processAgentRequest, from the granted claim to its return. *)

InHand(rt) == hand[rt] # NoRequest

\* appendAgentProgress, and the tool events of an execution that returned
Report(rt) ==
    /\ InHand(rt)
    /\ \E n \in Attempt : Progress(hand[rt], rt, n) \/ Tool(hand[rt], rt, n)
    /\ UNCHANGED connectorVars

LetGo(rt) == hand' = [hand EXCEPT ![rt] = NoRequest]

\* The answer, or the failure the executor reports, is published.
Deliver(rt) ==
    /\ InHand(rt) /\ \E n \in Attempt : Complete(hand[rt], rt, n)
    /\ Advance(rt, hand[rt]) /\ LetGo(rt)

\* checkControl saw the author's pause.
ObserveStop(rt) ==
    /\ InHand(rt) /\ Eligible(hand[rt], rt)
    /\ claim[hand[rt]].runtime = rt /\ claim[hand[rt]].status \in {"paused", "completed"}
    /\ Advance(rt, hand[rt]) /\ LetGo(rt)
    /\ UNCHANGED vars

\* checkControl asks the claim again every second. Once the lease has lapsed
\* that is a reclaim of its own request: the execution under the old attempt is
\* aborted and the next poll starts the new one.
Recheck(rt) ==
    /\ InHand(rt) /\ (Reclaim(hand[rt], rt) \/ Abandon(hand[rt], rt))
    /\ LetGo(rt)
    /\ UNCHANGED cursor

\* Everything else that ends an execution is thrown and retried by the next
\* poll: a changed context, a lapsed lease, an unreachable provider or server.
Throw(rt) ==
    /\ InHand(rt) /\ LetGo(rt)
    /\ UNCHANGED <<vars, cursor>>

\* The process dies and is started again. A project connector first projects
\* the whole authoritative history (materializeAuthoritativeHistory); Codex
\* refuses to while its journal holds an unresolved native turn.
Restart(rt) ==
    /\ rt \in Crashing /\ LetGo(rt)
    /\ cursor' = IF rt \in Projecting THEN [cursor EXCEPT ![rt] = head] ELSE cursor
    /\ UNCHANGED vars

\* What everyone else does meanwhile, and time.
Room ==
    /\ \/ Chat \/ Tick
       \/ \E r \in Request : Ask(r) \/ Pause(r) \/ EraseRequest(r)
       \/ \E c \in chats : EraseChat(c)
       \/ \E a \in work : EraseAnswer(a)
    /\ UNCHANGED connectorVars

Poll(rt) == \E r \in Request : Take(rt, r) \/ GiveUp(rt, r) \/ Pass(rt, r)
Return(rt) == Deliver(rt) \/ ObserveStop(rt) \/ Throw(rt)

ConnectorNext ==
    \/ Room
    \/ \E rt \in Runtime : Poll(rt) \/ Report(rt) \/ Recheck(rt) \/ Return(rt) \/ Restart(rt)

ConnectorSpec == ConnectorInit /\ [][ConnectorNext]_allVars

\* A connector polls for as long as it runs, every execution returns or
\* throws in the end, and time passes. That it is ever answered, rather than
\* thrown away, is not assumed, nor that it reports any progress.
FairConnectorSpec ==
    /\ ConnectorSpec
    /\ WF_allVars(Tick /\ UNCHANGED connectorVars)
    /\ \A rt \in Runtime : WF_allVars(Poll(rt)) /\ WF_allVars(Return(rt))

-----------------------------------------------------------------------------
(* Properties. *)

\* The room knows how the request ended, or can no longer see it.
Settled(r) == Answered(r) \/ claim[r].status = "paused" \/ request[r].erased

\* One monotonic cursor is the only way a connector discovers work, so it must
\* not move past a request that still needs this connector: what it left
\* behind has ended, or another runtime was holding it.
NothingSkipped ==
    \A rt \in Runtime, r \in Request :
        Asked(r) /\ rt \in Matches[r] /\ cursor[rt] >= request[r].seq =>
            Settled(r) \/ claim[r].runtime \notin {rt, NoRuntime}

\* However connectors race, crash and come late, every request is heard by one
\* that serves it, the room hears its attempts in order, one runtime each, and
\* nobody once it was told of the end.
HeardInOrder == ConnectorTypeOK /\ NothingSkipped /\ AttemptsInOrder /\ StopIsFinal

\* No silent, failing or crashing execution strands a request, whatever other
\* requests its connector serves before: it is answered, paused, erased, or
\* failed within its attempts. Nothing is promised once something was erased:
\* the claim of a request whose answer was erased is refused for good.
EventuallySettled ==
    \A r \in Request : Asked(r) ~> Settled(r) \/ revision > 0

\* A request that has ended does not hold up the ones behind it: the cursor
\* of every connector gets past it.
EndedRequestIsPassed ==
    \A rt \in Runtime, r \in Request :
        Asked(r) /\ Settled(r) ~> request[r].erased \/ cursor[rt] >= request[r].seq
=============================================================================
