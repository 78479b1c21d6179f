------------------------ MODULE AgentClaimsContract ------------------------
(* AgentClaims implements RequestContract: the fencing of a request is all  *)
(* that the lease, the attempt number, the content revision, the membership *)
(* cut-off and the Team run leave visible from outside.  And what its       *)
(* claims show of any one Team run is a TeamControl.                        *)
EXTENDS AgentClaims

CONSTANT Watched    \* the run an observer looks at, if there is one

\* A claim that no connector was ever granted (StubClaim) assigns nothing.
Granted(r) == \E rt \in Runtime, n \in Attempt : exec[<<r, rt, n>>] # "none"

\* A request out of the current context is closed whatever its claim says.
Phase(r) ==
    IF ~Asked(r) THEN "new"
    ELSE IF ~ContextCurrent(r) THEN "closed"
    ELSE IF claim[r].status \notin {"none", "claimed"} THEN "closed"
    ELSE IF Granted(r) THEN "held"
    ELSE "open"

\* Every row a runtime wrote, erased later or not.
Heard(r) ==
    {[seq |-> e.seq, by |-> e.by, token |-> e.attempt] :
        e \in {o \in work : o.req = r /\ o.by # NoRuntime}}

Contract == INSTANCE RequestContract WITH
    Holder <- Runtime, NoHolder <- NoRuntime, Limit <- MaxAttempts,
    clock <- head,
    phase <- [r \in Request |-> Phase(r)],
    holder <- [r \in Request |-> IF Granted(r) THEN claim[r].runtime ELSE NoRuntime],
    token <- [r \in Request |-> IF Granted(r) THEN claim[r].attempt ELSE 0],
    heard <- [r \in Request |-> Heard(r)]

\* Every step of the claim protocol is a step of the contract or invisible to
\* it: whatever pauses, erasures, lost memberships, lapses and reclaims do, a
\* runtime is heard only as the current holder under the current attempt, and
\* never after the request was closed.
ImplementsContract == Contract!Spec

-----------------------------------------------------------------------------
\* The steps of the run that reached the room, those a runtime answered, and
\* those with any response, erased later or not.
Steps == {r \in Team : RunOf[r] = Watched}
StepsAsked == {r \in Steps : Asked(r)}
StepsAnswered ==
    {r \in Steps : \E e \in work : e.req = r /\ e.kind = "response" /\ e.by # NoRuntime}
StepsClosed == {r \in Steps : \E e \in work : e.req = r /\ e.kind = "response"}

Control == INSTANCE TeamControl WITH
    Step <- Steps, NoStep <- NoRequest,
    phase <- run[Watched].status, step <- run[Watched].step,
    asked <- StepsAsked, answered <- StepsAnswered, closed <- StepsClosed

\* What the claims of a Team run assume of the run is what TeamRun delivers:
\* leases, attempts, retirements and lost membership keep the answers of a run to
\* the step it waits for, one at a time.
RunImplementsTeamControl == Control!Spec
=============================================================================
