---------------------------- MODULE AgentLogProofs ----------------------------
(***************************************************************************)
(* What the log of a session says of its claims, for every value of the    *)
(* constants: answers, ends and erasures (AgentClaims), the contract and   *)
(* the Team run (AgentClaimsContract) and the connectors' cursors          *)
(* (Connector).                                                            *)
(***************************************************************************)
EXTENDS AgentClaimsProofs, AgentClaimsContract, Connector, WellFoundedInduction

-----------------------------------------------------------------------------
(* The inductive invariant. *)

\* Where the rows of the session stand: every number and revision handed out
\* lies in the past, an output follows its request, no two requests share a number.
RowsPlaced ==
    /\ blocked <= head
    /\ \A r \in Request : request[r].seq <= head /\ request[r].rev <= revision
    /\ \A q, r \in Request : Asked(q) /\ request[q].seq = request[r].seq => q = r
    /\ \A c \in chats : c.rev <= revision
    /\ \A e \in work : /\ Asked(e.req) /\ request[e.req].seq < e.seq
                       /\ e.seq <= head /\ e.rev <= revision

\* What a claim row says of the past: nobody claimed what was not asked, a
\* claim without a status never had a holder, and one with a status has one.
ClaimRows ==
    \A r \in Request :
        /\ ~Asked(r) => claim[r].status = "none" /\ ~request[r].erased
        /\ claim[r].status = "none" => /\ claim[r].runtime = NoRuntime /\ claim[r].attempt = 0
                                       /\ ~Granted(r)
        /\ claim[r].status # "none" => claim[r].runtime \in Runtime /\ claim[r].attempt > 0
        /\ claim[r].status = "claimed" /\ r \notin Team => Granted(r)

\* The current context of a request is over for good.
Over(r) == request[r].erased \/ request[r].rev < revision

\* What the log says of the claims: a runtime was heard under no later attempt
\* than the claim's, and under that one it is the claim's holder; whatever told
\* the room of an end, the claim has ended or the context is over.
LogOfClaims ==
    \A e \in work :
        /\ e.by # NoRuntime => /\ e.attempt > 0 /\ e.attempt <= claim[e.req].attempt
                               /\ e.attempt = claim[e.req].attempt => e.by = claim[e.req].runtime
        /\ e.kind = "response" \/ e.by = NoRuntime =>
               claim[e.req].status \notin {"none", "claimed"} \/ Over(e.req)
        /\ e.erased => Over(e.req)

\* An erasure forgets the runs, so no step is added to one it has cut, and a
\* step derived from an erased answer is erased with it.
RunsCut ==
    /\ \A r \in Team : Asked(r) => /\ run[RunOf[r]].status # "none"
                                   /\ Over(r) => run[RunOf[r]].status = "forgotten"
    /\ \A r \in Team, e \in work :
          (/\ e.req \in Team /\ e.kind = "response" /\ e.erased /\ ~request[e.req].erased
           /\ RunOf[e.req] = RunOf[r] /\ Asked(r) /\ e.seq < request[r].seq)
              => request[r].erased

\* The inductive invariant of the room's log.
RoomInv ==
    /\ TypeOK /\ RowsPlaced /\ ClaimRows /\ LogOfClaims /\ RunsCut
    /\ ClaimMatchesLog /\ AttemptsInOrder /\ StopIsFinal
    /\ ErasureSettles /\ NoOutputFromErased

-----------------------------------------------------------------------------
(* The kinds of steps, by what they do to the log. *)

\* A step that writes no row and assigns no claim: it ends claims at most, and
\* a membership it takes away blocks what was asked so far.
Quiet ==
    /\ UNCHANGED sessionVars
    /\ blocked' \in {blocked, head}
    /\ \A r \in Request : /\ claim'[r].runtime = claim[r].runtime
                          /\ claim'[r].attempt = claim[r].attempt
                          /\ \/ claim'[r].status = claim[r].status
                             \/ claim[r].status = "claimed" /\ claim'[r].status = "paused"
    /\ \A t \in Permit : exec'[t] = "none" <=> exec[t] = "none"
    /\ \A g \in Run : /\ run'[g].status = "none" <=> run[g].status = "none"
                      /\ run[g].status = "forgotten" => run'[g].status = "forgotten"

\* A step that adds the row e about the claimed request r and keeps or ends its
\* claim as that row says.
Append(r, e) ==
    /\ ContextCurrent(r) /\ claim[r].status = "claimed"
    /\ e.req = r /\ e.seq = head + 1 /\ e.rev = revision /\ ~e.erased
    /\ head' = head + 1 /\ work' = work \cup {e}
    /\ UNCHANGED <<revision, chats, request, run, blocked, exec>>
    /\ \A q \in Request \ {r} : claim'[q] = claim[q]
    /\ claim'[r].runtime = claim[r].runtime /\ claim'[r].attempt = claim[r].attempt
    /\ \/ /\ e.by # NoRuntime /\ e.by = claim[r].runtime /\ e.attempt = claim[r].attempt
          /\ Granted(r)
          /\ claim'[r].status = IF e.kind = "response" THEN "completed" ELSE "claimed"
       \/ /\ e.by = NoRuntime
          /\ claim'[r].status = IF e.kind = "response" THEN "failed" ELSE "paused"

\* What a runtime publishes is a row of the request it holds.
LEMMA PublishAppends ==
    ASSUME TypeOK, NEW r \in Request, NEW rt \in Runtime, NEW n \in Attempt,
           Progress(r, rt, n) \/ Tool(r, rt, n) \/ Complete(r, rt, n)
    PROVE  \E e \in Work : Append(r, e)
<1>0. /\ head + 1 \in Nat /\ revision \in Nat /\ n \in 0 .. MaxAttempts
      /\ rt # NoRuntime /\ claim[r] \in Claim
  BY Limits, ConstantsAssumption DEF TypeOK
<1>1. PICK kind \in WorkKind :
          /\ Publish(r, kind, rt, n)
          /\ claim'[r].status = IF kind = "response" THEN "completed" ELSE "claimed"
  <2>1. ASSUME Progress(r, rt, n)
        PROVE  Publish(r, "progress", rt, n) /\ claim'[r].status = "claimed"
    BY <1>0, <2>1 DEF Progress, Publish, CurrentAttempt, TypeOK, Claim
  <2>2. ASSUME Tool(r, rt, n)
        PROVE  Publish(r, "tool", rt, n) /\ claim'[r].status = "claimed"
    BY <1>0, <2>2 DEF Tool, Publish, CurrentAttempt, TypeOK, Claim
  <2>3. ASSUME Complete(r, rt, n)
        PROVE  Publish(r, "response", rt, n) /\ claim'[r].status = "completed"
    BY <1>0, <2>3 DEF Complete, TypeOK, Claim
  <2> QED
    BY <2>1, <2>2, <2>3 DEF WorkKind
<1>2. PICK e \in Work : e = Output(r, head + 1, revision, kind, rt, n)
  BY <1>0, OutputType
<1>3. /\ e.req = r /\ e.seq = head + 1 /\ e.rev = revision /\ ~e.erased
      /\ e.by = rt /\ e.attempt = n /\ e.kind = kind
  BY <1>2 DEF Output
<1>4. /\ claim'[r].runtime = claim[r].runtime /\ claim'[r].attempt = claim[r].attempt
      /\ \A q \in Request \ {r} : claim'[q] = claim[q]
  BY <1>0 DEF Progress, Tool, Complete, TypeOK, Claim
<1>5. Granted(r)
  <2>1. exec[<<r, rt, n>>] # "none"
    BY DEF Progress, Tool, Complete, Returned
  <2> QED
    BY <2>1 DEF Granted
<1>6. /\ ContextCurrent(r) /\ claim[r].status = "claimed" /\ claim[r].runtime = rt
      /\ claim[r].attempt = n /\ head' = head + 1 /\ work' = work \cup {e}
      /\ UNCHANGED <<revision, chats, request, run, blocked, exec>>
  BY <1>1, <1>2 DEF Publish, RuntimeActs, CurrentAttempt, accessVars
<1>7. Append(r, e)
  BY <1>0, <1>1, <1>3, <1>4, <1>5, <1>6 DEF Append
<1> QED
  BY <1>7

\* So is what the server says when it abandons or pauses a claim.
LEMMA ServerAppends ==
    ASSUME TypeOK, NEW r \in Request, PauseClaim(r) \/ \E rt \in Runtime : Abandon(r, rt)
    PROVE  \E e \in Work : Append(r, e)
<1>0. /\ head + 1 \in Nat /\ revision \in Nat /\ 0 \in 0 .. MaxAttempts
      /\ claim[r] \in Claim /\ NoRuntime \in Runtime \cup {NoRuntime}
  BY Limits DEF TypeOK
<1>1. PICK kind \in {"progress", "response"} :
          /\ claim'[r].status = IF kind = "response" THEN "failed" ELSE "paused"
          /\ claim'[r].runtime = claim[r].runtime /\ claim'[r].attempt = claim[r].attempt
          /\ \A q \in Request \ {r} : claim'[q] = claim[q]
          /\ work' = work \cup {Output(r, head + 1, revision, kind, NoRuntime, 0)}
  <2>1. ASSUME PauseClaim(r)
        PROVE  /\ claim'[r] = Ended(claim[r])
               /\ \A q \in Request \ {r} : claim'[q] = claim[q]
               /\ work' = work \cup {Output(r, head + 1, revision, "progress", NoRuntime, 0)}
    BY <2>1 DEF PauseClaim, PauseMarker, TypeOK
  <2>2. ASSUME NEW rt \in Runtime, Abandon(r, rt)
        PROVE  /\ claim'[r] = [claim[r] EXCEPT !.status = "failed", !.lease = 0]
               /\ \A q \in Request \ {r} : claim'[q] = claim[q]
               /\ work' = work \cup {Output(r, head + 1, revision, "response", NoRuntime, 0)}
    BY <2>2 DEF Abandon, TypeOK
  <2>3. /\ Ended(claim[r]).status = "paused" /\ Ended(claim[r]).runtime = claim[r].runtime
        /\ Ended(claim[r]).attempt = claim[r].attempt
    BY <1>0 DEF Ended, Claim
  <2>4. CASE PauseClaim(r)
    BY <2>1, <2>3, <2>4
  <2>5. CASE \E rt \in Runtime : Abandon(r, rt)
    BY <1>0, <2>2, <2>5 DEF Claim
  <2> QED
    BY <2>4, <2>5
<1>2. PICK e \in Work : e = Output(r, head + 1, revision, kind, NoRuntime, 0)
  BY <1>0, OutputType DEF WorkKind
<1>3. /\ e.req = r /\ e.seq = head + 1 /\ e.rev = revision /\ ~e.erased
      /\ e.by = NoRuntime /\ e.kind = kind
  BY <1>2 DEF Output
<1>5. /\ ContextCurrent(r) /\ claim[r].status = "claimed" /\ head' = head + 1
      /\ UNCHANGED <<revision, chats, request, run, blocked, exec>>
  BY DEF PauseClaim, Abandon, Eligible, RuntimeActs, Lapsed, accessVars
<1>6. Append(r, e)
  BY <1>1, <1>2, <1>3, <1>5 DEF Append
<1> QED
  BY <1>6

\* Whatever else happens to the claims writes nothing.
LEMMA QuietSteps ==
    ASSUME TypeOK, UNCHANGED sessionVars, blocked' \in {blocked, head},
           \A r \in Request : /\ claim'[r].runtime = claim[r].runtime
                              /\ claim'[r].attempt = claim[r].attempt
                              /\ \/ claim'[r].status = claim[r].status
                                 \/ claim[r].status = "claimed" /\ claim'[r].status = "paused",
           UNCHANGED exec,
           \A g \in Run : 
               \/ run'[g].status = run[g].status
               \/ run[g].status \notin {"none", "forgotten"} /\ run'[g].status # "none"
    PROVE  Quiet
BY DEF Quiet

LEMMA StepKinds ==
    ASSUME TypeOK, [Next]_vars
    PROVE  \/ Quiet
           \/ \E r \in Request : StubClaim(r)
           \/ \E r \in Request, rt \in Runtime : ClaimFresh(r, rt) \/ Reclaim(r, rt)
           \/ Chat
           \/ \E r \in Request : Ask(r) \/ Dispatch(r)
           \/ \E r \in Request, e \in Work : Append(r, e)
           \/ \E c \in chats : EraseChat(c)
           \/ \E r \in Request : EraseRequest(r)
           \/ \E a \in work : EraseAnswer(a)
<1> DEFINE Calm(r) == /\ claim'[r].runtime = claim[r].runtime
                      /\ claim'[r].attempt = claim[r].attempt
                      /\ \/ claim'[r].status = claim[r].status
                         \/ claim[r].status = "claimed" /\ claim'[r].status = "paused"
           Going(g) ==
               \/ run'[g].status = run[g].status
               \/ run[g].status \notin {"none", "forgotten"} /\ run'[g].status # "none"
<1>c. \A r \in Request : claim[r] \in Claim
  BY DEF TypeOK
<1>e. ASSUME NEW r \in Request
      PROVE  /\ Ended(claim[r]).runtime = claim[r].runtime
             /\ Ended(claim[r]).attempt = claim[r].attempt
             /\ Ended(claim[r]).status = "paused"
  BY <1>c DEF Ended, Claim
<1>1. ASSUME NEW t \in Permit, Start(t) \/ Stop(t)
      PROVE  Quiet
  BY <1>1 DEF Start, Stop, Quiet, TypeOK, accessVars
<1>2. ASSUME NEW r \in Request, NEW rt \in Runtime, NEW n \in Attempt, AckStopped(r, rt, n)
      PROVE  Quiet
  <2>1. \A q \in Request : Calm(q)
    BY <1>c, <1>2 DEF AckStopped, TypeOK, Claim
  <2> QED
    BY <1>2, <2>1, QuietSteps DEF AckStopped, accessVars
<1>3. ASSUME NEW r \in Request, RetireStep(r)
      PROVE  Quiet
  <2>1. claim[r].status = "claimed" /\ claim'[r] = Ended(claim[r])
        /\ \A q \in Request \ {r} : claim'[q] = claim[q]
    BY <1>3 DEF RetireStep, TypeOK
  <2>2. \A q \in Request : Calm(q)
    BY <1>e, <2>1
  <2> QED
    BY <1>3, <2>2, QuietSteps DEF RetireStep, accessVars
<1>4. ASSUME NEW g \in Run, HaltRun(g) \/ ResumeRun(g)
      PROVE  Quiet
  <2>1. \A h \in Run : Going(h)
    BY <1>4 DEF HaltRun, ResumeRun, TypeOK, TeamRun
  <2> QED
    BY <1>4, <2>1, QuietSteps DEF HaltRun, ResumeRun, accessVars
<1>5. ASSUME NEW g \in Run, RevokeRun(g) \/ ForgetRun(g)
      PROVE  Quiet
  <2>1. \A h \in Run : Going(h)
    BY <1>5 DEF RevokeRun, ForgetRun, TypeOK, TeamRun
  <2>2. \A q \in Request : Calm(q)
    BY <1>e, <1>5 DEF RevokeRun, ForgetRun, CleanedUp
  <2> QED
    BY <1>5, <2>1, <2>2, QuietSteps DEF RevokeRun, ForgetRun, accessVars
<1>6. ASSUME (\E rt \in Runtime : Register(rt) \/ GoStale(rt))
             \/ (\E d \in Device : RevokeDevice(d)) \/ Show \/ UNCHANGED vars
      PROVE  Quiet
  BY <1>6, QuietSteps DEF Register, GoStale, RevokeDevice, Show, vars, sessionVars
<1>7. CASE Hide
  <2>1. \A h \in Run : Going(h)
    BY <1>7 DEF Hide, TypeOK, TeamRun
  <2>2. \A q \in Request : Calm(q)
    BY <1>e, <1>7 DEF Hide
  <2> QED
    BY <1>7, <2>1, <2>2, QuietSteps DEF Hide
<1>8. CASE Tick
  <2>1. \A q \in Request : Calm(q)
    BY <1>c, <1>8 DEF Tick, Claim
  <2> QED
    BY <1>8, <2>1, QuietSteps DEF Tick, accessVars
<1>9. CASE Next
  BY <1>1, <1>2, <1>3, <1>4, <1>5, <1>6, <1>7, <1>8, <1>9, PublishAppends, ServerAppends
     DEF Next, Pause, PauseStep
<1> QED
  BY <1>6, <1>9

-----------------------------------------------------------------------------
(* What an erasure does to the rows. *)

\* A row of the log after an erasure that reaches the rows `gone`.
Tomb(row) == [row EXCEPT !.erased = TRUE, !.rev = revision + 1]
After(row, gone) == IF row \in gone /\ ~row.erased THEN Tomb(row) ELSE row

\* The server's answer to a request the erasure leaves without one.
Notice(r, seq) == Output(r, seq, revision + 1, "response", NoRuntime, 0)

\* Erase, with the requests it answers and the places of those answers named.
Erasure(goneChats, gone, cut, place) ==
    /\ revision' = revision + 1 /\ head' > head
    /\ UNCHANGED <<blocked, exec>>
    /\ \A r \in Request :
          /\ request'[r].seq = request[r].seq
          /\ request'[r].erased <=> request[r].erased \/ r \in gone.requests
          /\ request'[r].rev = IF request'[r].erased /\ ~request[r].erased
                               THEN revision + 1 ELSE request[r].rev
    /\ chats' = {After(c, goneChats) : c \in chats}
    /\ cut = {r \in Request : /\ Asked(r) /\ ~request'[r].erased
                              /\ \A e \in work : e.req = r /\ e.kind = "response" =>
                                     e.erased \/ e \in gone.work}
    /\ \A r \in cut : place[r] \in Nat /\ head < place[r] /\ place[r] <= head'
    /\ work' = {After(e, gone.work) : e \in work} \cup {Notice(r, place[r]) : r \in cut}
    /\ \A r \in Request :
          /\ claim'[r].runtime = claim[r].runtime /\ claim'[r].attempt = claim[r].attempt
          /\ \/ claim'[r].status = claim[r].status
             \/ claim[r].status = "claimed" /\ claim'[r].status = "paused"
          /\ claim'[r].status = "claimed" =>
                 r \notin Team /\ r \notin cut /\ ~request'[r].erased
    /\ \A g \in Run : run'[g].status = IF run[g].status = "none" THEN "none" ELSE "forgotten"

LEMMA AfterRow ==
    ASSUME TypeOK, NEW row \in Work \cup Row, NEW gone
    PROVE  /\ After(row, gone).seq = row.seq
           /\ After(row, gone).erased <=> row.erased \/ row \in gone
           /\ After(row, gone).rev =
                 IF row \in gone /\ ~row.erased THEN revision + 1 ELSE row.rev
           /\ row \in Work => /\ After(row, gone).req = row.req /\ After(row, gone).by = row.by
                              /\ After(row, gone).kind = row.kind
                              /\ After(row, gone).attempt = row.attempt
<1>1. CASE row \in Work
  BY <1>1 DEF After, Tomb, Work
<1>2. CASE row \in Row /\ row \notin Work
  BY <1>2 DEF After, Tomb, Row
<1> QED
  BY <1>1, <1>2

LEMMA NoticeRow ==
    ASSUME NEW r, NEW seq
    PROVE  /\ Notice(r, seq).req = r /\ Notice(r, seq).seq = seq
           /\ Notice(r, seq).rev = revision + 1 /\ Notice(r, seq).kind = "response"
           /\ Notice(r, seq).by = NoRuntime /\ Notice(r, seq).attempt = 0
           /\ ~Notice(r, seq).erased
BY DEF Notice, Output

LEMMA EraseIsErasure ==
    ASSUME TypeOK, NEW goneChats, NEW gone, Erase(goneChats, gone), \A c \in goneChats : ~c.erased
    PROVE  \E cut, place : Erasure(goneChats, gone, cut, place)
<1> DEFINE erased == [r \in Request |-> request[r].erased \/ r \in gone.requests]
           next == revision + 1
           Tombstone(row) == [row EXCEPT !.erased = TRUE, !.rev = next]
           kept == {IF e \in gone.work /\ ~e.erased THEN Tombstone(e) ELSE e : e \in work}
           cut == Unsettled(erased, kept)
           at(r) == head + 1 + Cardinality({q \in cut : request[q].seq < request[r].seq})
           place == [r \in cut |-> at(r)]
<1>0. head \in Nat /\ revision \in Nat
  BY DEF TypeOK
<1>1. cut \subseteq Request
  BY DEF Unsettled
<1>2. IsFiniteSet(cut)
  BY <1>1, ConstantsAssumption, FS_Subset
<1>3. Cardinality(cut) \in Nat
  BY <1>2, FS_CardinalityType
<1>4. ASSUME NEW r \in cut
      PROVE  place[r] \in Nat /\ head < place[r] /\ place[r] <= head + 1 + Cardinality(cut)
  <2>1. {q \in cut : request[q].seq < request[r].seq} \subseteq cut
    OBVIOUS
  <2>2. /\ Cardinality({q \in cut : request[q].seq < request[r].seq}) \in Nat
        /\ Cardinality({q \in cut : request[q].seq < request[r].seq}) <= Cardinality(cut)
    BY <1>2, <2>1, FS_Subset, FS_CardinalityType
  <2>3. place[r] = at(r)
    OBVIOUS
  <2> HIDE DEF cut, place
  <2> QED
    BY <1>0, <1>3, <2>2, <2>3
<1>5. head' = head + 1 + Cardinality(cut) /\ revision' = revision + 1
  BY DEF Erase
<1>6. UNCHANGED <<blocked, exec>>
  BY DEF Erase, accessVars
<1>7. \A r \in Request :
          /\ request'[r].seq = request[r].seq
          /\ request'[r].erased <=> erased[r]
          /\ request'[r].rev = IF request'[r].erased /\ ~request[r].erased
                               THEN revision + 1 ELSE request[r].rev
  <2> SUFFICES ASSUME NEW r \in Request
               PROVE  /\ request'[r].seq = request[r].seq
                      /\ request'[r].erased <=> erased[r]
                      /\ request'[r].rev = IF request'[r].erased /\ ~request[r].erased
                                           THEN revision + 1 ELSE request[r].rev
    OBVIOUS
  <2>1. request[r] \in Row
    BY DEF TypeOK
  <2>2. request'[r] = IF erased[r] /\ ~request[r].erased THEN Tombstone(request[r]) ELSE request[r]
    BY DEF Erase
  <2>3. request[r].erased => erased[r]
    OBVIOUS
  <2> HIDE DEF erased
  <2> QED
    BY <2>1, <2>2, <2>3 DEF Row
<1>8. chats' = {After(c, goneChats) : c \in chats}
  <2>1. chats' = {IF c \in goneChats THEN Tombstone(c) ELSE c : c \in chats}
    BY DEF Erase
  <2>2. \A c \in chats : After(c, goneChats) = IF c \in goneChats THEN Tombstone(c) ELSE c
    BY DEF After, Tomb
  <2> HIDE DEF Tombstone
  <2> QED
    BY <2>1, <2>2
<1>9. kept = {After(e, gone.work) : e \in work}
  BY DEF After, Tomb
<1>10. work' = kept \cup {Notice(r, place[r]) : r \in cut}
  <2>1. work' = kept \cup {Output(r, at(r), next, "response", NoRuntime, 0) : r \in cut}
    BY DEF Erase
  <2>2. \A r \in cut : Notice(r, place[r]) = Output(r, at(r), next, "response", NoRuntime, 0)
    BY DEF Notice
  <2> HIDE DEF kept, cut, at, place, next
  <2> QED
    BY <2>1, <2>2
<1>11. cut = {r \in Request : /\ Asked(r) /\ ~request'[r].erased
                              /\ \A e \in work : e.req = r /\ e.kind = "response" =>
                                     e.erased \/ e \in gone.work}
  <2>1. ASSUME NEW r \in Request
        PROVE  (\E e \in kept : e.req = r /\ e.kind = "response" /\ ~e.erased)
               <=> (\E e \in work : e.req = r /\ e.kind = "response" /\ ~e.erased /\ e \notin gone.work)
    <3>1. \A e \in work : /\ After(e, gone.work).req = e.req /\ After(e, gone.work).kind = e.kind
                          /\ After(e, gone.work).erased <=> e.erased \/ e \in gone.work
      BY AfterRow DEF TypeOK
    <3> HIDE DEF kept
    <3> QED
      BY <1>9, <3>1
  <2>2. cut = {r \in Request : /\ Asked(r) /\ ~erased[r]
                               /\ ~\E e \in kept : e.req = r /\ e.kind = "response" /\ ~e.erased}
    BY DEF Unsettled
  <2> HIDE DEF cut, kept, erased
  <2> QED
    BY <1>7, <2>1, <2>2
<1>12. ASSUME NEW r \in Request
       PROVE  /\ claim'[r].runtime = claim[r].runtime /\ claim'[r].attempt = claim[r].attempt
              /\ \/ claim'[r].status = claim[r].status
                 \/ claim[r].status = "claimed" /\ claim'[r].status = "paused"
              /\ claim'[r].status = "claimed" =>
                     r \notin Team /\ r \notin cut /\ ~request'[r].erased
  <2>1. claim[r] \in Claim
    BY DEF TypeOK
  <2>2. claim'[r] = IF r \in Team THEN CleanedUp(r)
                    ELSE IF claim[r].status = "claimed" /\ (r \in cut \/ erased[r])
                    THEN [claim[r] EXCEPT !.status = "paused"] ELSE claim[r]
    BY DEF Erase
  <2>3. request'[r].erased <=> erased[r]
    BY <1>7
  <2> HIDE DEF cut, erased
  <2> QED
    BY <2>1, <2>2, <2>3 DEF CleanedUp, Ended, Claim
<1>13. ASSUME NEW g \in Run
       PROVE  run'[g].status = IF run[g].status = "none" THEN "none" ELSE "forgotten"
  BY DEF Erase, TypeOK, TeamRun
<1>14. head' > head
  <2> HIDE DEF cut
  <2> QED
    BY <1>0, <1>3, <1>5
<1>15. \A r \in cut : place[r] \in Nat /\ head < place[r] /\ place[r] <= head'
  BY <1>4, <1>5
<1>16. \A r \in Request : erased[r] <=> request[r].erased \/ r \in gone.requests
  OBVIOUS
<1>17. work' = {After(e, gone.work) : e \in work} \cup {Notice(r, place[r]) : r \in cut}
  BY <1>9, <1>10
<1>18. Erasure(goneChats, gone, cut, place)
  <2> HIDE DEF cut, place, erased, kept
  <2> QED
    BY <1>5, <1>6, <1>7, <1>8, <1>11, <1>12, <1>13, <1>14, <1>15, <1>16, <1>17 DEF Erasure
<1> QED
  BY <1>18, Zenon

-----------------------------------------------------------------------------
(* What an erasure reaches. *)

LEMMA LeastNat ==
    ASSUME NEW T \in SUBSET Nat, T # {}
    PROVE  \E m \in T : \A k \in T : m <= k
<1> DEFINE R == {ss \in Nat \X Nat : ss[1] < ss[2]}
<1>1. IsWellFoundedOn(R, Nat)
  BY NatLessThanWellFounded, Zenon DEF OpToRel
<1>2. PICK m \in T : \A k \in T : ~ (<<k, m>> \in R)
  <2> HIDE DEF R
  <2> QED BY <1>1, WFMin, Zenon
<1>3. \A k \in T : ~(k < m)
  BY <1>2
<1> QED
  BY <1>3

\* The rows an erasure takes, from the sequence it is cut at: none of those it
\* newly takes is older, every output of a later request is among them, a
\* request goes with its output, and a step goes with the answer it copied.
Reach(goneChats, gone, from) ==
    /\ \A c \in goneChats : c.seq >= from
    /\ \A r \in Request : r \in gone.requests => Asked(r) /\ request[r].seq >= from
    /\ \A e \in work :
          /\ e \in gone.work /\ ~e.erased => e.seq >= from
          /\ request[e.req].seq > from \/ e.req \in gone.requests => e \in gone.work
    /\ \A r \in Team, e \in work :
          (/\ e \in gone.work /\ e.req \in Team /\ e.kind = "response"
           /\ ~request[e.req].erased /\ e.req \notin gone.requests
           /\ RunOf[e.req] = RunOf[r] /\ Asked(r) /\ e.seq < request[r].seq)
              => request[r].erased \/ r \in gone.requests

LEMMA ClosureReach ==
    ASSUME TypeOK, RowsPlaced, RunsCut, NEW from \in Nat, NEW goneChats,
           NEW requests \in SUBSET Request, NEW outputs \in SUBSET work,
           \A c \in goneChats : c.seq >= from,
           \A r \in requests : Asked(r) /\ request[r].seq >= from,
           \A e \in outputs : ~e.erased => e.seq >= from
    PROVE  Reach(goneChats, Closure(requests, outputs, from), from)
<1> DEFINE first == [requests |-> requests,
                     work |-> outputs \cup {e \in work : \/ request[e.req].seq > from
                                                         \/ e.req \in requests}]
           more == Derived(first)
           gone == Closure(requests, outputs, from)
<1>0. /\ first.requests = requests
      /\ first.work = outputs \cup {e \in work : \/ request[e.req].seq > from
                                                 \/ e.req \in requests}
  OBVIOUS
<1>1. /\ gone.requests = requests \cup more
      /\ gone.work = first.work \cup {e \in work : e.req \in more}
  BY DEF Closure
<1>2. /\ \A r \in Request : request[r].seq \in Nat
      /\ \A e \in work : e.seq \in Nat /\ e.req \in Request
      /\ Team \subseteq Request
  BY ConstantsAssumption DEF TypeOK, Row, Work
<1>3. \A e \in work : request[e.req].seq < e.seq
  BY DEF RowsPlaced
<1>4. ASSUME NEW e \in first.work, ~e.erased
      PROVE  e.seq >= from
  BY <1>0, <1>2, <1>3, <1>4
<1>5. ASSUME NEW r \in more
      PROVE  r \in Request /\ Asked(r) /\ request[r].seq >= from
  <2>1. r \in Team /\ Asked(r) /\ ~request[r].erased
    BY DEF Derived
  <2>2. PICK q \in Team :
            /\ RunOf[q] = RunOf[r] /\ ~request[q].erased
            /\ \/ q \in requests /\ request[q].seq < request[r].seq
               \/ \E e \in first.work : e.req = q /\ e.kind = "response" /\ e.seq < request[r].seq
    BY <1>0 DEF Derived
  <2>3. CASE q \in requests /\ request[q].seq < request[r].seq
    BY <1>2, <2>1, <2>3
  <2>4. ASSUME NEW e \in first.work, e.req = q, e.kind = "response", e.seq < request[r].seq
        PROVE  request[r].seq >= from
    <3>1. e \in work
      BY <1>0
    <3>2. ~e.erased
      BY <2>1, <2>2, <2>4, <3>1 DEF RunsCut
    <3>3. e.seq >= from
      BY <1>4, <3>2
    <3> HIDE DEF first
    <3> QED
      BY <1>2, <2>1, <2>4, <3>1, <3>3
  <2> QED
    BY <1>2, <2>1, <2>2, <2>3, <2>4
<1>6. ASSUME NEW r \in gone.requests
      PROVE  Asked(r) /\ request[r].seq >= from
  <2> HIDE DEF more, gone
  <2> QED
    BY <1>1, <1>5, <1>6
<1>7. ASSUME NEW e \in work
      PROVE  /\ e \in gone.work /\ ~e.erased => e.seq >= from
             /\ request[e.req].seq > from \/ e.req \in gone.requests => e \in gone.work
  <2>1. ASSUME e.req \in more
        PROVE  e.seq >= from
    BY <1>2, <1>3, <1>5, <2>1
  <2> HIDE DEF more, gone, first
  <2> QED
    BY <1>0, <1>1, <1>4, <2>1
<1>8. ASSUME NEW r \in Team, NEW e \in work, e \in gone.work, e.req \in Team, e.kind = "response",
             ~request[e.req].erased, e.req \notin gone.requests,
             RunOf[e.req] = RunOf[r], Asked(r), e.seq < request[r].seq, ~request[r].erased
      PROVE  r \in gone.requests
  <2>1. e \in first.work
    BY <1>1, <1>8
  <2>2. r \in more
    BY <1>8, <2>1 DEF Derived
  <2> QED
    BY <1>1, <2>2
<1> HIDE DEF gone
<1>9. Reach(goneChats, gone, from)
  BY <1>6, <1>7, <1>8 DEF Reach
<1> QED
  BY <1>9 DEF gone

\* The first surviving output of an answered request, which cuts the erasure
\* of its answer.
LEMMA FirstOutput ==
    ASSUME TypeOK, NEW r \in Request, LiveWork(r) # {}
    PROVE  LET first == CHOOSE e \in LiveWork(r) : \A o \in LiveWork(r) : e.seq <= o.seq
           IN  first.seq \in Nat /\ \A o \in LiveWork(r) : first.seq <= o.seq
<1> DEFINE S == {e.seq : e \in LiveWork(r)}
<1>1. S \in SUBSET Nat /\ S # {}
  BY DEF TypeOK, LiveWork, Work
<1>2. PICK m \in S : \A k \in S : m <= k
  <2> HIDE DEF S
  <2> QED
    BY <1>1, LeastNat
<1>3. PICK e \in LiveWork(r) : e.seq = m
  OBVIOUS
<1>4. \A o \in LiveWork(r) : e.seq <= o.seq
  BY <1>2, <1>3
<1>5. \A o \in LiveWork(r) : o.seq \in Nat
  BY DEF TypeOK, LiveWork, Work
<1> QED
  BY <1>4, <1>5

\* Every erasure is an Erasure that reaches back to one place of the log.
LEMMA EraseSteps ==
    ASSUME TypeOK, RowsPlaced, RunsCut,
           \/ \E c \in chats : EraseChat(c)
           \/ \E r \in Request : EraseRequest(r)
           \/ \E a \in work : EraseAnswer(a)
    PROVE  \E goneChats, gone, cut, place : \E from \in Nat :
               Erasure(goneChats, gone, cut, place) /\ Reach(goneChats, gone, from)
<1>1. ASSUME NEW c \in chats, EraseChat(c)
      PROVE  \E goneChats, gone, cut, place : \E from \in Nat :
                 Erasure(goneChats, gone, cut, place) /\ Reach(goneChats, gone, from)
  <2> DEFINE gone == Closure({}, {}, c.seq)
  <2>1. c.seq \in Nat /\ ~c.erased /\ Erase({c}, gone)
    BY <1>1 DEF EraseChat, TypeOK, Row
  <2>2. Reach({c}, gone, c.seq)
    BY <2>1, ClosureReach
  <2> HIDE DEF gone
  <2>3. \E cut, place : Erasure({c}, gone, cut, place)
    BY <2>1, EraseIsErasure
  <2> QED
    BY <2>1, <2>2, <2>3, Zenon
<1>2. ASSUME NEW r \in Request, EraseRequest(r)
      PROVE  \E goneChats, gone, cut, place : \E from \in Nat :
                 Erasure(goneChats, gone, cut, place) /\ Reach(goneChats, gone, from)
  <2> DEFINE gone == Closure({r}, {}, request[r].seq)
  <2>1. Asked(r) /\ request[r].seq \in Nat /\ Erase({}, gone)
    BY <1>2 DEF EraseRequest, TypeOK, Row
  <2>2. Reach({}, gone, request[r].seq)
    BY <2>1, ClosureReach
  <2> HIDE DEF gone
  <2>3. \E cut, place : Erasure({}, gone, cut, place)
    BY <2>1, EraseIsErasure
  <2> QED
    BY <2>1, <2>2, <2>3, Zenon
<1>3. ASSUME NEW a \in work, EraseAnswer(a)
      PROVE  \E goneChats, gone, cut, place : \E from \in Nat :
                 Erasure(goneChats, gone, cut, place) /\ Reach(goneChats, gone, from)
  <2> DEFINE first == CHOOSE e \in LiveWork(a.req) : \A o \in LiveWork(a.req) : e.seq <= o.seq
             outputs == {e \in work : e.req = a.req}
             gone == Closure({}, outputs, first.seq)
  <2>1. a.req \in Request /\ a \in LiveWork(a.req)
    BY <1>3 DEF EraseAnswer, LiveWork, TypeOK, Work
  <2>2. first.seq \in Nat /\ \A o \in LiveWork(a.req) : first.seq <= o.seq
    BY <2>1, FirstOutput
  <2>3. Erase({}, gone)
    BY <1>3 DEF EraseAnswer
  <2>4. \A e \in outputs : ~e.erased => e \in LiveWork(a.req)
    BY DEF LiveWork
  <2>5. outputs \in SUBSET work
    OBVIOUS
  <2>n. \A e \in work : e.seq \in Nat
    BY DEF TypeOK, Work
  <2> HIDE DEF first, outputs
  <2>6. \A e \in outputs : ~e.erased => e.seq >= first.seq
    BY <2>2, <2>4, <2>5, <2>n
  <2>7. Reach({}, gone, first.seq)
    BY <2>2, <2>5, <2>6, ClosureReach
  <2> HIDE DEF gone
  <2>8. \E cut, place : Erasure({}, gone, cut, place)
    BY <2>3, EraseIsErasure
  <2> QED
    BY <2>2, <2>7, <2>8, Zenon
<1> QED
  BY <1>1, <1>2, <1>3, Zenon

-----------------------------------------------------------------------------
(* The invariant through the steps that write no row. *)

\* What the types say of one row or claim.
LEMMA RowTypes ==
    ASSUME TypeOK
    PROVE  /\ head \in Nat /\ revision \in Nat /\ blocked \in Nat
           /\ Team \subseteq Request /\ NoRuntime \notin Runtime
           /\ \A r \in Team : RunOf[r] \in Run
           /\ \A r \in Request : /\ request[r] \in Row /\ request[r].seq \in Nat
                                 /\ request[r].rev \in Nat /\ request[r].erased \in BOOLEAN
                                 /\ claim[r].attempt \in Nat /\ claim[r].status \in ClaimStatus
                                 /\ claim[r].runtime \in Runtime \cup {NoRuntime}
           /\ \A e \in work : /\ e \in Work /\ e.req \in Request /\ e.seq \in Nat /\ e.rev \in Nat
                              /\ e.attempt \in Nat /\ e.erased \in BOOLEAN /\ e.kind \in WorkKind
                              /\ e.by \in Runtime \cup {NoRuntime}
           /\ \A c \in chats : /\ c \in Row /\ c.seq \in Nat /\ c.rev \in Nat /\ c.erased \in BOOLEAN
<1>1. MaxAttempts \in Nat
  BY Limits
<1> QED
  BY <1>1, ConstantsAssumption DEF TypeOK, Row, Work, Claim

\* Steps that leave the rows of the session alone keep what is said of rows.
LEMMA SameRows ==
    ASSUME RoomInv, TypeOK', UNCHANGED sessionVars, blocked' \in {blocked, head}
    PROVE  /\ RowsPlaced' /\ AttemptsInOrder' /\ StopIsFinal' /\ NoOutputFromErased'
           /\ \A r \in Request : /\ Asked(r)' = Asked(r) /\ Over(r)' = Over(r)
                                 /\ LiveWork(r)' = LiveWork(r)
                                 /\ LiveAnswers(r)' = LiveAnswers(r)
                                 /\ Answered(r)' = Answered(r)
<1>1. /\ head' = head /\ revision' = revision /\ chats' = chats /\ request' = request
      /\ work' = work
  BY DEF sessionVars
<1>2. RowsPlaced'
  BY <1>1, RowTypes DEF RoomInv, RowsPlaced, Asked
<1>3. AttemptsInOrder' /\ StopIsFinal' /\ NoOutputFromErased'
  BY <1>1 DEF RoomInv, AttemptsInOrder, StopIsFinal, NoOutputFromErased
<1>4. \A r \in Request : /\ Asked(r)' = Asked(r) /\ Over(r)' = Over(r)
                         /\ LiveWork(r)' = LiveWork(r)
                         /\ LiveAnswers(r)' = LiveAnswers(r)
                         /\ Answered(r)' = Answered(r)
  BY <1>1 DEF Asked, Over, LiveWork, LiveAnswers, Answered
<1> QED
  BY <1>2, <1>3, <1>4

\* An assignment made stays made, whatever becomes of the turn.
LEMMA GrantedKept ==
    ASSUME \A t \in Permit : exec'[t] = "none" <=> exec[t] = "none", NEW r \in Request
    PROVE  Granted(r)' <=> Granted(r)
<1>1. \A rt \in Runtime, n \in Attempt : <<r, rt, n>> \in Permit
  BY DEF Permit
<1> QED
  BY <1>1 DEF Granted

LEMMA QuietRoom ==
    ASSUME RoomInv, TypeOK', Quiet
    PROVE  RoomInv'
<1>0. TypeOK /\ UNCHANGED sessionVars /\ blocked' \in {blocked, head}
  BY DEF RoomInv, Quiet
<1>1. /\ RowsPlaced' /\ AttemptsInOrder' /\ StopIsFinal' /\ NoOutputFromErased'
      /\ \A r \in Request : /\ Asked(r)' = Asked(r) /\ Over(r)' = Over(r)
                            /\ LiveWork(r)' = LiveWork(r) /\ LiveAnswers(r)' = LiveAnswers(r)
                            /\ Answered(r)' = Answered(r)
  BY <1>0, SameRows
<1>2. work' = work /\ request' = request /\ revision' = revision
  BY <1>0 DEF sessionVars
<1>3. \A r \in Request : /\ claim'[r].runtime = claim[r].runtime
                         /\ claim'[r].attempt = claim[r].attempt
                         /\ \/ claim'[r].status = claim[r].status
                            \/ claim[r].status = "claimed" /\ claim'[r].status = "paused"
                         /\ Granted(r)' <=> Granted(r)
  BY GrantedKept DEF Quiet
<1>4. ClaimRows'
  BY <1>1, <1>2, <1>3 DEF RoomInv, ClaimRows
<1>5. LogOfClaims'
  BY <1>0, <1>1, <1>2, <1>3, RowTypes DEF RoomInv, LogOfClaims
<1>6. RunsCut'
  <2>1. \A r \in Team : RunOf[r] \in Run /\ r \in Request
    BY <1>0, RowTypes
  <2> QED
    BY <1>1, <1>2, <2>1 DEF Quiet, RoomInv, RunsCut
<1>7. ClaimMatchesLog'
  BY <1>1, <1>2, <1>3 DEF RoomInv, ClaimMatchesLog
<1>8. ErasureSettles'
  BY <1>1, <1>2, <1>3 DEF RoomInv, ErasureSettles
<1> QED
  BY <1>1, <1>4, <1>5, <1>6, <1>7, <1>8 DEF RoomInv

\* The stub invented for a retired step nobody claimed: its run still exists, so
\* no erasure has passed.
LEMMA StubRoom ==
    ASSUME RoomInv, TypeOK', NEW r \in Request, StubClaim(r)
    PROVE  RoomInv'
<1>0. TypeOK /\ UNCHANGED sessionVars /\ blocked' = blocked /\ UNCHANGED <<run, exec>>
  BY DEF RoomInv, StubClaim, accessVars
<1>1. /\ RowsPlaced' /\ AttemptsInOrder' /\ StopIsFinal' /\ NoOutputFromErased'
      /\ \A q \in Request : /\ Asked(q)' = Asked(q) /\ Over(q)' = Over(q)
                            /\ LiveWork(q)' = LiveWork(q) /\ LiveAnswers(q)' = LiveAnswers(q)
                            /\ Answered(q)' = Answered(q)
  BY <1>0, SameRows
<1>2. work' = work /\ request' = request /\ revision' = revision
  BY <1>0 DEF sessionVars
<1>3. /\ r \in Team /\ Asked(r) /\ claim[r].status = "none"
      /\ run[RunOf[r]].status # "forgotten"
  BY DEF StubClaim, Retired
<1>4. /\ claim'[r].status = "claimed" /\ claim'[r].attempt = 1 /\ claim'[r].runtime \in Runtime
      /\ \A q \in Request \ {r} : claim'[q] = claim[q]
  <2>1. PICK rt \in Matches[r] : claim' = [claim EXCEPT ![r] = [NoClaim EXCEPT
                        !.status = "claimed", !.runtime = rt, !.attempt = 1]]
    BY DEF StubClaim
  <2>2. rt \in Runtime
    BY ConstantsAssumption
  <2> QED
    BY <1>0, <2>1, <2>2 DEF NoClaim, TypeOK
<1>5. ~Over(r)
  BY <1>3 DEF RoomInv, RunsCut
<1>6. \A q \in Request : Granted(q)' <=> Granted(q)
  BY <1>0, GrantedKept
<1>7. ClaimRows'
  BY <1>1, <1>2, <1>3, <1>4, <1>6 DEF RoomInv, ClaimRows
<1>8. LogOfClaims'
  <2>1. \A e \in work : e.req = r => (e.by # NoRuntime => FALSE)
    BY <1>0, <1>3, RowTypes DEF RoomInv, ClaimRows, LogOfClaims
  <2>2. \A e \in work : e.req = r => ~(e.kind = "response" \/ e.by = NoRuntime)
    BY <1>3, <1>5 DEF RoomInv, LogOfClaims
  <2>3. \A e \in work : e.req \in Request
    BY <1>0, RowTypes
  <2>4. \A e \in work : e.req # r
    BY <2>1, <2>2
  <2> QED
    BY <1>1, <1>2, <1>4, <2>3, <2>4 DEF RoomInv, LogOfClaims
<1>9. RunsCut'
  <2>1. \A q \in Team : q \in Request
    BY <1>0, RowTypes
  <2> QED
    BY <1>0, <1>1, <1>2, <2>1 DEF RoomInv, RunsCut
<1>10. ClaimMatchesLog'
  BY <1>1, <1>2, <1>3, <1>4 DEF RoomInv, ClaimMatchesLog
<1>11. ErasureSettles'
  BY <1>1, <1>2, <1>4, <1>5 DEF RoomInv, ErasureSettles, Over
<1> QED
  BY <1>1, <1>7, <1>8, <1>9, <1>10, <1>11 DEF RoomInv

\* An assignment is made in the current context, under the next attempt.
LEMMA GrantKind ==
    ASSUME TypeOK, ClaimRows, NEW r \in Request, NEW rt \in Runtime,
           ClaimFresh(r, rt) \/ Reclaim(r, rt)
    PROVE  /\ ContextCurrent(r) /\ claim[r].status \in {"none", "claimed"}
           /\ claim[r].status = "claimed" => r \notin Team
           /\ claim[r].attempt + 1 \in Attempt
           /\ Grant(r, rt, claim[r].attempt + 1)
<1>1. ContextCurrent(r) /\ claim[r].status \in {"none", "claimed"}
  BY DEF ClaimFresh, Reclaim, Eligible, RuntimeActs, Lapsed
<1>2. CASE ClaimFresh(r, rt)
  BY <1>1, <1>2, Limits DEF ClaimFresh, ClaimRows
<1>3. CASE Reclaim(r, rt)
  <2>1. claim[r].attempt \in Nat /\ claim[r].attempt < MaxAttempts /\ MaxAttempts \in Nat
    BY <1>3, RowTypes, Limits DEF Reclaim
  <2> QED
    BY <1>1, <1>3, <2>1 DEF Reclaim, Attempt, Lapsed
<1> QED
  BY <1>2, <1>3

LEMMA GrantRoom ==
    ASSUME RoomInv, TypeOK', NEW r \in Request, NEW rt \in Runtime,
           ClaimFresh(r, rt) \/ Reclaim(r, rt)
    PROVE  RoomInv'
<1> DEFINE n == claim[r].attempt + 1
<1>a. TypeOK /\ ClaimRows
  BY DEF RoomInv
<1>b. /\ ContextCurrent(r) /\ claim[r].status \in {"none", "claimed"}
      /\ claim[r].status = "claimed" => r \notin Team
      /\ n \in Attempt /\ Grant(r, rt, n)
  BY <1>a, GrantKind
<1> HIDE DEF n
<1>0. TypeOK /\ UNCHANGED sessionVars /\ blocked' = blocked /\ UNCHANGED run
  BY <1>a, <1>b DEF Grant, accessVars
<1>1. /\ RowsPlaced' /\ AttemptsInOrder' /\ StopIsFinal' /\ NoOutputFromErased'
      /\ \A q \in Request : /\ Asked(q)' = Asked(q) /\ Over(q)' = Over(q)
                            /\ LiveWork(q)' = LiveWork(q) /\ LiveAnswers(q)' = LiveAnswers(q)
                            /\ Answered(q)' = Answered(q)
  BY <1>0, SameRows
<1>2. work' = work /\ request' = request /\ revision' = revision
  BY <1>0 DEF sessionVars
<1>3. /\ claim'[r].status = "claimed" /\ claim'[r].attempt = n /\ claim'[r].runtime = rt
      /\ \A q \in Request \ {r} : claim'[q] = claim[q]
  BY <1>0, <1>b DEF Grant, TypeOK
<1>4. Asked(r) /\ ~Over(r)
  BY <1>0, <1>b, RowTypes DEF ContextCurrent, Over
<1>5. Granted(r)' /\ \A q \in Request \ {r} : Granted(q)' <=> Granted(q)
  <2>1. \A q \in Request, s \in Runtime, m \in Attempt : <<q, s, m>> \in Permit
    BY DEF Permit
  <2>2. exec' = [exec EXCEPT ![<<r, rt, n>>] = "granted"]
    BY <1>b DEF Grant
  <2>3. exec'[<<r, rt, n>>] = "granted"
    BY <1>0, <1>b, <2>1, <2>2 DEF TypeOK
  <2>4. \A q \in Request \ {r}, s \in Runtime, m \in Attempt : exec'[<<q, s, m>>] = exec[<<q, s, m>>]
    BY <1>0, <2>1, <2>2 DEF TypeOK
  <2>5. Granted(r)'
    BY <1>b, <2>3 DEF Granted
  <2>6. \A q \in Request \ {r} : Granted(q)' <=> Granted(q)
    BY <2>4 DEF Granted
  <2> QED
    BY <2>5, <2>6
<1>6. ClaimRows'
  <2>1. n > 0
    BY <1>b, Limits DEF Attempt
  <2> QED
    BY <1>1, <1>2, <1>3, <1>4, <1>5, <2>1 DEF RoomInv, ClaimRows
<1>7. LogOfClaims'
  <2>1. \A e \in work : e.req = r => /\ e.by # NoRuntime /\ e.kind # "response"
                                     /\ e.attempt < n
    BY <1>0, <1>4, <1>b, RowTypes DEF RoomInv, LogOfClaims, n
  <2>2. \A e \in work : e.req \in Request
    BY <1>0, RowTypes
  <2>3. \A e \in work : e.attempt \in Nat /\ n \in Nat
    BY <1>0, RowTypes DEF n
  <2> QED
    BY <1>1, <1>2, <1>3, <2>1, <2>2, <2>3 DEF RoomInv, LogOfClaims
<1>8. RunsCut'
  <2>1. \A q \in Team : q \in Request
    BY <1>0, RowTypes
  <2> QED
    BY <1>0, <1>1, <1>2, <2>1 DEF RoomInv, RunsCut
<1>9. ClaimMatchesLog'
  BY <1>1, <1>2, <1>3, <1>b DEF RoomInv, ClaimMatchesLog
<1>10. ErasureSettles'
  BY <1>1, <1>2, <1>3, <1>4 DEF RoomInv, ErasureSettles, Over
<1> QED
  BY <1>1, <1>6, <1>7, <1>8, <1>9, <1>10 DEF RoomInv

-----------------------------------------------------------------------------
(* The invariant through the steps that append one row. *)

LEMMA ChatRoom ==
    ASSUME RoomInv, TypeOK', Chat
    PROVE  RoomInv'
<1> DEFINE new == [seq |-> head + 1, rev |-> revision, erased |-> FALSE]
<1>0. /\ TypeOK /\ head' = head + 1 /\ chats' = chats \cup {new}
      /\ UNCHANGED <<revision, request, work, claim, run, blocked, exec>>
  BY DEF RoomInv, Chat, accessVars
<1>1. new.rev = revision /\ new.erased = FALSE
  OBVIOUS
<1> HIDE DEF new
<1>2. \A r \in Request : /\ Asked(r)' = Asked(r) /\ Over(r)' = Over(r) /\ Granted(r)' = Granted(r)
                         /\ LiveWork(r)' = LiveWork(r) /\ LiveAnswers(r)' = LiveAnswers(r)
                         /\ Answered(r)' = Answered(r)
  BY <1>0 DEF Asked, Over, Granted, LiveWork, LiveAnswers, Answered
<1>3. RowsPlaced'
  BY <1>0, <1>1, RowTypes DEF RoomInv, RowsPlaced, Asked
<1>4. ClaimRows' /\ ClaimMatchesLog' /\ ErasureSettles'
  BY <1>0, <1>2 DEF RoomInv, ClaimRows, ClaimMatchesLog, ErasureSettles
<1>5. LogOfClaims' /\ RunsCut'
  BY <1>0 DEF RoomInv, LogOfClaims, RunsCut, Over, Asked
<1>6. AttemptsInOrder' /\ StopIsFinal'
  BY <1>0 DEF RoomInv, AttemptsInOrder, StopIsFinal
<1>7. NoOutputFromErased'
  BY <1>0, <1>1 DEF RoomInv, NoOutputFromErased
<1> QED
  BY <1>3, <1>4, <1>5, <1>6, <1>7 DEF RoomInv

LEMMA PostRoom ==
    ASSUME RoomInv, TypeOK', NEW r \in Request, Ask(r) \/ Dispatch(r)
    PROVE  RoomInv'
<1> DEFINE new == [seq |-> head + 1, rev |-> revision, erased |-> FALSE]
<1>0. /\ TypeOK /\ ~Asked(r) /\ head' = head + 1 /\ request' = [request EXCEPT ![r] = new]
      /\ UNCHANGED <<revision, chats, work, claim, blocked, exec>>
  BY DEF RoomInv, Ask, Dispatch, PostRequest, accessVars
<1>1. /\ request'[r] = new /\ \A q \in Request \ {r} : request'[q] = request[q]
      /\ new.seq = head + 1 /\ new.rev = revision /\ new.erased = FALSE
  BY <1>0 DEF TypeOK
<1>2. /\ \A q \in Run : run[q].status = "forgotten" => run'[q].status = "forgotten"
      /\ \A q \in Run : run[q].status # "none" => run'[q].status # "none"
      /\ r \in Team => /\ run'[RunOf[r]].status = "running"
                       /\ run[RunOf[r]].status \in {"none", "running"}
  <2>1. CASE Ask(r)
    BY <2>1 DEF Ask
  <2>2. CASE Dispatch(r)
    <3>1. /\ run' = [run EXCEPT ![RunOf[r]] = [status |-> "running", step |-> r]]
          /\ run[RunOf[r]].status \in {"none", "running"} /\ r \in Team
      BY <2>2 DEF Dispatch
    <3>2. RunOf[r] \in Run
      BY <1>0, <3>1, RowTypes
    <3> QED
      BY <1>0, <3>1, <3>2 DEF TypeOK
  <2> QED
    BY <2>1, <2>2
<1> HIDE DEF new
<1>3. /\ Asked(r)' /\ ~Over(r)'
      /\ \A q \in Request \ {r} : Asked(q)' = Asked(q) /\ Over(q)' = Over(q)
      /\ \A q \in Request : /\ LiveWork(q)' = LiveWork(q) /\ LiveAnswers(q)' = LiveAnswers(q)
                            /\ Answered(q)' = Answered(q) /\ Granted(q)' = Granted(q)
  BY <1>0, <1>1, RowTypes DEF Asked, Over, LiveWork, LiveAnswers, Answered, Granted
<1>4. \A e \in work : e.req # r /\ e.req \in Request
  BY <1>0, RowTypes DEF RoomInv, RowsPlaced
<1>5. claim[r].status = "none"
  BY <1>0 DEF RoomInv, ClaimRows
<1>6. ~Answered(r) /\ LiveWork(r) = {} /\ LiveAnswers(r) = {}
  BY <1>4 DEF Answered, LiveAnswers, LiveWork
<1>7. RowsPlaced'
  <2>1. /\ head \in Nat /\ blocked' <= head'
        /\ \A q \in Request : request'[q].seq <= head' /\ request'[q].rev <= revision'
    BY <1>0, <1>1, RowTypes DEF RoomInv, RowsPlaced
  <2>2. \A p, q \in Request : Asked(q)' /\ request'[q].seq = request'[p].seq => p = q
    BY <1>0, <1>1, <1>3, RowTypes DEF RoomInv, RowsPlaced
  <2>3. \A e \in work : /\ Asked(e.req)' /\ request'[e.req].seq < e.seq
                        /\ e.seq <= head' /\ e.rev <= revision'
    BY <1>0, <1>1, <1>3, <1>4, RowTypes DEF RoomInv, RowsPlaced
  <2> QED
    BY <1>0, <2>1, <2>2, <2>3 DEF RoomInv, RowsPlaced
<1>8. ClaimRows'
  BY <1>0, <1>1, <1>3, <1>5 DEF RoomInv, ClaimRows
<1>9. LogOfClaims'
  BY <1>0, <1>3, <1>4 DEF RoomInv, LogOfClaims
<1>10. RunsCut'
  <2>1. \A q \in Team : RunOf[q] \in Run /\ q \in Request
    BY <1>0, RowTypes
  <2>2. \A q \in Team : Asked(q)' => /\ run'[RunOf[q]].status # "none"
                                     /\ Over(q)' => run'[RunOf[q]].status = "forgotten"
    BY <1>2, <1>3, <2>1 DEF RoomInv, RunsCut
  <2>3. ASSUME NEW q \in Team, NEW e \in work, e.req \in Team, e.kind = "response", e.erased,
               ~request'[e.req].erased, RunOf[e.req] = RunOf[q], Asked(q)',
               e.seq < request'[q].seq
        PROVE  request'[q].erased
    <3>1. CASE q = r
      <4>1. Over(e.req) /\ Asked(e.req)
        BY <2>3 DEF RoomInv, LogOfClaims, RowsPlaced
      <4>2. run[RunOf[e.req]].status = "forgotten"
        BY <2>3, <4>1 DEF RoomInv, RunsCut
      <4> QED
        BY <1>2, <2>3, <3>1, <4>2
    <3>2. CASE q # r
      <4>1. q \in Request /\ Asked(q) /\ request'[q] = request[q] /\ request'[e.req] = request[e.req]
        BY <1>1, <1>3, <1>4, <2>1, <2>3, <3>2
      <4> QED
        BY <2>3, <4>1 DEF RoomInv, RunsCut
    <3> QED
      BY <3>1, <3>2
  <2> QED
    BY <1>0, <2>2, <2>3 DEF RunsCut
<1>11. ClaimMatchesLog'
  BY <1>0, <1>1, <1>3, <1>5, <1>6 DEF RoomInv, ClaimMatchesLog
<1>12. AttemptsInOrder' /\ StopIsFinal'
  BY <1>0 DEF RoomInv, AttemptsInOrder, StopIsFinal
<1>13. ErasureSettles'
  BY <1>0, <1>1, <1>3, <1>5, <1>6, RowTypes DEF RoomInv, ErasureSettles
<1>14. NoOutputFromErased'
  BY <1>0, <1>1, <1>4 DEF RoomInv, NoOutputFromErased
<1> QED
  BY <1>7, <1>8, <1>9, <1>10, <1>11, <1>12, <1>13, <1>14 DEF RoomInv

\* Nothing ends a request twice: the row a claimed request gains is the first to
\* end it, or the next output of its current attempt.
LEMMA AppendRoom ==
    ASSUME RoomInv, TypeOK', NEW r \in Request, NEW e \in Work, Append(r, e)
    PROVE  RoomInv'
<1>0. /\ TypeOK /\ ContextCurrent(r) /\ claim[r].status = "claimed"
      /\ e.req = r /\ e.seq = head + 1 /\ e.rev = revision /\ ~e.erased
      /\ head' = head + 1 /\ work' = work \cup {e}
      /\ UNCHANGED <<revision, chats, request, run, blocked, exec>>
      /\ \A q \in Request \ {r} : claim'[q] = claim[q]
      /\ claim'[r].runtime = claim[r].runtime /\ claim'[r].attempt = claim[r].attempt
  BY DEF Append, RoomInv
<1>1. \/ /\ e.by # NoRuntime /\ e.by = claim[r].runtime /\ e.attempt = claim[r].attempt
         /\ Granted(r)
         /\ claim'[r].status = IF e.kind = "response" THEN "completed" ELSE "claimed"
      \/ /\ e.by = NoRuntime
         /\ claim'[r].status = IF e.kind = "response" THEN "failed" ELSE "paused"
  BY DEF Append
<1>2. Asked(r) /\ ~Over(r) /\ ~request[r].erased /\ request[r].rev = revision
  BY <1>0, RowTypes DEF ContextCurrent, Over
<1>3. \A q \in Request : Asked(q)' = Asked(q) /\ Over(q)' = Over(q) /\ Granted(q)' = Granted(q)
  BY <1>0 DEF Asked, Over, Granted
<1>4. /\ \A q \in Request \ {r} : /\ LiveWork(q)' = LiveWork(q) /\ LiveAnswers(q)' = LiveAnswers(q)
                                  /\ Answered(q)' = Answered(q)
      /\ LiveWork(r)' = LiveWork(r) \cup {e}
      /\ LiveAnswers(r)' = LiveAnswers(r) \cup (IF e.kind = "response" THEN {e} ELSE {})
  BY <1>0 DEF LiveWork, LiveAnswers, Answered
<1>5. LiveAnswers(r) = {}
  BY <1>0, <1>2 DEF RoomInv, ClaimMatchesLog, Answered
<1>6. \A o \in work : o.req = r => o.kind # "response" /\ o.by # NoRuntime
  BY <1>0, <1>2 DEF RoomInv, LogOfClaims
<1>7. \A o \in work : o.req \in Request /\ o.seq <= head /\ o.seq < e.seq
  BY <1>0, RowTypes DEF RoomInv, RowsPlaced
<1>8. RowsPlaced'
  <2>1. Asked(e.req) /\ request[e.req].seq < e.seq /\ e.seq <= head' /\ e.rev <= revision'
    BY <1>0, <1>2, RowTypes DEF RoomInv, RowsPlaced
  <2>2. \A o \in work : o.seq <= head' /\ o.rev <= revision
    BY <1>0, RowTypes DEF RoomInv, RowsPlaced
  <2>3. blocked' <= head' /\ \A q \in Request : request'[q].seq <= head'
    BY <1>0, RowTypes DEF RoomInv, RowsPlaced
  <2> QED
    BY <1>0, <1>2, <1>3, <2>1, <2>2, <2>3 DEF RoomInv, RowsPlaced, Asked
<1>9. ClaimRows'
  BY <1>0, <1>1, <1>2, <1>3 DEF RoomInv, ClaimRows
<1>10. LogOfClaims'
  <2>1. e.by # NoRuntime => /\ e.attempt > 0 /\ e.attempt <= claim'[r].attempt
                            /\ e.attempt = claim'[r].attempt => e.by = claim'[r].runtime
    <3>1. claim[r].attempt > 0
      BY <1>0 DEF RoomInv, ClaimRows
    <3> QED
      BY <1>0, <1>1, <3>1, RowTypes
  <2>2. e.kind = "response" \/ e.by = NoRuntime => claim'[r].status \notin {"none", "claimed"}
    BY <1>1
  <2> QED
    BY <1>0, <1>3, <1>6, <1>7, <2>1, <2>2 DEF RoomInv, LogOfClaims
<1>11. RunsCut'
  BY <1>0, <1>3 DEF RoomInv, RunsCut, Asked, Over
<1>12. ClaimMatchesLog'
  BY <1>0, <1>1, <1>2, <1>3, <1>4, <1>5 DEF RoomInv, ClaimMatchesLog, Answered
<1>13. AttemptsInOrder'
  <2>1. \A d \in work : d.req = r /\ d.by # NoRuntime /\ e.by # NoRuntime =>
             d.attempt <= e.attempt /\ (d.attempt = e.attempt => d.by = e.by)
    BY <1>0, <1>1 DEF RoomInv, LogOfClaims
  <2>2. \A d \in work : ~(e.seq < d.seq)
    BY <1>0, <1>7, RowTypes
  <2>3. ~(e.seq < e.seq)
    BY <1>0, RowTypes
  <2> QED
    BY <1>0, <2>1, <2>2, <2>3 DEF RoomInv, AttemptsInOrder
<1>14. StopIsFinal'
  <2>1. \A o \in work : o.seq <= e.seq
    BY <1>0, <1>7, RowTypes
  <2>2. e.seq <= e.seq
    BY <1>0, RowTypes
  <2> QED
    BY <1>0, <1>6, <2>1, <2>2 DEF RoomInv, StopIsFinal
<1>15. ErasureSettles'
  BY <1>0, <1>2, <1>3, <1>4, RowTypes DEF RoomInv, ErasureSettles
<1>16. NoOutputFromErased'
  <2>1. /\ \A c \in chats : c.rev <= request[r].rev
        /\ \A o \in work : o.rev <= request[r].rev
        /\ \A q \in Request : request[q].rev <= request[r].rev
    BY <1>2 DEF RoomInv, RowsPlaced
  <2>2. \A d \in work : d.req \in Request
    BY <1>7
  <2> QED
    BY <1>0, <2>1, <2>2 DEF RoomInv, NoOutputFromErased
<1> QED
  BY <1>8, <1>9, <1>10, <1>11, <1>12, <1>13, <1>14, <1>15, <1>16 DEF RoomInv

-----------------------------------------------------------------------------
(* The invariant through an erasure. *)

LEMMA ErasureRoom ==
    ASSUME RoomInv, TypeOK', NEW goneChats, NEW gone, NEW cut, NEW place, NEW from \in Nat,
           Erasure(goneChats, gone, cut, place), Reach(goneChats, gone, from)
    PROVE  RoomInv'
<1>0. TypeOK /\ head \in Nat /\ revision \in Nat
  BY RowTypes DEF RoomInv
<1>1. /\ revision' = revision + 1 /\ head' > head /\ head' \in Nat
      /\ blocked' = blocked /\ exec' = exec
  BY RowTypes DEF Erasure, TypeOK
<1>2. ASSUME NEW r \in Request
      PROVE  /\ request'[r].seq = request[r].seq /\ Asked(r)' = Asked(r)
             /\ request'[r].erased <=> request[r].erased \/ r \in gone.requests
             /\ request'[r].rev = IF request'[r].erased /\ ~request[r].erased
                                  THEN revision + 1 ELSE request[r].rev
             /\ Asked(r) \/ ~request'[r].erased
             /\ claim'[r].runtime = claim[r].runtime /\ claim'[r].attempt = claim[r].attempt
             /\ \/ claim'[r].status = claim[r].status
                \/ claim[r].status = "claimed" /\ claim'[r].status = "paused"
             /\ claim'[r].status = "claimed" => r \notin Team /\ r \notin cut /\ ~request'[r].erased
             /\ Granted(r)' = Granted(r)
             /\ Over(r)'
             /\ request[r].rev <= revision
  <2>1. /\ request'[r].seq = request[r].seq
        /\ request'[r].erased <=> request[r].erased \/ r \in gone.requests
        /\ request'[r].rev = IF request'[r].erased /\ ~request[r].erased
                             THEN revision + 1 ELSE request[r].rev
        /\ claim'[r].runtime = claim[r].runtime /\ claim'[r].attempt = claim[r].attempt
        /\ \/ claim'[r].status = claim[r].status
           \/ claim[r].status = "claimed" /\ claim'[r].status = "paused"
        /\ claim'[r].status = "claimed" => r \notin Team /\ r \notin cut /\ ~request'[r].erased
    BY DEF Erasure
  <2>2. Asked(r)' = Asked(r) /\ Granted(r)' = Granted(r)
    BY <1>1, <2>1 DEF Asked, Granted
  <2>3. Asked(r) \/ ~request'[r].erased
    BY <2>1 DEF Reach, RoomInv, ClaimRows
  <2>4. request[r].rev <= revision
    BY DEF RoomInv, RowsPlaced
  <2>5. Over(r)'
    BY <1>0, <1>1, <2>1, <2>4, RowTypes DEF Over
  <2> QED
    BY <2>1, <2>2, <2>3, <2>4, <2>5
<1>3. ASSUME NEW e \in work
      PROVE  /\ After(e, gone.work).req = e.req /\ After(e, gone.work).seq = e.seq
             /\ After(e, gone.work).by = e.by /\ After(e, gone.work).kind = e.kind
             /\ After(e, gone.work).attempt = e.attempt
             /\ After(e, gone.work).erased <=> e.erased \/ e \in gone.work
             /\ After(e, gone.work).rev =
                   IF e \in gone.work /\ ~e.erased THEN revision + 1 ELSE e.rev
             /\ e \notin gone.work => After(e, gone.work) = e
             /\ After(e, gone.work) \in work'
             /\ e.req \in Request /\ e.seq \in Nat /\ e.rev \in Nat /\ e.rev <= revision
  <2>1. e \in Work /\ e.req \in Request /\ e.seq \in Nat /\ e.rev \in Nat
    BY <1>0, RowTypes
  <2>2. After(e, gone.work) \in work'
    BY DEF Erasure
  <2>3. e \notin gone.work => After(e, gone.work) = e
    BY DEF After
  <2>4. e.rev <= revision
    BY DEF RoomInv, RowsPlaced
  <2> QED
    BY <1>0, <2>1, <2>2, <2>3, <2>4, AfterRow
<1>4. ASSUME NEW r \in cut
      PROVE  /\ r \in Request /\ Asked(r) /\ ~request'[r].erased
             /\ \A e \in work : e.req = r /\ e.kind = "response" => e.erased \/ e \in gone.work
             /\ Notice(r, place[r]) \in work'
             /\ Notice(r, place[r]).req = r /\ Notice(r, place[r]).seq = place[r]
             /\ Notice(r, place[r]).rev = revision + 1 /\ Notice(r, place[r]).kind = "response"
             /\ Notice(r, place[r]).by = NoRuntime /\ ~Notice(r, place[r]).erased
             /\ place[r] \in Nat /\ head < place[r] /\ place[r] <= head'
  <2>1. /\ r \in Request /\ Asked(r) /\ ~request'[r].erased
        /\ \A e \in work : e.req = r /\ e.kind = "response" => e.erased \/ e \in gone.work
        /\ Notice(r, place[r]) \in work'
        /\ place[r] \in Nat /\ head < place[r] /\ place[r] <= head'
    BY DEF Erasure
  <2> QED
    BY <2>1, NoticeRow
<1>5. \A x \in work' : \/ \E e \in work : x = After(e, gone.work)
                       \/ \E r \in cut : x = Notice(r, place[r])
  BY DEF Erasure
<1>6. ASSUME NEW c \in chats'
      PROVE  \E b \in chats : /\ c.seq = b.seq
                              /\ c.erased => b.erased \/ b \in goneChats
                              /\ c.rev = IF b \in goneChats /\ ~b.erased THEN revision + 1 ELSE b.rev
                              /\ b.seq \in Nat /\ b.rev \in Nat /\ b.rev <= revision
  <2>1. PICK b \in chats : c = After(b, goneChats)
    BY DEF Erasure
  <2>2. b \in Row /\ b.seq \in Nat /\ b.rev \in Nat
    BY <1>0, RowTypes
  <2>3. b.rev <= revision
    BY DEF RoomInv, RowsPlaced
  <2> QED
    BY <1>0, <2>1, <2>2, <2>3, AfterRow
<1>7. RowsPlaced'
  <2>1. blocked' <= head' /\ \A r \in Request : request'[r].seq <= head'
    BY <1>0, <1>1, <1>2, RowTypes DEF RoomInv, RowsPlaced
  <2>2. \A r \in Request : request'[r].rev <= revision'
    BY <1>0, <1>1, <1>2, RowTypes
  <2>3. \A q, r \in Request : Asked(q)' /\ request'[q].seq = request'[r].seq => q = r
    BY <1>2 DEF RoomInv, RowsPlaced
  <2>4. \A c \in chats' : c.rev <= revision'
    BY <1>0, <1>1, <1>6
  <2>5. ASSUME NEW e \in work
        PROVE  /\ Asked(e.req)' /\ request'[e.req].seq < After(e, gone.work).seq
               /\ After(e, gone.work).seq <= head' /\ After(e, gone.work).rev <= revision'
    <3>1. Asked(e.req) /\ request[e.req].seq < e.seq /\ e.seq <= head
      BY DEF RoomInv, RowsPlaced
    <3> QED
      BY <1>0, <1>1, <1>2, <1>3, <3>1
  <2>6. ASSUME NEW r \in cut
        PROVE  /\ Asked(r)' /\ request'[r].seq < Notice(r, place[r]).seq
               /\ Notice(r, place[r]).seq <= head' /\ Notice(r, place[r]).rev <= revision'
    <3>1. request[r].seq <= head /\ request[r].seq \in Nat
      BY <1>0, <1>4, RowTypes DEF RoomInv, RowsPlaced
    <3> QED
      BY <1>0, <1>1, <1>2, <1>4, <3>1
  <2>7. ASSUME NEW x \in work'
        PROVE  /\ Asked(x.req)' /\ request'[x.req].seq < x.seq
               /\ x.seq <= head' /\ x.rev <= revision'
    <3>1. CASE \E e \in work : x = After(e, gone.work)
      BY <1>3, <2>5, <3>1
    <3>2. CASE \E r \in cut : x = Notice(r, place[r])
      BY <1>4, <2>6, <3>2
    <3> QED
      BY <1>5, <3>1, <3>2
  <2> QED
    BY <2>1, <2>2, <2>3, <2>4, <2>7 DEF RowsPlaced
<1>8. ClaimRows'
  BY <1>2 DEF RoomInv, ClaimRows
<1>9. LogOfClaims'
  <2>1. ASSUME NEW x \in work'
        PROVE  /\ x.req \in Request
               /\ x.by # NoRuntime => /\ x.attempt > 0 /\ x.attempt <= claim'[x.req].attempt
                                      /\ x.attempt = claim'[x.req].attempt =>
                                             x.by = claim'[x.req].runtime
    <3>1. CASE \E e \in work : x = After(e, gone.work)
      BY <1>2, <1>3, <3>1 DEF RoomInv, LogOfClaims
    <3>2. CASE \E r \in cut : x = Notice(r, place[r])
      BY <1>4, <3>2
    <3> QED
      BY <1>5, <3>1, <3>2
  <2> QED
    BY <1>2, <2>1 DEF LogOfClaims
<1>10. RunsCut'
  <2>1. ASSUME NEW r \in Team
        PROVE  Asked(r)' => /\ run'[RunOf[r]].status # "none"
                            /\ Over(r)' => run'[RunOf[r]].status = "forgotten"
    <3>1. RunOf[r] \in Run /\ r \in Request
      BY <1>0, RowTypes
    <3> QED
      BY <1>2, <3>1 DEF Erasure, RoomInv, RunsCut
  <2>2. ASSUME NEW r \in Team, NEW x \in work', x.req \in Team, x.kind = "response", x.erased,
               ~request'[x.req].erased, RunOf[x.req] = RunOf[r], Asked(r)',
               x.seq < request'[r].seq
        PROVE  request'[r].erased
    <3>0. r \in Request
      BY <1>0, RowTypes
    <3>1. PICK e \in work : x = After(e, gone.work)
      BY <1>4, <1>5, <2>2
    <3>2. /\ e.req = x.req /\ e.kind = "response" /\ e.seq = x.seq /\ e.req \in Request
          /\ e.erased \/ e \in gone.work
      BY <1>3, <2>2, <3>1
    <3>3. /\ ~request[e.req].erased /\ e.req \notin gone.requests
          /\ Asked(r) /\ e.seq < request[r].seq
      BY <1>2, <2>2, <3>0, <3>2
    <3>4. e.erased => request[r].erased
      BY <2>2, <3>2, <3>3 DEF RoomInv, RunsCut
    <3>5. e \in gone.work => request[r].erased \/ r \in gone.requests
      BY <2>2, <3>2, <3>3 DEF Reach
    <3> QED
      BY <1>2, <3>0, <3>2, <3>4, <3>5
  <2> QED
    BY <2>1, <2>2 DEF RunsCut
<1>11. ClaimMatchesLog'
  <2>1. ASSUME NEW r \in Request, NEW a \in LiveAnswers(r)', NEW b \in LiveAnswers(r)'
        PROVE  a = b
    <3>1. /\ a \in work' /\ a.req = r /\ a.kind = "response" /\ ~a.erased
          /\ b \in work' /\ b.req = r /\ b.kind = "response" /\ ~b.erased
      BY DEF LiveAnswers, LiveWork
    <3>2. ASSUME NEW x \in work', x.req = r, x.kind = "response", ~x.erased
          PROVE  \/ x \in LiveAnswers(r) /\ x \notin gone.work /\ r \notin cut
                 \/ r \in cut /\ x = Notice(r, place[r])
      <4>1. CASE \E e \in work : x = After(e, gone.work)
        BY <1>3, <1>4, <3>2, <4>1 DEF LiveAnswers, LiveWork
      <4>2. CASE \E q \in cut : x = Notice(q, place[q])
        BY <1>4, <3>2, <4>2
      <4> QED
        BY <1>5, <4>1, <4>2
    <3> QED
      BY <3>1, <3>2 DEF RoomInv, ClaimMatchesLog
  <2>2. ASSUME NEW r \in Request
        PROVE  ~(Asked(r)' /\ ~request'[r].erased /\ request'[r].rev = revision')
    BY <1>0, <1>1, <1>2, RowTypes
  <2> QED
    BY <2>1, <2>2 DEF ClaimMatchesLog
<1>12. AttemptsInOrder'
  <2>1. ASSUME NEW x \in work', x.by # NoRuntime
        PROVE  \E e \in work : /\ x.req = e.req /\ x.by = e.by /\ x.seq = e.seq
                               /\ x.attempt = e.attempt
    BY <1>3, <1>4, <1>5, <2>1
  <2> QED
    BY <2>1 DEF RoomInv, AttemptsInOrder
<1>13. StopIsFinal'
  <2>1. ASSUME NEW m \in work', NEW x \in work', m.req = x.req,
               m.kind = "response" \/ m.by = NoRuntime, x.by # NoRuntime
        PROVE  x.seq <= m.seq
    <3>1. PICK e \in work : x = After(e, gone.work)
      BY <1>4, <1>5, <2>1
    <3>2. e.seq <= head /\ x.seq = e.seq /\ e.req = x.req /\ e.by = x.by /\ e.seq \in Nat
      BY <1>3, <3>1 DEF RoomInv, RowsPlaced
    <3>3. CASE \E o \in work : m = After(o, gone.work)
      BY <1>3, <2>1, <3>2, <3>3 DEF RoomInv, StopIsFinal
    <3>4. CASE \E r \in cut : m = Notice(r, place[r])
      BY <1>0, <1>4, <3>2, <3>4
    <3> QED
      BY <1>5, <3>3, <3>4
  <2>2. ASSUME NEW m \in work', NEW x \in work', m.req = x.req, m.by = NoRuntime,
               x.by = NoRuntime, m.kind = "progress", x.kind = "progress"
        PROVE  m = x
    <3>1. PICK o \in work : m = After(o, gone.work)
      BY <1>4, <1>5, <2>2
    <3>2. PICK e \in work : x = After(e, gone.work)
      BY <1>4, <1>5, <2>2
    <3>3. o = e
      BY <1>3, <2>2, <3>1, <3>2 DEF RoomInv, StopIsFinal
    <3> QED
      BY <3>1, <3>2, <3>3
  <2> QED
    BY <2>1, <2>2 DEF StopIsFinal
<1>14. ErasureSettles'
  <2>1. ASSUME NEW r \in Request, Asked(r)', ~request'[r].erased
        PROVE  Answered(r)' /\ claim'[r].status # "claimed"
    <3>0. Asked(r) /\ ~request[r].erased /\ request[r].rev <= revision
      BY <1>2, <2>1
    <3>1. CASE r \in cut
      BY <1>2, <1>4, <3>1 DEF Answered, LiveAnswers, LiveWork
    <3>2. CASE r \notin cut
      <4>1. PICK e \in work : e.req = r /\ e.kind = "response" /\ ~e.erased /\ e \notin gone.work
        BY <2>1, <3>0, <3>2 DEF Erasure
      <4>2. e \in work'
        BY <1>3, <4>1
      <4>3. Answered(r)' /\ Answered(r)
        BY <4>1, <4>2 DEF Answered, LiveAnswers, LiveWork
      <4>4. claim[r].status # "claimed"
        <5>1. CASE request[r].rev = revision
          BY <3>0, <4>3, <5>1 DEF RoomInv, ClaimMatchesLog
        <5>2. CASE request[r].rev < revision
          BY <3>0, <4>3, <5>2 DEF RoomInv, ErasureSettles
        <5> QED
          BY <1>0, <3>0, <5>1, <5>2, RowTypes
      <4> QED
        BY <1>2, <4>3, <4>4
    <3> QED
      BY <3>1, <3>2
  <2>2. ASSUME NEW r \in Request, request'[r].erased
        PROVE  LiveWork(r)' = {} /\ claim'[r].status # "claimed"
    <3>1. ASSUME NEW x \in LiveWork(r)'
          PROVE  FALSE
      <4>1. x \in work' /\ x.req = r /\ ~x.erased
        BY DEF LiveWork
      <4>2. PICK e \in work : x = After(e, gone.work)
        BY <1>4, <1>5, <2>2, <4>1
      <4>3. e.req = r /\ ~e.erased /\ e \notin gone.work
        BY <1>3, <4>1, <4>2
      <4>4. r \notin gone.requests
        BY <4>3 DEF Reach
      <4>5. request[r].erased
        BY <1>2, <2>2, <4>4
      <4> QED
        BY <4>3, <4>5 DEF RoomInv, ErasureSettles, LiveWork
    <3> QED
      BY <1>2, <2>2, <3>1
  <2> QED
    BY <2>1, <2>2 DEF ErasureSettles
<1>15. NoOutputFromErased'
  <2> SUFFICES ASSUME NEW x \in work', ~x.erased, x.by # NoRuntime
               PROVE  /\ \A c \in chats' : c.erased /\ c.seq < request'[x.req].seq =>
                             c.rev <= request'[x.req].rev
                      /\ \A o \in work' : o.erased /\ o.seq < request'[x.req].seq =>
                             o.rev <= request'[x.req].rev
                      /\ \A q \in Request :
                             request'[q].erased /\ request'[q].seq < request'[x.req].seq =>
                                 request'[q].rev <= request'[x.req].rev
    BY DEF NoOutputFromErased
  <2>1. PICK e \in work : x = After(e, gone.work)
    BY <1>4, <1>5
  <2>2. e \notin gone.work /\ x = e /\ ~e.erased /\ e.by # NoRuntime /\ e.req \in Request
    BY <1>3, <2>1
  <2>3. ~request[e.req].erased /\ e.req \notin gone.requests /\ ~(request[e.req].seq > from)
    BY <2>2 DEF RoomInv, ErasureSettles, LiveWork, Reach
  <2>4. /\ request'[e.req].seq = request[e.req].seq /\ request'[e.req].rev = request[e.req].rev
        /\ request[e.req].seq \in Nat
    BY <1>0, <1>2, <2>2, <2>3, RowTypes
  <2>5. \A b \in chats : b \in goneChats => b.seq >= from
    BY DEF Reach
  <2>6. \A c \in chats' : c.erased /\ c.seq < request[e.req].seq => c.rev <= request[e.req].rev
    <3> SUFFICES ASSUME NEW c \in chats', c.erased, c.seq < request[e.req].seq
                 PROVE  c.rev <= request[e.req].rev
      OBVIOUS
    <3>1. PICK b \in chats : /\ c.seq = b.seq
                             /\ c.erased => b.erased \/ b \in goneChats
                             /\ c.rev = IF b \in goneChats /\ ~b.erased THEN revision + 1 ELSE b.rev
                             /\ b.seq \in Nat
      BY <1>6
    <3>2. b \notin goneChats
      BY <2>3, <2>4, <2>5, <3>1
    <3> QED
      BY <2>2, <3>1, <3>2 DEF RoomInv, NoOutputFromErased
  <2>7. \A o \in work' : o.erased /\ o.seq < request[e.req].seq => o.rev <= request[e.req].rev
    <3> SUFFICES ASSUME NEW o \in work', o.erased, o.seq < request[e.req].seq
                 PROVE  o.rev <= request[e.req].rev
      OBVIOUS
    <3>1. PICK d \in work : o = After(d, gone.work)
      BY <1>4, <1>5
    <3>2. /\ o.seq = d.seq /\ d.seq \in Nat /\ (d.erased \/ d \in gone.work)
          /\ o.rev = IF d \in gone.work /\ ~d.erased THEN revision + 1 ELSE d.rev
      BY <1>3, <3>1
    <3>3. ~(d \in gone.work /\ ~d.erased)
      BY <2>3, <2>4, <3>2 DEF Reach
    <3> QED
      BY <2>2, <3>2, <3>3 DEF RoomInv, NoOutputFromErased
  <2>8. \A q \in Request : request'[q].erased /\ request[q].seq < request[e.req].seq =>
             request'[q].rev <= request[e.req].rev
    <3> SUFFICES ASSUME NEW q \in Request, request'[q].erased, request[q].seq < request[e.req].seq
                 PROVE  request'[q].rev <= request[e.req].rev
      OBVIOUS
    <3>1. q \notin gone.requests
      BY <1>0, <2>3, <2>4, RowTypes DEF Reach
    <3>2. request[q].erased /\ request'[q].rev = request[q].rev
      BY <1>2, <3>1
    <3> QED
      BY <2>2, <3>2 DEF RoomInv, NoOutputFromErased
  <2> QED
    BY <1>2, <2>2, <2>4, <2>6, <2>7, <2>8
<1> QED
  BY <1>7, <1>8, <1>9, <1>10, <1>11, <1>12, <1>13, <1>14, <1>15 DEF RoomInv

-----------------------------------------------------------------------------
(* The theorems about the log. *)

LEMMA RoomInit == Init => RoomInv
<1> SUFFICES ASSUME Init PROVE RoomInv
  OBVIOUS
<1>1. TypeOK
  BY TypeInit
<1>2. /\ head = 0 /\ revision = 0 /\ chats = {} /\ work = {} /\ blocked = 0
      /\ \A r \in Request : request[r] = [seq |-> 0, rev |-> 0, erased |-> FALSE]
      /\ \A r \in Request : claim[r] = NoClaim
      /\ \A t \in Permit : exec[t] = "none"
      /\ Team \subseteq Request
  BY ConstantsAssumption DEF Init, InitWith
<1>3. \A r \in Request : /\ ~Asked(r) /\ ~request[r].erased /\ request[r].seq = 0
                         /\ request[r].rev = 0 /\ LiveWork(r) = {} /\ LiveAnswers(r) = {}
                         /\ claim[r].status = "none" /\ claim[r].runtime = NoRuntime
                         /\ claim[r].attempt = 0
  BY <1>2 DEF Asked, LiveWork, LiveAnswers, NoClaim
<1>4. \A r \in Request : ~Granted(r)
  BY <1>2 DEF Granted, Permit
<1>5. RowsPlaced /\ ClaimRows
  BY <1>2, <1>3, <1>4 DEF RowsPlaced, ClaimRows
<1>6. LogOfClaims /\ AttemptsInOrder /\ StopIsFinal /\ NoOutputFromErased
  BY <1>2 DEF LogOfClaims, AttemptsInOrder, StopIsFinal, NoOutputFromErased
<1>7. RunsCut /\ ClaimMatchesLog /\ ErasureSettles
  BY <1>2, <1>3 DEF RunsCut, ClaimMatchesLog, ErasureSettles, Asked
<1> QED
  BY <1>1, <1>5, <1>6, <1>7 DEF RoomInv

LEMMA RoomStep == RoomInv /\ [Next]_vars => RoomInv'
<1> SUFFICES ASSUME RoomInv, [Next]_vars PROVE RoomInv'
  OBVIOUS
<1>0. TypeOK /\ TypeOK' /\ RowsPlaced /\ RunsCut
  BY TypeStep DEF RoomInv
<1>1. ASSUME \/ \E c \in chats : EraseChat(c)
             \/ \E r \in Request : EraseRequest(r)
             \/ \E a \in work : EraseAnswer(a)
      PROVE  RoomInv'
  <2>1. PICK goneChats, gone, cut, place : \E from \in Nat :
            Erasure(goneChats, gone, cut, place) /\ Reach(goneChats, gone, from)
    BY <1>0, <1>1, EraseSteps, Zenon
  <2> QED
    BY <1>0, <2>1, ErasureRoom
<1>2. ASSUME NEW r \in Request, NEW e \in Work, Append(r, e)
      PROVE  RoomInv'
  BY <1>0, <1>2, AppendRoom
<1>3. ASSUME NEW r \in Request, Ask(r) \/ Dispatch(r)
      PROVE  RoomInv'
  BY <1>0, <1>3, PostRoom
<1>4. ASSUME NEW r \in Request, NEW rt \in Runtime, ClaimFresh(r, rt) \/ Reclaim(r, rt)
      PROVE  RoomInv'
  BY <1>0, <1>4, GrantRoom
<1> QED
  BY <1>0, <1>1, <1>2, <1>3, <1>4, StepKinds, QuietRoom, StubRoom, ChatRoom

THEOREM RoomInvariant == Spec => []RoomInv
BY RoomInit, RoomStep, PTL DEF Spec

\* The private claim row and the log every member reads never disagree about a
\* request in its current context, and no request ever shows two answers.
THEOREM OneAnswerPerRequest == Spec => []ClaimMatchesLog
<1>1. RoomInv => ClaimMatchesLog
  BY DEF RoomInv
<1> QED
  BY <1>1, RoomInvariant, PTL

\* No erasure leaves a request waiting for ever, or anything said after an Agent
\* could read what was erased.
THEOREM ErasureIsComplete == Spec => []ErasureComplete
<1>1. RoomInv => ErasureComplete
  BY DEF RoomInv, ErasureComplete
<1> QED
  BY <1>1, RoomInvariant, PTL

-----------------------------------------------------------------------------
(* The claim protocol implements the contract. *)

HolderOf(r) == IF Granted(r) THEN claim[r].runtime ELSE NoRuntime
TokenOf(r) == IF Granted(r) THEN claim[r].attempt ELSE 0

\* A step that closes some requests and does nothing else the contract sees.
LEMMA Closes ==
    ASSUME head' \in Nat, head' >= head,
           \A r \in Request :
              /\ Phase(r)' = Phase(r) \/ (Phase(r) \in {"open", "held"} /\ Phase(r)' = "closed")
              /\ HolderOf(r)' = HolderOf(r) /\ TokenOf(r)' = TokenOf(r) /\ Heard(r)' = Heard(r)
    PROVE  Contract!Next
<1> DEFINE S == {r \in Request : Phase(r)' # Phase(r)}
<1>1. \A r \in S : [q \in Request |-> Phase(q)][r] \in {"open", "held"}
  OBVIOUS
<1>2. [r \in Request |-> Phase(r)]' =
          [r \in Request |-> IF r \in S THEN "closed" ELSE [q \in Request |-> Phase(q)][r]]
  OBVIOUS
<1>3. /\ [r \in Request |-> HolderOf(r)]' = [r \in Request |-> HolderOf(r)]
      /\ [r \in Request |-> TokenOf(r)]' = [r \in Request |-> TokenOf(r)]
      /\ [r \in Request |-> Heard(r)]' = [r \in Request |-> Heard(r)]
  OBVIOUS
<1>4. S \in SUBSET Request
  OBVIOUS
<1> HIDE DEF S
<1>5. Contract!Close(S)
  BY <1>1, <1>2, <1>3, Zenon DEF Contract!Close, HolderOf, TokenOf
<1> QED
  BY <1>4, <1>5 DEF Contract!Next

\* The rows a runtime wrote, when no row of r changed in what the contract sees.
LEMMA HeardKept ==
    ASSUME NEW r \in Request,
           \A e \in work : e.req = r /\ e.by # NoRuntime =>
               \E x \in work' : /\ x.req = r /\ x.by = e.by /\ x.seq = e.seq
                                /\ x.attempt = e.attempt,
           \A x \in work' : x.req = r /\ x.by # NoRuntime =>
               \E e \in work : /\ e.req = r /\ x.by = e.by /\ x.seq = e.seq
                               /\ x.attempt = e.attempt
    PROVE  Heard(r)' = Heard(r)
<1>1. ASSUME NEW h \in Heard(r)
      PROVE  h \in Heard(r)'
  <2>1. PICK e \in work : /\ e.req = r /\ e.by # NoRuntime
                          /\ h = [seq |-> e.seq, by |-> e.by, token |-> e.attempt]
    BY DEF Heard
  <2>2. PICK x \in work' : x.req = r /\ x.by = e.by /\ x.seq = e.seq /\ x.attempt = e.attempt
    BY <2>1
  <2> QED
    BY <2>1, <2>2 DEF Heard
<1>2. ASSUME NEW h \in Heard(r)'
      PROVE  h \in Heard(r)
  <2>1. PICK x \in work' : /\ x.req = r /\ x.by # NoRuntime
                           /\ h = [seq |-> x.seq, by |-> x.by, token |-> x.attempt]
    BY DEF Heard
  <2>2. PICK e \in work : e.req = r /\ x.by = e.by /\ x.seq = e.seq /\ x.attempt = e.attempt
    BY <2>1
  <2> QED
    BY <2>1, <2>2 DEF Heard
<1> QED
  BY <1>1, <1>2

\* Phase only depends on the context, the claim's status and the assignments.
LEMMA PhaseCases ==
    ASSUME NEW r \in Request
    PROVE  /\ Phase(r) \in {"new", "open", "held", "closed"}
           /\ Phase(r) = "new" <=> ~Asked(r)
           /\ Phase(r) \in {"open", "held"} <=>
                 Asked(r) /\ ContextCurrent(r) /\ claim[r].status \in {"none", "claimed"}
           /\ Phase(r) = "held" => Granted(r)
           /\ Phase(r) = "open" => ~Granted(r)
           /\ Phase(r)' \in {"new", "open", "held", "closed"}
           /\ Phase(r)' = "new" <=> ~Asked(r)'
           /\ Phase(r)' \in {"open", "held"} <=>
                 Asked(r)' /\ ContextCurrent(r)' /\ claim'[r].status \in {"none", "claimed"}
           /\ Phase(r)' = "held" => Granted(r)'
           /\ Phase(r)' = "open" => ~Granted(r)'
BY DEF Phase

LEMMA QuietContract ==
    ASSUME RoomInv, RoomInv', Quiet
    PROVE  Contract!Next
<1>0. TypeOK /\ UNCHANGED sessionVars /\ blocked' \in {blocked, head}
  BY DEF RoomInv, Quiet
<1>1. /\ head' = head /\ revision' = revision /\ request' = request /\ work' = work
      /\ head \in Nat
  BY <1>0, RowTypes DEF sessionVars
<1>2. ASSUME NEW r \in Request
      PROVE  /\ Phase(r)' = Phase(r) \/ (Phase(r) \in {"open", "held"} /\ Phase(r)' = "closed")
             /\ HolderOf(r)' = HolderOf(r) /\ TokenOf(r)' = TokenOf(r) /\ Heard(r)' = Heard(r)
  <2>1. /\ claim'[r].runtime = claim[r].runtime /\ claim'[r].attempt = claim[r].attempt
        /\ \/ claim'[r].status = claim[r].status
           \/ claim[r].status = "claimed" /\ claim'[r].status = "paused"
        /\ Granted(r)' <=> Granted(r)
    BY GrantedKept DEF Quiet
  <2>2. Asked(r)' = Asked(r) /\ (ContextCurrent(r)' => ContextCurrent(r))
    BY <1>0, <1>1, RowTypes DEF Asked, ContextCurrent, RoomInv, RowsPlaced
  <2>3. HolderOf(r)' = HolderOf(r) /\ TokenOf(r)' = TokenOf(r)
    BY <2>1 DEF HolderOf, TokenOf
  <2>4. Heard(r)' = Heard(r)
    BY <1>1 DEF Heard
  <2>5. Phase(r)' = Phase(r) \/ (Phase(r) \in {"open", "held"} /\ Phase(r)' = "closed")
    BY <2>1, <2>2, PhaseCases
  <2> QED
    BY <2>3, <2>4, <2>5
<1>3. head' \in Nat /\ head' >= head
  BY <1>1
<1> QED
  BY <1>2, <1>3, Closes

\* A stub assigns nothing, so nobody can be heard on it.
LEMMA StubContract ==
    ASSUME RoomInv, NEW r \in Request, StubClaim(r)
    PROVE  Contract!Next
<1>0. /\ TypeOK /\ head' = head /\ revision' = revision /\ request' = request /\ work' = work
      /\ blocked' = blocked /\ exec' = exec /\ head \in Nat
  BY RowTypes DEF RoomInv, StubClaim, accessVars, sessionVars
<1>1. /\ claim[r].status = "none" /\ claim'[r].status = "claimed"
      /\ \A q \in Request \ {r} : claim'[q] = claim[q]
  BY <1>0 DEF StubClaim, NoClaim, TypeOK
<1>2. ~Granted(r)
  BY <1>1 DEF RoomInv, ClaimRows
<1>3. ASSUME NEW q \in Request
      PROVE  /\ Phase(q)' = Phase(q)
             /\ HolderOf(q)' = HolderOf(q) /\ TokenOf(q)' = TokenOf(q) /\ Heard(q)' = Heard(q)
  <2>1. /\ Asked(q)' = Asked(q) /\ ContextCurrent(q)' = ContextCurrent(q)
        /\ Granted(q)' = Granted(q) /\ Heard(q)' = Heard(q)
    BY <1>0 DEF Asked, ContextCurrent, Granted, Heard
  <2> QED
    BY <1>1, <1>2, <2>1 DEF Phase, HolderOf, TokenOf
<1>4. head' \in Nat /\ head' >= head
  BY <1>0
<1> QED
  BY <1>3, <1>4, Closes

LEMMA GrantContract ==
    ASSUME RoomInv, NEW r \in Request, NEW rt \in Runtime, ClaimFresh(r, rt) \/ Reclaim(r, rt)
    PROVE  Contract!Next
<1> DEFINE n == claim[r].attempt + 1
<1>a. TypeOK /\ ClaimRows
  BY DEF RoomInv
<1>b. /\ ContextCurrent(r) /\ claim[r].status \in {"none", "claimed"}
      /\ claim[r].status = "claimed" => r \notin Team
      /\ n \in Attempt /\ Grant(r, rt, n)
  BY <1>a, GrantKind
<1>c. n = claim[r].attempt + 1 /\ claim[r].attempt \in Nat
  BY <1>a, RowTypes
<1> HIDE DEF n
<1>0. /\ head' = head /\ revision' = revision /\ request' = request /\ work' = work
      /\ blocked' = blocked /\ head \in Nat
      /\ claim'[r].status = "claimed" /\ claim'[r].attempt = n /\ claim'[r].runtime = rt
      /\ \A q \in Request \ {r} : claim'[q] = claim[q]
  BY <1>a, <1>b, RowTypes DEF Grant, accessVars, sessionVars, TypeOK
<1>1. Granted(r)' /\ \A q \in Request \ {r} : Granted(q)' = Granted(q)
  <2>1. \A q \in Request, s \in Runtime, m \in Attempt : <<q, s, m>> \in Permit
    BY DEF Permit
  <2>2. exec' = [exec EXCEPT ![<<r, rt, n>>] = "granted"]
    BY <1>b DEF Grant
  <2>3. exec'[<<r, rt, n>>] = "granted"
    BY <1>a, <1>b, <2>1, <2>2 DEF TypeOK
  <2>4. \A q \in Request \ {r}, s \in Runtime, m \in Attempt : exec'[<<q, s, m>>] = exec[<<q, s, m>>]
    BY <1>a, <2>1, <2>2 DEF TypeOK
  <2>5. Granted(r)'
    BY <1>b, <2>3 DEF Granted
  <2>6. \A q \in Request \ {r} : Granted(q)' = Granted(q)
    BY <2>4 DEF Granted
  <2> QED
    BY <2>5, <2>6
<1>2. ASSUME NEW q \in Request \ {r}
      PROVE  Phase(q)' = Phase(q) /\ HolderOf(q)' = HolderOf(q) /\ TokenOf(q)' = TokenOf(q)
  <2>1. Asked(q)' = Asked(q) /\ ContextCurrent(q)' = ContextCurrent(q)
    BY <1>0 DEF Asked, ContextCurrent
  <2> QED
    BY <1>0, <1>1, <2>1 DEF Phase, HolderOf, TokenOf
<1>3. \A q \in Request : Heard(q)' = Heard(q)
  BY <1>0 DEF Heard
<1>4. TokenOf(r) = claim[r].attempt
  <2>1. claim[r].status = "claimed" => Granted(r)
    BY <1>b DEF RoomInv, ClaimRows
  <2> QED
    BY <1>a, <1>b, <2>1 DEF TokenOf, ClaimRows
<1>5. /\ Phase(r) \in {"open", "held"} /\ Phase(r)' = "held"
      /\ HolderOf(r)' = rt /\ TokenOf(r)' = TokenOf(r) + 1 /\ TokenOf(r) < MaxAttempts
  <2>1. Asked(r) /\ Asked(r)' /\ ContextCurrent(r)'
    BY <1>0, <1>b DEF Asked, ContextCurrent
  <2>2. claim[r].attempt < MaxAttempts
    BY <1>b, <1>c, Limits DEF Attempt
  <2> QED
    BY <1>0, <1>1, <1>4, <1>b, <1>c, <2>1, <2>2, PhaseCases DEF Phase, HolderOf, TokenOf
<1>6. [q \in Request |-> Phase(q)]' = [[q \in Request |-> Phase(q)] EXCEPT ![r] = "held"]
  BY <1>2, <1>5
<1>7. [q \in Request |-> HolderOf(q)]' = [[q \in Request |-> HolderOf(q)] EXCEPT ![r] = rt]
  BY <1>2, <1>5
<1>8. [q \in Request |-> TokenOf(q)]' = [[q \in Request |-> TokenOf(q)] EXCEPT ![r] = @ + 1]
  BY <1>2, <1>5
<1>9. [q \in Request |-> Heard(q)]' = [q \in Request |-> Heard(q)]
  BY <1>3
<1>10. Contract!Assign(r, rt)
  BY <1>5, <1>6, <1>7, <1>8, <1>9 DEF Contract!Assign, HolderOf, TokenOf
<1>11. head' \in Nat /\ head' >= head
  BY <1>0
<1> QED
  BY <1>10, <1>11 DEF Contract!Next

LEMMA ChatContract ==
    ASSUME RoomInv, Chat
    PROVE  Contract!Next
<1>0. /\ head' = head + 1 /\ head \in Nat
      /\ UNCHANGED <<revision, request, work, claim, blocked, exec>>
  BY RowTypes DEF RoomInv, Chat, accessVars
<1>1. \A r \in Request : /\ Phase(r)' = Phase(r) /\ HolderOf(r)' = HolderOf(r)
                         /\ TokenOf(r)' = TokenOf(r) /\ Heard(r)' = Heard(r)
  BY <1>0 DEF Phase, HolderOf, TokenOf, Heard, Asked, ContextCurrent, Granted
<1>2. head' \in Nat /\ head' >= head
  BY <1>0
<1> QED
  BY <1>1, <1>2, Closes

LEMMA PostContract ==
    ASSUME RoomInv, NEW r \in Request, Ask(r) \/ Dispatch(r)
    PROVE  Contract!Next
<1>0. /\ TypeOK /\ ~Asked(r) /\ head' = head + 1 /\ head \in Nat
      /\ request' = [request EXCEPT ![r] = [seq |-> head + 1, rev |-> revision, erased |-> FALSE]]
      /\ UNCHANGED <<revision, work, claim, blocked, exec>>
  BY RowTypes DEF RoomInv, Ask, Dispatch, PostRequest, accessVars
<1>1. /\ request'[r].seq = head + 1 /\ request'[r].rev = revision /\ ~request'[r].erased
      /\ \A q \in Request \ {r} : request'[q] = request[q]
  BY <1>0 DEF TypeOK
<1>2. Asked(r)' /\ ContextCurrent(r)'
  BY <1>0, <1>1, RowTypes DEF Asked, ContextCurrent, RoomInv, RowsPlaced
<1>3. claim[r].status = "none" /\ ~Granted(r)
  BY <1>0 DEF RoomInv, ClaimRows
<1>4. \A q \in Request : /\ HolderOf(q)' = HolderOf(q) /\ TokenOf(q)' = TokenOf(q)
                         /\ Heard(q)' = Heard(q) /\ Granted(q)' = Granted(q)
  BY <1>0 DEF HolderOf, TokenOf, Heard, Granted
<1>5. Phase(r) = "new" /\ Phase(r)' = "open"
  BY <1>0, <1>2, <1>3, <1>4 DEF Phase
<1>6. \A q \in Request \ {r} : Phase(q)' = Phase(q)
  BY <1>0, <1>1, <1>4 DEF Phase, Asked, ContextCurrent
<1>7. [q \in Request |-> Phase(q)]' = [[q \in Request |-> Phase(q)] EXCEPT ![r] = "open"]
  BY <1>5, <1>6
<1>8. /\ [q \in Request |-> HolderOf(q)]' = [q \in Request |-> HolderOf(q)]
      /\ [q \in Request |-> TokenOf(q)]' = [q \in Request |-> TokenOf(q)]
      /\ [q \in Request |-> Heard(q)]' = [q \in Request |-> Heard(q)]
  BY <1>4
<1>9. Contract!Post(r)
  BY <1>5, <1>7, <1>8 DEF Contract!Post, HolderOf, TokenOf
<1>10. head' \in Nat /\ head' >= head
  BY <1>0
<1> QED
  BY <1>9, <1>10 DEF Contract!Next

\* A runtime's row is one word of the current holder; the server's closes.
LEMMA AppendContract ==
    ASSUME RoomInv, NEW r \in Request, NEW e \in Work, Append(r, e)
    PROVE  Contract!Next
<1>0. /\ TypeOK /\ ContextCurrent(r) /\ claim[r].status = "claimed"
      /\ e.req = r /\ e.seq = head + 1 /\ head' = head + 1 /\ work' = work \cup {e}
      /\ UNCHANGED <<revision, request, blocked, exec>>
      /\ \A q \in Request \ {r} : claim'[q] = claim[q]
      /\ claim'[r].runtime = claim[r].runtime /\ claim'[r].attempt = claim[r].attempt
      /\ head \in Nat
  BY RowTypes DEF Append, RoomInv
<1>1. \A q \in Request : /\ HolderOf(q)' = HolderOf(q) /\ TokenOf(q)' = TokenOf(q)
                         /\ Granted(q)' = Granted(q) /\ Asked(q)' = Asked(q)
                         /\ ContextCurrent(q)' = ContextCurrent(q)
  BY <1>0 DEF HolderOf, TokenOf, Granted, Asked, ContextCurrent
<1>2. \A q \in Request \ {r} : Phase(q)' = Phase(q)
  BY <1>0, <1>1 DEF Phase
<1>3. \A q \in Request \ {r} : Heard(q)' = Heard(q)
  BY <1>0 DEF Heard
<1>4. head' \in Nat /\ head' >= head /\ head' > head
  BY <1>0
<1>5. Asked(r)
  BY <1>0 DEF ContextCurrent
<1>6. CASE e.by = NoRuntime
  <2>1. Heard(r)' = Heard(r)
    BY <1>0, <1>6 DEF Heard
  <2>2. claim'[r].status \in {"failed", "paused"}
    BY <1>6 DEF Append
  <2>3. Phase(r) \in {"open", "held"} /\ Phase(r)' = "closed"
    BY <1>0, <1>1, <1>5, <2>2, PhaseCases
  <2> QED
    BY <1>1, <1>2, <1>3, <1>4, <2>1, <2>3, Closes
<1>7. CASE e.by # NoRuntime
  <2>1. /\ e.by = claim[r].runtime /\ e.attempt = claim[r].attempt /\ Granted(r)
        /\ claim'[r].status = IF e.kind = "response" THEN "completed" ELSE "claimed"
    BY <1>7 DEF Append
  <2>2. Phase(r) = "held"
    BY <1>0, <1>5, <2>1 DEF Phase
  <2>3. Phase(r)' = IF e.kind = "response" THEN "closed" ELSE "held"
    BY <1>0, <1>1, <1>5, <2>1 DEF Phase
  <2>4. HolderOf(r) = e.by /\ TokenOf(r) = e.attempt
    BY <2>1 DEF HolderOf, TokenOf
  <2>5. Heard(r)' = Heard(r) \cup {[seq |-> head', by |-> HolderOf(r), token |-> TokenOf(r)]}
    <3>1. Heard(r)' = Heard(r) \cup {[seq |-> e.seq, by |-> e.by, token |-> e.attempt]}
      BY <1>0, <1>7 DEF Heard
    <3> QED
      BY <1>0, <2>4, <3>1
  <2>6. [q \in Request |-> Heard(q)]' = [[q \in Request |-> Heard(q)] EXCEPT ![r] =
            @ \cup {[seq |-> head', by |-> [q \in Request |-> HolderOf(q)][r],
                     token |-> [q \in Request |-> TokenOf(q)][r]]}]
    BY <1>3, <2>5
  <2>7. [q \in Request |-> Phase(q)]' =
            IF e.kind = "response" THEN [[q \in Request |-> Phase(q)] EXCEPT ![r] = "closed"]
                                   ELSE [q \in Request |-> Phase(q)]
    BY <1>2, <2>2, <2>3
  <2>8. /\ [q \in Request |-> HolderOf(q)]' = [q \in Request |-> HolderOf(q)]
        /\ [q \in Request |-> TokenOf(q)]' = [q \in Request |-> TokenOf(q)]
    BY <1>1
  <2>9. Contract!Hear(r, e.kind = "response")
    BY <1>4, <2>2, <2>6, <2>7, <2>8 DEF Contract!Hear, HolderOf, TokenOf
  <2>10. (e.kind = "response") \in BOOLEAN
    OBVIOUS
  <2> QED
    BY <1>4, <2>9, <2>10 DEF Contract!Next
<1> QED
  BY <1>6, <1>7

\* An erasure closes every request asked so far.
LEMMA ErasureContract ==
    ASSUME RoomInv, RoomInv', NEW goneChats, NEW gone, NEW cut, NEW place,
           Erasure(goneChats, gone, cut, place)
    PROVE  Contract!Next
<1>0. /\ TypeOK /\ head \in Nat /\ head' \in Nat /\ head' >= head /\ exec' = exec
      /\ revision' = revision + 1
  BY RowTypes DEF RoomInv, TypeOK, Erasure
<1>1. ASSUME NEW r \in Request
      PROVE  /\ Phase(r)' = Phase(r) \/ (Phase(r) \in {"open", "held"} /\ Phase(r)' = "closed")
             /\ HolderOf(r)' = HolderOf(r) /\ TokenOf(r)' = TokenOf(r) /\ Heard(r)' = Heard(r)
  <2>1. /\ Asked(r)' = Asked(r) /\ Granted(r)' = Granted(r)
        /\ claim'[r].runtime = claim[r].runtime /\ claim'[r].attempt = claim[r].attempt
    BY <1>0 DEF Erasure, Asked, Granted
  <2>2. HolderOf(r)' = HolderOf(r) /\ TokenOf(r)' = TokenOf(r)
    BY <2>1 DEF HolderOf, TokenOf
  <2>3. ~ContextCurrent(r)'
    <3>1. request[r].rev <= revision /\ request[r].rev \in Nat /\ revision \in Nat
      BY <1>0, RowTypes DEF RoomInv, RowsPlaced
    <3>2. request'[r].erased \/ request'[r].rev = request[r].rev
      BY DEF Erasure
    <3> QED
      BY <1>0, <3>1, <3>2 DEF ContextCurrent
  <2>4. Phase(r)' = Phase(r) \/ (Phase(r) \in {"open", "held"} /\ Phase(r)' = "closed")
    BY <2>1, <2>3, PhaseCases
  <2>5. \A e \in work : /\ After(e, gone.work) \in work'
                        /\ After(e, gone.work).req = e.req /\ After(e, gone.work).by = e.by
                        /\ After(e, gone.work).seq = e.seq
                        /\ After(e, gone.work).attempt = e.attempt
    BY <1>0, AfterRow, RowTypes DEF Erasure
  <2>6. \A x \in work' : x.by # NoRuntime => \E e \in work : x = After(e, gone.work)
    BY NoticeRow DEF Erasure
  <2>7. Heard(r)' = Heard(r)
    BY <2>5, <2>6, HeardKept
  <2> QED
    BY <2>2, <2>4, <2>7
<1> QED
  BY <1>0, <1>1, Closes

LEMMA ContractStep == RoomInv /\ RoomInv' /\ [Next]_vars => Contract!Next
<1> SUFFICES ASSUME RoomInv, RoomInv', [Next]_vars PROVE Contract!Next
  OBVIOUS
<1>0. TypeOK /\ RowsPlaced /\ RunsCut
  BY DEF RoomInv
<1>1. ASSUME \/ \E c \in chats : EraseChat(c)
             \/ \E r \in Request : EraseRequest(r)
             \/ \E a \in work : EraseAnswer(a)
      PROVE  Contract!Next
  <2>1. PICK goneChats, gone, cut, place : \E from \in Nat :
            Erasure(goneChats, gone, cut, place) /\ Reach(goneChats, gone, from)
    BY <1>0, <1>1, EraseSteps, Zenon
  <2> QED
    BY <2>1, ErasureContract
<1>2. ASSUME NEW r \in Request, NEW e \in Work, Append(r, e)
      PROVE  Contract!Next
  BY <1>2, AppendContract
<1>3. ASSUME NEW r \in Request, Ask(r) \/ Dispatch(r)
      PROVE  Contract!Next
  BY <1>3, PostContract
<1>4. ASSUME NEW r \in Request, NEW rt \in Runtime, ClaimFresh(r, rt) \/ Reclaim(r, rt)
      PROVE  Contract!Next
  BY <1>4, GrantContract
<1>5. ASSUME NEW r \in Request, StubClaim(r)
      PROVE  Contract!Next
  BY <1>5, StubContract
<1>6. CASE Quiet
  BY <1>6, QuietContract
<1>7. CASE Chat
  BY <1>7, ChatContract
<1> QED
  BY <1>0, <1>1, <1>2, <1>3, <1>4, <1>5, <1>6, <1>7, StepKinds, Zenon

LEMMA ContractInit == Init => Contract!Init
<1> SUFFICES ASSUME Init PROVE Contract!Init
  OBVIOUS
<1>1. RoomInv /\ head = 0 /\ work = {} /\ \A r \in Request : ~Asked(r)
  BY RoomInit DEF Init, InitWith, Asked
<1>2. \A r \in Request : ~Granted(r) /\ Phase(r) = "new" /\ Heard(r) = {}
  BY <1>1 DEF RoomInv, ClaimRows, Phase, Heard
<1> QED
  BY <1>1, <1>2 DEF Contract!Init

\* Every step of the claim protocol is a step of the contract: leases, lapses,
\* pauses, erasures, lost memberships and Team runs leave nothing visible but
\* one holder at a time under a growing token, heard only until the end.
THEOREM ClaimsImplementContract == Spec => ImplementsContract
<1>1. RoomInv /\ RoomInv' /\ [Next]_vars => [Contract!Next]_(Contract!vars)
  BY ContractStep
<1>2. Init => Contract!Init
  BY ContractInit
<1> QED
  BY <1>1, <1>2, RoomInvariant, PTL DEF Spec, ImplementsContract, Contract!Spec
-----------------------------------------------------------------------------
(* What the claims show of a Team run: AgentClaims implements TeamControl. *)

\* A run waits for one of its own requests.
StepIsOwn == run[Watched].step # NoRequest => run[Watched].step \in StepsAsked

\* Whatever has a response was asked.
LEMMA ClosedAsked == RoomInv => StepsClosed \subseteq StepsAsked
BY DEF RoomInv, RowsPlaced, StepsClosed, StepsAsked

\* What leaves the run and its answers alone breaks executions at most.
LEMMA RunBreaks ==
    ASSUME StepIsOwn, StepsClosed' \subseteq StepsAsked', StepsClosed \subseteq StepsClosed',
           StepsAsked' = StepsAsked, StepsAnswered' = StepsAnswered,
           run'[Watched] = run[Watched]
    PROVE  Control!Next /\ StepIsOwn'
BY DEF Control!Next, Control!Fail, Control!Breaks, StepIsOwn

LEMMA SameSteps ==
    ASSUME UNCHANGED <<request, work>>
    PROVE  UNCHANGED <<StepsAsked, StepsAnswered, StepsClosed>>
BY DEF Asked, StepsAsked, StepsAnswered, StepsClosed

\* A control, an ending, a resume or a deletion of a run.
LEMMA RunSteers ==
    ASSUME Watched \in Run, TypeOK, StepIsOwn, StepsClosed \subseteq StepsAsked,
           Hide \/ \E g \in Run : HaltRun(g) \/ RevokeRun(g) \/ ResumeRun(g) \/ ForgetRun(g)
    PROVE  Control!Next /\ StepIsOwn'
<1>1. Watched \in Run /\ run[Watched] \in TeamRun
  BY DEF TypeOK
<1>2. UNCHANGED <<request, work>>
  BY DEF Hide, HaltRun, RevokeRun, ResumeRun, ForgetRun, sessionVars
<1>3. UNCHANGED <<StepsAsked, StepsAnswered, StepsClosed>>
  BY <1>2, SameSteps
<1>4. Control!Breaks
  BY <1>3 DEF Control!Breaks
<1>5. ASSUME run'[Watched] = run[Watched]
      PROVE  Control!Next /\ StepIsOwn'
  BY <1>3, <1>5, RunBreaks
<1>6. ASSUME run[Watched].status \in {"running", "paused"},
             run'[Watched].status \in {"paused", "ended"},
             run'[Watched].step = run[Watched].step
      PROVE  Control!Next /\ StepIsOwn'
  BY <1>3, <1>4, <1>6 DEF Control!Next, Control!Halt, StepIsOwn
<1>7. ASSUME NEW g \in Run, HaltRun(g)
      PROVE  Control!Next /\ StepIsOwn'
  <2>1. PICK status \in {"paused", "ended"} : run' = [run EXCEPT ![g].status = status]
    BY <1>7 DEF HaltRun
  <2>2. CASE g = Watched
    <3>1. run'[Watched].status = status /\ run'[Watched].step = run[Watched].step
      BY <1>1, <2>1, <2>2 DEF TypeOK, TeamRun
    <3> QED
      BY <1>6, <1>7, <2>2, <3>1 DEF HaltRun
  <2>3. CASE g # Watched
    BY <1>1, <1>5, <2>1, <2>3 DEF TypeOK
  <2> QED
    BY <2>2, <2>3
<1>8. ASSUME NEW g \in Run, RevokeRun(g)
      PROVE  Control!Next /\ StepIsOwn'
  <2>1. run' = [run EXCEPT ![g].status = "ended"] /\ run[g].status \in {"running", "paused"}
    BY <1>8 DEF RevokeRun
  <2>2. CASE g = Watched
    <3>1. run'[Watched].status = "ended" /\ run'[Watched].step = run[Watched].step
      BY <1>1, <2>1, <2>2 DEF TypeOK, TeamRun
    <3> QED
      BY <1>6, <2>1, <2>2, <3>1
  <2>3. CASE g # Watched
    BY <1>1, <1>5, <2>1, <2>3 DEF TypeOK
  <2> QED
    BY <2>2, <2>3
<1>9. ASSUME NEW g \in Run, ForgetRun(g)
      PROVE  Control!Next /\ StepIsOwn'
  <2>1. run' = [run EXCEPT ![g].status = "forgotten"] /\ run[g].status = "ended"
    BY <1>9 DEF ForgetRun
  <2>2. CASE g = Watched
    <3>1. run'[Watched].status = "forgotten" /\ run'[Watched].step = run[Watched].step
      BY <1>1, <2>1, <2>2 DEF TypeOK, TeamRun
    <3> QED
      BY <1>3, <1>4, <2>1, <2>2, <3>1 DEF Control!Next, Control!Forget, StepIsOwn
  <2>3. CASE g # Watched
    BY <1>1, <1>5, <2>1, <2>3 DEF TypeOK
  <2> QED
    BY <2>2, <2>3
<1>10. ASSUME NEW g \in Run, ResumeRun(g)
       PROVE  Control!Next /\ StepIsOwn'
  <2>1. PICK step \in {run[g].step, NoRequest} :
            /\ step # NoRequest => Answered(step)
            /\ run' = [run EXCEPT ![g] = [status |-> "running", step |-> step]]
    BY <1>10 DEF ResumeRun
  <2>2. CASE g = Watched
    <3>1. run'[Watched].status = "running" /\ run'[Watched].step = step
      BY <1>1, <2>1, <2>2 DEF TypeOK
    <3>2. step # NoRequest => step = run[Watched].step /\ step \in StepsAsked
      BY <2>1, <2>2 DEF StepIsOwn
    <3>3. step # NoRequest => step \in StepsClosed
      BY <2>1, <3>2 DEF Answered, LiveAnswers, LiveWork, StepsClosed, StepsAsked
    <3>4. run[Watched].status = "paused"
      BY <1>10, <2>2 DEF ResumeRun
    <3>5. Control!Resume
      BY <1>3, <1>4, <3>1, <3>2, <3>3, <3>4 DEF Control!Resume
    <3> QED
      BY <1>3, <3>1, <3>2, <3>5 DEF Control!Next, StepIsOwn
  <2>3. CASE g # Watched
    BY <1>1, <1>5, <2>1, <2>3 DEF TypeOK
  <2> QED
    BY <2>2, <2>3
<1>11. ASSUME Hide
       PROVE  Control!Next /\ StepIsOwn'
  <2>1. run'[Watched] = IF run[Watched].status \in {"running", "paused"}
                        THEN [run[Watched] EXCEPT !.status = "ended"] ELSE run[Watched]
    BY <1>1, <1>11 DEF Hide
  <2>2. CASE run[Watched].status \in {"running", "paused"}
    <3>1. run'[Watched].status = "ended" /\ run'[Watched].step = run[Watched].step
      BY <1>1, <2>1, <2>2 DEF TeamRun
    <3> QED
      BY <1>6, <2>2, <3>1
  <2>3. CASE run[Watched].status \notin {"running", "paused"}
    BY <1>5, <2>1, <2>3
  <2> QED
    BY <2>2, <2>3
<1> QED
  BY <1>7, <1>8, <1>9, <1>10, <1>11

\* A request that reaches the room: the next step of the run, or nothing of it.
LEMMA RunAsks ==
    ASSUME Watched \in Run, TypeOK, StepIsOwn, StepsClosed \subseteq StepsAsked,
           StepsClosed' \subseteq StepsAsked',
           NEW r \in Request, Ask(r) \/ Dispatch(r)
    PROVE  Control!Next /\ StepIsOwn'
<1>1. Watched \in Run /\ run[Watched] \in TeamRun
  BY DEF TypeOK
<1>2. /\ ~Asked(r) /\ work' = work /\ head + 1 > 0
      /\ request' = [request EXCEPT ![r] = [seq |-> head + 1, rev |-> revision, erased |-> FALSE]]
  BY DEF Ask, Dispatch, PostRequest, TypeOK
<1>3. /\ Asked(r)'
      /\ \A q \in Request \ {r} : Asked(q)' <=> Asked(q)
  BY <1>2 DEF Asked, TypeOK
<1>4. Steps \subseteq Request /\ Steps \subseteq Team
  BY ConstantsAssumption DEF Steps
<1>5. StepsAnswered' = StepsAnswered /\ StepsClosed' = StepsClosed
  BY <1>2 DEF StepsAnswered, StepsClosed
<1>6. CASE r \notin Steps
  <2>1. StepsAsked' = StepsAsked
    BY <1>3, <1>4, <1>6 DEF StepsAsked
  <2>2. run'[Watched] = run[Watched]
    <3>1. CASE Ask(r)
      BY <3>1 DEF Ask
    <3>2. CASE Dispatch(r)
      <4>1. RunOf[r] # Watched /\ RunOf[r] \in Run
        BY <1>6, <3>2, ConstantsAssumption DEF Dispatch, Steps
      <4>2. run' = [run EXCEPT ![RunOf[r]] = [status |-> "running", step |-> r]]
        BY <3>2 DEF Dispatch
      <4> QED
        BY <1>1, <4>1, <4>2 DEF TypeOK
    <3> QED
      BY <3>1, <3>2
  <2> QED
    BY <1>5, <2>1, <2>2, RunBreaks
<1>7. CASE r \in Steps
  <2>1. Dispatch(r) /\ RunOf[r] = Watched
    BY <1>4, <1>7 DEF Ask, Steps
  <2>2. /\ run[Watched].status \in {"none", "running"}
        /\ run[Watched].step # NoRequest => AnsweredByRuntime(run[Watched].step)
        /\ run' = [run EXCEPT ![Watched] = [status |-> "running", step |-> r]]
    BY <2>1 DEF Dispatch
  <2>3. run'[Watched].status = "running" /\ run'[Watched].step = r
    BY <1>1, <2>2 DEF TypeOK
  <2>4. run[Watched].step # NoRequest => run[Watched].step \in StepsAnswered
    BY <2>2 DEF AnsweredByRuntime, LiveAnswers, LiveWork, StepIsOwn, StepsAsked, StepsAnswered
  <2>5. r \notin StepsAsked /\ StepsAsked' = StepsAsked \cup {r}
    BY <1>2, <1>3, <1>4, <1>7 DEF StepsAsked
  <2>6. Control!Ask(r)
    BY <1>5, <2>2, <2>3, <2>4, <2>5 DEF Control!Ask
  <2> QED
    BY <1>7, <2>3, <2>5, <2>6 DEF Control!Next, StepIsOwn
<1> QED
  BY <1>6, <1>7

\* A row about a claimed request: the answer of the step the run waits for, or
\* nothing that the run would use.
LEMMA RunHears ==
    ASSUME RoomInv, RoomInv', StepIsOwn, NEW r \in Request, NEW e \in Work, Append(r, e),
           e.kind = "response" /\ e.by # NoRuntime => MayExecute(r)
    PROVE  Control!Next /\ StepIsOwn'
<1>1. /\ ContextCurrent(r) /\ claim[r].status = "claimed" /\ e.req = r
      /\ work' = work \cup {e} /\ request' = request /\ run' = run
  BY DEF Append
<1>2. StepsAsked' = StepsAsked
  BY <1>1 DEF StepsAsked, Asked
<1>3. StepsClosed' = StepsClosed \cup (IF r \in Steps /\ e.kind = "response" THEN {r} ELSE {})
  BY <1>1 DEF StepsClosed
<1>4. StepsAnswered' = StepsAnswered \cup
          (IF r \in Steps /\ e.kind = "response" /\ e.by # NoRuntime THEN {r} ELSE {})
  BY <1>1 DEF StepsAnswered
<1>5. StepsClosed' \subseteq StepsAsked'
  BY DEF RoomInv, RowsPlaced, StepsClosed, StepsAsked
<1>6. CASE ~(r \in Steps /\ e.kind = "response" /\ e.by # NoRuntime)
  BY <1>1, <1>2, <1>3, <1>4, <1>5, <1>6, RunBreaks
<1>7. CASE r \in Steps /\ e.kind = "response" /\ e.by # NoRuntime
  <2>1. run[Watched] = [status |-> "running", step |-> r]
    BY <1>7 DEF MayExecute, Steps
  <2>2. ~Over(r)
    BY <1>1, RowTypes DEF RoomInv, ContextCurrent, Over
  <2>3. r \notin StepsClosed
    BY <1>1, <2>2 DEF RoomInv, LogOfClaims, StepsClosed
  <2>4. Control!Answer(r)
    BY <1>1, <1>2, <1>3, <1>4, <1>7, <2>1, <2>3 DEF Control!Answer
  <2> QED
    BY <1>1, <1>2, <1>7, <2>4 DEF Control!Next, StepIsOwn
<1> QED
  BY <1>6, <1>7

\* An erasure forgets the run, if it ever started, and answers for the server.
LEMMA RunForgets ==
    ASSUME Watched \in Run, RoomInv, RoomInv', StepIsOwn,
           \/ \E c \in chats : EraseChat(c)
           \/ \E r \in Request : EraseRequest(r)
           \/ \E a \in work : EraseAnswer(a)
    PROVE  Control!Next /\ StepIsOwn'
<1>1. Watched \in Run /\ run[Watched] \in TeamRun /\ TypeOK /\ RowsPlaced /\ RunsCut
  BY DEF RoomInv, TypeOK
<1>2. run' = [g \in Run |-> IF run[g].status = "none" THEN run[g]
                            ELSE [run[g] EXCEPT !.status = "forgotten"]]
  BY Zenon DEF EraseChat, EraseRequest, EraseAnswer, Erase
<1>3. PICK goneChats, gone, cut, place : Erasure(goneChats, gone, cut, place)
  BY <1>1, EraseSteps, Zenon
<1>4. /\ \A q \in Request : request'[q].seq = request[q].seq
      /\ work' = {After(e, gone.work) : e \in work} \cup {Notice(q, place[q]) : q \in cut}
  BY <1>3 DEF Erasure
<1>5. StepsAsked' = StepsAsked
  BY <1>4, ConstantsAssumption DEF StepsAsked, Steps, Asked
<1>6. StepsClosed' \subseteq StepsAsked' /\ StepsClosed \subseteq StepsAsked
  BY ClosedAsked DEF RoomInv, RowsPlaced, StepsClosed, StepsAsked
<1>7. \A e \in work : /\ After(e, gone.work) \in work'
                      /\ After(e, gone.work).req = e.req /\ After(e, gone.work).by = e.by
                      /\ After(e, gone.work).kind = e.kind
  BY <1>1, <1>4, AfterRow DEF TypeOK
<1>8. StepsClosed \subseteq StepsClosed' /\ StepsAnswered \subseteq StepsAnswered'
  BY <1>7 DEF StepsClosed, StepsAnswered
<1>9. StepsAnswered' \subseteq StepsAnswered
  <2> SUFFICES ASSUME NEW q \in Steps, NEW n \in work', n.req = q, n.kind = "response",
                      n.by # NoRuntime
               PROVE  q \in StepsAnswered
    BY DEF StepsAnswered
  <2>1. PICK e \in work : n = After(e, gone.work)
    BY <1>4, NoticeRow
  <2> QED
    BY <1>7, <2>1 DEF StepsAnswered
<1>10. CASE run[Watched].status = "none"
  BY <1>1, <1>2, <1>5, <1>6, <1>8, <1>9, <1>10, RunBreaks
<1>11. CASE run[Watched].status # "none"
  <2>1. run'[Watched].status = "forgotten" /\ run'[Watched].step = run[Watched].step
    BY <1>1, <1>2, <1>11 DEF TeamRun
  <2>2. Control!Breaks
    BY <1>5, <1>6, <1>8 DEF Control!Breaks
  <2> QED
    BY <1>5, <1>8, <1>9, <1>11, <2>1, <2>2 DEF Control!Next, Control!Forget, StepIsOwn
<1> QED
  BY <1>10, <1>11

LEMMA ControlStep ==
    ASSUME Watched \in Run, RoomInv, RoomInv', StepIsOwn, [Next]_vars
    PROVE  Control!Next /\ StepIsOwn'
<1>1. TypeOK /\ StepsClosed \subseteq StepsAsked
  BY ClosedAsked DEF RoomInv
<1>2. StepsClosed' \subseteq StepsAsked'
  BY DEF RoomInv, RowsPlaced, StepsClosed, StepsAsked
<1>3. ASSUME UNCHANGED <<request, work, run>>
      PROVE  Control!Next /\ StepIsOwn'
  BY <1>1, <1>2, <1>3, SameSteps, RunBreaks
<1>4. ASSUME Chat \/ Show \/ Tick \/ UNCHANGED vars
      PROVE  Control!Next /\ StepIsOwn'
  BY <1>3, <1>4 DEF Chat, Show, Tick, vars, sessionVars
<1>5. ASSUME NEW r \in Request, Ask(r) \/ Dispatch(r)
      PROVE  Control!Next /\ StepIsOwn'
  BY <1>1, <1>2, <1>5, RunAsks
<1>6. ASSUME NEW r \in Request, StubClaim(r) \/ RetireStep(r)
      PROVE  Control!Next /\ StepIsOwn'
  <2>1. UNCHANGED sessionVars /\ UNCHANGED run
    BY <1>6, Zenon DEF StubClaim, RetireStep
  <2> QED
    BY <1>3, <2>1 DEF sessionVars
<1>7. ASSUME NEW r \in Request, NEW rt \in Runtime, ClaimFresh(r, rt) \/ Reclaim(r, rt)
      PROVE  Control!Next /\ StepIsOwn'
  BY <1>3, <1>7 DEF ClaimFresh, Reclaim, Grant, sessionVars
<1>8. ASSUME NEW t \in Permit, Start(t) \/ Stop(t)
      PROVE  Control!Next /\ StepIsOwn'
  BY <1>3, <1>8 DEF Start, Stop, sessionVars
<1>9. ASSUME NEW r \in Request, NEW rt \in Runtime, NEW n \in Attempt, AckStopped(r, rt, n)
      PROVE  Control!Next /\ StepIsOwn'
  BY <1>3, <1>9 DEF AckStopped, sessionVars
<1>10. ASSUME NEW rt \in Runtime, Register(rt) \/ GoStale(rt)
       PROVE  Control!Next /\ StepIsOwn'
  BY <1>3, <1>10 DEF Register, GoStale, sessionVars
<1>11. ASSUME NEW d \in Device, RevokeDevice(d)
       PROVE  Control!Next /\ StepIsOwn'
  BY <1>3, <1>11 DEF RevokeDevice, sessionVars
<1>12. ASSUME NEW r \in Request, Pause(r) \/ PauseStep(r) \/ \E rt \in Runtime : Abandon(r, rt)
       PROVE  Control!Next /\ StepIsOwn'
  <2>1. PauseClaim(r) \/ \E rt \in Runtime : Abandon(r, rt)
    BY <1>12 DEF Pause, PauseStep
  <2>2. /\ UNCHANGED <<request, run>> /\ work \subseteq work'
        /\ \A e \in work' \ work : e.by = NoRuntime
    BY <2>1 DEF PauseClaim, PauseMarker, Abandon, Output
  <2>3. /\ StepsAsked' = StepsAsked /\ StepsAnswered' = StepsAnswered
        /\ StepsClosed \subseteq StepsClosed'
    BY <2>2 DEF StepsAsked, StepsAnswered, StepsClosed, Asked
  <2> QED
    BY <1>2, <2>2, <2>3, RunBreaks
<1>13. ASSUME NEW r \in Request, NEW rt \in Runtime, NEW n \in Attempt,
              Progress(r, rt, n) \/ Tool(r, rt, n) \/ Complete(r, rt, n)
       PROVE  Control!Next /\ StepIsOwn'
  <2>1. PICK e \in Work : Append(r, e)
    BY <1>1, <1>13, PublishAppends
  <2>2. MayExecute(r)
    BY <1>13 DEF Progress, Tool, Complete, Publish
  <2> QED
    BY <2>1, <2>2, RunHears
<1>14. ASSUME Hide \/ \E g \in Run : HaltRun(g) \/ RevokeRun(g) \/ ResumeRun(g) \/ ForgetRun(g)
       PROVE  Control!Next /\ StepIsOwn'
  BY <1>1, <1>14, RunSteers
<1>15. ASSUME \/ \E c \in chats : EraseChat(c)
              \/ \E r \in Request : EraseRequest(r)
              \/ \E a \in work : EraseAnswer(a)
       PROVE  Control!Next /\ StepIsOwn'
  BY <1>15, RunForgets
<1> QED
  BY <1>4, <1>5, <1>6, <1>7, <1>8, <1>9, <1>10, <1>11, <1>12, <1>13, <1>14, <1>15 DEF Next

\* Of any Team run the room sees one request at a time, answered by a runtime
\* only while the run waits for it, whatever leases, retirements, revocations,
\* hidden members and erasures do to its claims.
THEOREM RunsImplementControl ==
    ASSUME Watched \in Run
    PROVE  Spec => RunImplementsTeamControl
<1>1. Init => Control!Init /\ StepIsOwn
  <2> SUFFICES ASSUME Init PROVE Control!Init /\ StepIsOwn
    OBVIOUS
  <2>1. run[Watched].status = "none" /\ run[Watched].step = NoRequest
    BY DEF Init, InitWith
  <2>2. StepsAsked = {} /\ StepsAnswered = {} /\ StepsClosed = {}
    BY ConstantsAssumption DEF Init, InitWith, Asked, Steps, StepsAsked, StepsAnswered, StepsClosed
  <2> QED
    BY <2>1, <2>2 DEF Control!Init, StepIsOwn
<1>2. RoomInv /\ RoomInv' /\ StepIsOwn /\ [Next]_vars
      => [Control!Next]_(Control!vars) /\ StepIsOwn'
  BY ControlStep
<1> QED
  BY <1>1, <1>2, RoomInvariant, PTL DEF Spec, RunImplementsTeamControl, Control!Spec

-----------------------------------------------------------------------------
(* The connectors: no cursor passes a request that still needs its connector. *)

\* What a connector takes up lies ahead of its cursor, with nothing that still
\* needs it in between.
Ahead(rt, r) ==
    /\ Asked(r) /\ request[r].seq > cursor[rt]
    /\ \A q \in Request :
          (/\ Asked(q) /\ rt \in Matches[q]
           /\ cursor[rt] < request[q].seq /\ request[q].seq < request[r].seq)
              => request[q].erased

HandNext == \A rt \in Runtime : hand[rt] # NoRequest => Ahead(rt, hand[rt])

\* The inductive invariant of the cursors, beside RoomInv.
CursorInv == ConnectorTypeOK /\ NothingSkipped /\ HandNext

\* Why a cursor may be past a request.
Served(rt, r) == Settled(r) \/ claim[r].runtime \notin {rt, NoRuntime}

\* What any step of the server leaves of a request: its place, its erasure and
\* its end.
Stays(q) ==
    /\ Asked(q) => /\ Asked(q)' /\ request'[q].seq = request[q].seq
                   /\ request[q].erased => request'[q].erased
                   /\ Settled(q) => Settled(q)'
    /\ ~Asked(q) /\ Asked(q)' => request'[q].seq > head

LEMMA RequestsStay ==
    ASSUME RoomInv, RoomInv', [Next]_vars
    PROVE  head' >= head /\ \A q \in Request : Stays(q)
<1>0. TypeOK /\ RowsPlaced /\ RunsCut /\ head \in Nat /\ head' \in Nat
  BY RowTypes DEF RoomInv, TypeOK
<1>1. ASSUME head' = head, request' = request, work' = work,
             \A q \in Request : claim[q].status = "paused" => claim'[q].status = "paused"
      PROVE  head' >= head /\ \A q \in Request : Stays(q)
  BY <1>0, <1>1 DEF Stays, Asked, Settled, Answered, LiveAnswers, LiveWork
<1>2. CASE Quiet
  BY <1>1, <1>2 DEF Quiet, sessionVars
<1>3. ASSUME NEW r \in Request, StubClaim(r)
      PROVE  head' >= head /\ \A q \in Request : Stays(q)
  BY <1>0, <1>1, <1>3 DEF StubClaim, sessionVars, TypeOK
<1>4. ASSUME NEW r \in Request, NEW rt \in Runtime, ClaimFresh(r, rt) \/ Reclaim(r, rt)
      PROVE  head' >= head /\ \A q \in Request : Stays(q)
  <2>1. PICK n : Grant(r, rt, n)
    BY <1>4 DEF ClaimFresh, Reclaim
  <2>2. claim[r].status # "paused"
    BY <1>4 DEF ClaimFresh, Reclaim, Lapsed
  <2> QED
    BY <1>0, <1>1, <2>1, <2>2 DEF Grant, sessionVars, TypeOK
<1>5. CASE Chat
  BY <1>0, <1>5 DEF Chat, Stays, Asked, Settled, Answered, LiveAnswers, LiveWork
<1>6. ASSUME NEW r \in Request, Ask(r) \/ Dispatch(r)
      PROVE  head' >= head /\ \A q \in Request : Stays(q)
  <2>1. /\ ~Asked(r) /\ head' = head + 1 /\ work' = work /\ claim' = claim
        /\ request' = [request EXCEPT ![r] = [seq |-> head + 1, rev |-> revision, erased |-> FALSE]]
    BY <1>6 DEF Ask, Dispatch, PostRequest
  <2>2. request'[r].seq = head + 1 /\ \A q \in Request \ {r} : request'[q] = request[q]
    BY <1>0, <2>1 DEF TypeOK
  <2>3. \A q \in Request \ {r} : Stays(q)
    BY <2>1, <2>2 DEF Stays, Asked, Settled, Answered, LiveAnswers, LiveWork
  <2>4. Stays(r)
    BY <1>0, <2>1, <2>2 DEF Stays
  <2> QED
    BY <1>0, <2>1, <2>3, <2>4
<1>7. ASSUME NEW r \in Request, NEW e \in Work, Append(r, e)
      PROVE  head' >= head /\ \A q \in Request : Stays(q)
  <2>1. /\ head' = head + 1 /\ work' = work \cup {e} /\ request' = request
        /\ claim[r].status = "claimed" /\ \A q \in Request \ {r} : claim'[q] = claim[q]
    BY <1>7 DEF Append
  <2> QED
    BY <1>0, <2>1 DEF Stays, Asked, Settled, Answered, LiveAnswers, LiveWork
<1>8. ASSUME \/ \E c \in chats : EraseChat(c)
             \/ \E r \in Request : EraseRequest(r)
             \/ \E a \in work : EraseAnswer(a)
      PROVE  head' >= head /\ \A q \in Request : Stays(q)
  <2>1. PICK goneChats, gone, cut, place : \E from \in Nat :
            Erasure(goneChats, gone, cut, place) /\ Reach(goneChats, gone, from)
    BY <1>0, <1>8, EraseSteps, Zenon
  <2>2. /\ revision' = revision + 1 /\ head' > head
        /\ \A q \in Request : /\ request'[q].seq = request[q].seq
                              /\ request[q].erased => request'[q].erased
                              /\ ~request'[q].erased => request'[q].rev = request[q].rev
    BY <2>1 DEF Erasure
  <2>3. ASSUME NEW q \in Request, Asked(q)
        PROVE  Settled(q)' /\ Asked(q)'
    <3>1. request[q].rev <= revision /\ request[q].rev \in Nat /\ revision \in Nat
      BY <1>0, RowTypes DEF RowsPlaced
    <3>2. request'[q].erased \/ request'[q].rev < revision'
      BY <2>2, <3>1
    <3>3. Asked(q)'
      BY <2>2, <2>3 DEF Asked
    <3> QED
      BY <3>2, <3>3 DEF RoomInv, ErasureSettles, Settled
  <2>4. \A q \in Request : Asked(q)' = Asked(q)
    BY <2>2 DEF Asked
  <2> QED
    BY <1>0, <2>2, <2>3, <2>4 DEF Stays
<1> QED
  BY <1>0, <1>2, <1>3, <1>4, <1>5, <1>6, <1>7, <1>8, StepKinds, Zenon

\* Only a grant moves a request to another runtime.
LEMMA HolderStays ==
    ASSUME RoomInv, NEW q \in Request,
           \/ Chat \/ Tick \/ UNCHANGED vars
           \/ \E r \in Request : Ask(r) \/ Pause(r) \/ EraseRequest(r)
           \/ \E r \in Request, rt \in Runtime : Abandon(r, rt)
           \/ \E r \in Request, rt \in Runtime, n \in Attempt :
                 Progress(r, rt, n) \/ Tool(r, rt, n) \/ Complete(r, rt, n)
           \/ \E c \in chats : EraseChat(c)
           \/ \E a \in work : EraseAnswer(a)
    PROVE  claim'[q].runtime = claim[q].runtime
<1>0. TypeOK /\ RowsPlaced /\ RunsCut /\ claim[q] \in Claim
  BY DEF RoomInv, TypeOK
<1>1. ASSUME NEW r \in Request, NEW e \in Work, Append(r, e)
      PROVE  claim'[q].runtime = claim[q].runtime
  BY <1>1 DEF Append
<1>2. CASE Chat \/ UNCHANGED vars \/ \E r \in Request : Ask(r)
  BY <1>2 DEF Chat, vars, Ask, PostRequest
<1>3. CASE Tick
  BY <1>0, <1>3 DEF Tick, Claim
<1>4. CASE \E r \in Request : PauseClaim(r) \/ \E rt \in Runtime : Abandon(r, rt)
  BY <1>0, <1>1, <1>4, ServerAppends
<1>5. CASE \E r \in Request, rt \in Runtime, n \in Attempt :
              Progress(r, rt, n) \/ Tool(r, rt, n) \/ Complete(r, rt, n)
  BY <1>0, <1>1, <1>5, PublishAppends
<1>6. CASE \/ \E c \in chats : EraseChat(c)
           \/ \E r \in Request : EraseRequest(r)
           \/ \E a \in work : EraseAnswer(a)
  <2>1. PICK goneChats, gone, cut, place : \E from \in Nat :
            Erasure(goneChats, gone, cut, place) /\ Reach(goneChats, gone, from)
    BY <1>0, <1>6, EraseSteps, Zenon
  <2> QED
    BY <2>1 DEF Erasure
<1> QED
  BY <1>2, <1>3, <1>4, <1>5, <1>6 DEF Pause

\* Every step of the connectors is a step of the claim protocol, or none.
LEMMA ConnectorIsAgent == ConnectorTypeOK /\ [ConnectorNext]_allVars => [Next]_vars
<1> SUFFICES ASSUME ConnectorTypeOK, [ConnectorNext]_allVars PROVE [Next]_vars
  OBVIOUS
<1>1. ASSUME NEW rt \in Runtime, Poll(rt)
      PROVE  [Next]_vars
  BY <1>1 DEF Poll, Take, GiveUp, Pass, Next
<1>2. ASSUME NEW rt \in Runtime, Report(rt) \/ Recheck(rt) \/ Return(rt)
      PROVE  [Next]_vars
  <2>1. CASE InHand(rt)
    <3>1. hand[rt] \in Request
      BY <2>1 DEF ConnectorTypeOK, InHand
    <3> QED
      BY <1>2, <3>1 DEF Report, Recheck, Return, Deliver, ObserveStop, Throw, Next
  <2> QED
    BY <1>2, <2>1 DEF Report, Recheck, Return, Deliver, ObserveStop, Throw
<1>3. ASSUME NEW rt \in Runtime, Restart(rt)
      PROVE  [Next]_vars
  BY <1>3 DEF Restart
<1>4. CASE Room
  BY <1>4 DEF Room, Next
<1>5. CASE UNCHANGED allVars
  BY <1>5 DEF allVars
<1> QED
  BY <1>1, <1>2, <1>3, <1>4, <1>5 DEF ConnectorNext

\* What is ahead of a cursor that stays where it is remains ahead of it.
LEMMA AheadStays ==
    ASSUME RoomInv, RoomInv', NEW rt \in Runtime, NEW r \in Request, Ahead(rt, r),
           cursor'[rt] = cursor[rt], \A q \in Request : Stays(q)
    PROVE  Ahead(rt, r)'
<1>0. head \in Nat /\ \A q \in Request : request[q].seq \in Nat /\ request[q].seq <= head
  BY RowTypes DEF RoomInv, RowsPlaced
<1>n. \A q \in Request : request'[q].seq \in Nat
  BY DEF RoomInv, TypeOK, Row
<1>1. Asked(r)' /\ request'[r].seq = request[r].seq
  BY DEF Stays, Ahead
<1>2. ASSUME NEW q \in Request, Asked(q)', rt \in Matches[q],
             cursor'[rt] < request'[q].seq, request'[q].seq < request'[r].seq
      PROVE  request'[q].erased
  <2>1. CASE Asked(q)
    BY <1>1, <1>2, <2>1 DEF Stays, Ahead
  <2>2. CASE ~Asked(q)
    <3>1. request'[q].seq > head /\ request'[q].seq < request[r].seq /\ request[r].seq <= head
      BY <1>0, <1>1, <1>2, <2>2 DEF Stays
    <3> QED
      BY <1>0, <1>n, <3>1
  <2> QED
    BY <2>1, <2>2
<1> QED
  BY <1>1, <1>2 DEF Ahead

\* A step that moves no cursor, serves what is behind one no worse and takes up
\* only what is next.
LEMMA CursorsStay ==
    ASSUME RoomInv, RoomInv', CursorInv, head' >= head, \A q \in Request : Stays(q),
           cursor' = cursor, hand' \in [Runtime -> Request \cup {NoRequest}],
           \A rt \in Runtime, r \in Request : hand'[rt] = r => hand[rt] = r \/ Ahead(rt, r),
           \A rt \in Runtime, q \in Request :
               Asked(q) /\ cursor[rt] >= request[q].seq /\ Served(rt, q) => Served(rt, q)'
    PROVE  CursorInv'
<1>0. /\ head \in Nat /\ head' \in Nat /\ cursor \in [Runtime -> 0 .. head]
      /\ hand \in [Runtime -> Request \cup {NoRequest}]
      /\ \A q \in Request : request[q].seq \in Nat /\ request'[q].seq \in Nat
  BY RowTypes DEF RoomInv, CursorInv, ConnectorTypeOK, TypeOK, Row
<1>1. ConnectorTypeOK'
  <2>1. \A rt \in Runtime : cursor[rt] \in 0 .. head'
    BY <1>0
  <2> QED
    BY <1>0, <2>1 DEF ConnectorTypeOK
<1>2. NothingSkipped'
  <2> SUFFICES ASSUME NEW rt \in Runtime, NEW q \in Request, Asked(q)', rt \in Matches[q],
                      cursor[rt] >= request'[q].seq
               PROVE  Served(rt, q)'
    BY DEF NothingSkipped, Served
  <2>1. CASE Asked(q)
    <3>1. request'[q].seq = request[q].seq
      BY <2>1 DEF Stays
    <3>2. Served(rt, q)
      BY <2>1, <3>1 DEF CursorInv, NothingSkipped, Served
    <3> QED
      BY <2>1, <3>1, <3>2
  <2>2. CASE ~Asked(q)
    <3>1. request'[q].seq > head
      BY <2>2 DEF Stays
    <3>2. cursor[rt] \in Nat /\ cursor[rt] <= head
      BY <1>0
    <3> QED
      BY <1>0, <3>1, <3>2
  <2> QED
    BY <2>1, <2>2
<1>3. HandNext'
  <2>1. ASSUME NEW rt \in Runtime, NEW r \in Request, hand'[rt] = r
        PROVE  Ahead(rt, r)'
    <3>1. hand[rt] = r => Ahead(rt, r)
      BY ConstantsAssumption DEF CursorInv, HandNext
    <3> QED
      BY <2>1, <3>1, AheadStays
  <2> QED
    BY <2>1 DEF HandNext, Ahead
<1> QED
  BY <1>1, <1>2, <1>3 DEF CursorInv

\* A step that moves one cursor to the next request, which needs it no more.
LEMMA CursorMoves ==
    ASSUME RoomInv, RoomInv', CursorInv, head' >= head, \A q \in Request : Stays(q),
           NEW rt \in Runtime, NEW r \in Request, Ahead(rt, r), Advance(rt, r), Served(rt, r)',
           hand' \in [Runtime -> Request \cup {NoRequest}], hand'[rt] = NoRequest,
           \A s \in Runtime \ {rt} : hand'[s] = hand[s],
           \A s \in Runtime, q \in Request : Served(s, q) => Served(s, q)'
    PROVE  CursorInv'
<1>0. /\ head \in Nat /\ head' \in Nat /\ cursor \in [Runtime -> 0 .. head]
      /\ hand \in [Runtime -> Request \cup {NoRequest}]
      /\ \A q \in Request : /\ request[q].seq \in Nat /\ request'[q].seq \in Nat
                            /\ request[q].seq <= head
  BY RowTypes DEF RoomInv, CursorInv, ConnectorTypeOK, RowsPlaced, TypeOK, Row
<1>1. /\ cursor' \in [Runtime -> 0 .. head'] /\ cursor'[rt] = request[r].seq
      /\ \A s \in Runtime \ {rt} : cursor'[s] = cursor[s]
  <2>1. \A s \in Runtime : cursor[s] \in 0 .. head'
    BY <1>0
  <2>2. request[r].seq \in 0 .. head'
    BY <1>0
  <2> QED
    BY <1>0, <2>1, <2>2 DEF Advance
<1>2. NothingSkipped'
  <2> SUFFICES ASSUME NEW s \in Runtime, NEW q \in Request, Asked(q)', s \in Matches[q],
                      cursor'[s] >= request'[q].seq
               PROVE  Served(s, q)'
    BY DEF NothingSkipped, Served
  <2>1. ASSUME ~Asked(q)
        PROVE  FALSE
    <3>1. request'[q].seq > head
      BY <2>1 DEF Stays
    <3>2. cursor'[s] \in Nat /\ cursor'[s] <= head
      BY <1>0, <1>1
    <3> QED
      BY <1>0, <3>1, <3>2
  <2>2. Asked(q) /\ request'[q].seq = request[q].seq
    BY <2>1 DEF Stays
  <2>3. CASE cursor[s] >= request[q].seq
    BY <2>2, <2>3 DEF CursorInv, NothingSkipped, Served
  <2>4. CASE ~(cursor[s] >= request[q].seq)
    <3>1. s = rt /\ cursor[rt] < request[q].seq /\ request[q].seq <= request[r].seq
      BY <1>0, <1>1, <2>2, <2>4
    <3>2. CASE request[q].seq = request[r].seq
      BY <2>2, <3>1, <3>2 DEF RoomInv, RowsPlaced
    <3>3. CASE request[q].seq < request[r].seq
      <4>1. request[q].erased
        BY <2>2, <3>1, <3>3 DEF Ahead
      <4> QED
        BY <2>2, <4>1 DEF Stays, Served, Settled
    <3> QED
      BY <1>0, <3>1, <3>2, <3>3
  <2> QED
    BY <2>3, <2>4
<1>3. HandNext'
  <2>1. ASSUME NEW s \in Runtime, NEW q \in Request, hand'[s] = q
        PROVE  Ahead(s, q)'
    <3>1. s # rt /\ hand[s] = q
      BY <2>1, ConstantsAssumption
    <3>2. Ahead(s, q)
      BY <3>1, ConstantsAssumption DEF CursorInv, HandNext
    <3> QED
      BY <1>1, <3>1, <3>2, AheadStays
  <2> QED
    BY <2>1 DEF HandNext, Ahead
<1>4. ConnectorTypeOK'
  BY <1>1 DEF ConnectorTypeOK
<1> QED
  BY <1>2, <1>3, <1>4 DEF CursorInv

\* The next request of a page is ahead of the cursor with nothing in between.
LEMMA FacingAhead ==
    ASSUME RoomInv, CursorInv, NEW rt \in Runtime, NEW r \in Request, Facing(rt, r)
    PROVE  Ahead(rt, r) /\ hand[rt] = NoRequest
<1>0. \A q \in Request : request[q].seq \in Nat
  BY RowTypes DEF RoomInv
<1>1. ASSUME NEW q \in Request, Asked(q), rt \in Matches[q], cursor[rt] < request[q].seq,
             request[q].seq < request[r].seq, ~request[q].erased
      PROVE  FALSE
  <2>1. q \in Due(rt)
    BY <1>0, <1>1 DEF Due, CursorInv, ConnectorTypeOK
  <2> QED
    BY <1>0, <1>1, <2>1 DEF Facing
<1> QED
  BY <1>1 DEF Facing, Due, Ahead

\* A request whose context is current and whose claim ended without a pause is
\* answered.
LEMMA EndedIsSettled ==
    ASSUME RoomInv, NEW r \in Request, ContextCurrent(r),
           claim[r].status \in {"completed", "failed", "paused"}
    PROVE  Settled(r)
BY DEF ContextCurrent, RoomInv, ClaimMatchesLog, Settled, Answered

\* A step that moves no request to another runtime serves none worse.
LEMMA ServedStays ==
    ASSUME RoomInv, \A q \in Request : Stays(q) /\ claim'[q].runtime = claim[q].runtime,
           NEW s \in Runtime, NEW q \in Request, Served(s, q)
    PROVE  Served(s, q)'
<1>1. ~Asked(q) => ~request[q].erased /\ claim[q].status = "none" /\ ~Answered(q)
  BY DEF RoomInv, ClaimRows, RowsPlaced, Answered, LiveAnswers, LiveWork
<1>2. ~Asked(q) => claim[q].runtime = NoRuntime
  BY <1>1 DEF RoomInv, ClaimRows
<1> QED
  BY <1>1, <1>2 DEF Served, Stays, Settled

LEMMA CursorStep ==
    ASSUME Crashing \cap Projecting = {}, RoomInv, RoomInv', CursorInv,
           [ConnectorNext]_allVars
    PROVE  CursorInv'
<1>0. /\ TypeOK /\ [Next]_vars /\ hand \in [Runtime -> Request \cup {NoRequest}]
      /\ NoRequest \notin Request /\ cursor \in [Runtime -> 0 .. head]
  BY ConnectorIsAgent, ConstantsAssumption DEF RoomInv, CursorInv, ConnectorTypeOK
<1>1. head' >= head /\ \A q \in Request : Stays(q)
  BY <1>0, RequestsStay
<1> DEFINE Still == \A q \in Request : claim'[q].runtime = claim[q].runtime
<1>2. ASSUME Still
      PROVE  \A s \in Runtime, q \in Request : Served(s, q) => Served(s, q)'
  BY <1>1, <1>2, ServedStays
<1>3. UNCHANGED vars => Still
  BY HolderStays
\* What serves nothing worse and lets go at most.
<1>4. ASSUME Still, cursor' = cursor,
             hand' = hand \/ \E rt \in Runtime : LetGo(rt)
      PROVE  CursorInv'
  <2>1. hand' \in [Runtime -> Request \cup {NoRequest}]
    BY <1>0, <1>4 DEF LetGo
  <2>2. \A rt \in Runtime, r \in Request : hand'[rt] = r => hand[rt] = r
    BY <1>0, <1>4 DEF LetGo
  <2> QED
    BY <1>1, <1>2, <1>4, <2>1, <2>2, CursorsStay
\* What ends the request a connector faces or holds moves its cursor.
<1>5. ASSUME Still, NEW rt \in Runtime, NEW r \in Request, Ahead(rt, r), Advance(rt, r),
             Served(rt, r)', LetGo(rt) \/ (hand[rt] = NoRequest /\ hand' = hand)
      PROVE  CursorInv'
  <2>1. /\ hand' \in [Runtime -> Request \cup {NoRequest}] /\ hand'[rt] = NoRequest
        /\ \A s \in Runtime \ {rt} : hand'[s] = hand[s]
    BY <1>0, <1>5 DEF LetGo
  <2> QED
    BY <1>1, <1>2, <1>5, <2>1, CursorMoves
\* A grant to rt is of a request ahead of its cursor.
<1>6. ASSUME NEW rt \in Runtime, NEW r \in Request, ClaimFresh(r, rt) \/ Reclaim(r, rt),
             Ahead(rt, r), cursor' = cursor,
             LetGo(rt) \/ hand' = [hand EXCEPT ![rt] = r]
      PROVE  CursorInv'
  <2>1. Grant(r, rt, claim[r].attempt + 1)
    BY <1>0, <1>6, GrantKind DEF RoomInv
  <2>2. claim'[r].runtime = rt /\ \A q \in Request \ {r} : claim'[q] = claim[q]
    BY <1>0, <2>1 DEF Grant, TypeOK
  <2>3. rt # NoRuntime
    BY ConstantsAssumption
  <2>4. /\ hand' \in [Runtime -> Request \cup {NoRequest}]
        /\ \A s \in Runtime, q \in Request : hand'[s] = q => hand[s] = q \/ Ahead(s, q)
    BY <1>0, <1>6 DEF LetGo
  <2>5. ASSUME NEW s \in Runtime, NEW q \in Request, Asked(q), cursor[s] >= request[q].seq,
               Served(s, q)
        PROVE  Served(s, q)'
    <3>1. CASE q = r
      <4>1. request[r].seq \in Nat /\ cursor[rt] \in Nat
        BY <1>0, RowTypes
      <4>2. s # rt
        BY <1>6, <2>5, <3>1, <4>1 DEF Ahead
      <4> QED
        BY <2>2, <2>3, <3>1, <4>2 DEF Served
    <3>2. CASE q # r
      BY <1>1, <2>2, <2>5, <3>2 DEF Served, Stays
    <3> QED
      BY <3>1, <3>2
  <2> QED
    BY <1>1, <1>6, <2>4, <2>5, CursorsStay
<1>7. CASE Room
  <2>1. Still /\ cursor' = cursor /\ hand' = hand
    BY <1>7, HolderStays DEF Room, connectorVars
  <2> QED
    BY <1>4, <2>1
<1>8. ASSUME NEW rt \in Runtime, NEW r \in Request, Take(rt, r)
      PROVE  CursorInv'
  <2>1. Ahead(rt, r) /\ hand' = [hand EXCEPT ![rt] = r] /\ cursor' = cursor
    BY <1>8, FacingAhead DEF Take
  <2>2. CASE ClaimFresh(r, rt) \/ Reclaim(r, rt)
    BY <1>6, <2>1, <2>2
  <2>3. CASE UNCHANGED vars
    <3>1. \A s \in Runtime, q \in Request : Served(s, q) => Served(s, q)'
      BY <1>2, <1>3, <2>3
    <3>2. /\ hand' \in [Runtime -> Request \cup {NoRequest}]
          /\ \A s \in Runtime, q \in Request : hand'[s] = q => hand[s] = q \/ Ahead(s, q)
      BY <1>0, <2>1
    <3> QED
      BY <1>1, <2>1, <3>1, <3>2, CursorsStay
  <2> QED
    BY <1>8, <2>2, <2>3 DEF Take
<1>9. ASSUME NEW rt \in Runtime, NEW r \in Request, GiveUp(rt, r)
      PROVE  CursorInv'
  <2>1. /\ Ahead(rt, r) /\ hand[rt] = NoRequest /\ hand' = hand /\ Advance(rt, r)
        /\ Abandon(r, rt)
    BY <1>9, FacingAhead DEF GiveUp
  <2>2. Still
    BY <2>1, HolderStays
  <2>3. ContextCurrent(r)' /\ claim'[r].status = "failed"
    BY <1>0, <2>1 DEF Abandon, Eligible, RuntimeActs, ContextCurrent, Asked, accessVars, TypeOK, Claim
  <2>4. Served(rt, r)'
    BY <2>3 DEF ContextCurrent, RoomInv, ClaimMatchesLog, Settled, Answered, Served
  <2> QED
    BY <1>5, <2>1, <2>2, <2>4
<1>10. ASSUME NEW rt \in Runtime, NEW r \in Request, Pass(rt, r)
       PROVE  CursorInv'
  <2>1. /\ Ahead(rt, r) /\ hand[rt] = NoRequest /\ hand' = hand /\ Advance(rt, r)
        /\ UNCHANGED vars /\ Eligible(r, rt) /\ Passable(r, rt)
    BY <1>10, FacingAhead DEF Pass
  <2>2. Still
    BY <1>3, <2>1
  <2>3. ContextCurrent(r)
    BY <2>1 DEF Eligible, RuntimeActs
  <2>4. Served(rt, r)
    <3>1. CASE claim[r].status \in {"completed", "failed", "paused"}
      BY <2>3, <3>1, EndedIsSettled DEF Served
    <3>2. CASE claim[r].status = "claimed" /\ claim[r].runtime # rt
      BY <3>2, ConstantsAssumption DEF RoomInv, ClaimRows, Served
    <3> QED
      BY <2>1, <3>1, <3>2 DEF Passable
  <2>5. Served(rt, r)'
    BY <1>2, <2>2, <2>4
  <2> QED
    BY <1>5, <2>1, <2>2, <2>5
<1>11. ASSUME NEW rt \in Runtime, Report(rt)
       PROVE  CursorInv'
  <2>1. /\ hand[rt] \in Request /\ cursor' = cursor /\ hand' = hand
        /\ \E n \in Attempt : Progress(hand[rt], rt, n) \/ Tool(hand[rt], rt, n)
    BY <1>0, <1>11 DEF Report, InHand, connectorVars
  <2>2. Still
    BY <2>1, HolderStays
  <2> QED
    BY <1>4, <2>1, <2>2
<1>12. ASSUME NEW rt \in Runtime, Deliver(rt)
       PROVE  CursorInv'
  <2>1. PICK r \in Request : /\ r = hand[rt] /\ Advance(rt, r) /\ LetGo(rt)
                             /\ \E n \in Attempt : Complete(r, rt, n)
    BY <1>0, <1>12 DEF Deliver, InHand
  <2>2. Ahead(rt, r)
    BY <1>0, <2>1 DEF CursorInv, HandNext
  <2>3. Still
    BY <2>1, HolderStays
  <2>4. ContextCurrent(r)' /\ claim'[r].status = "completed"
    BY <1>0, <2>1 DEF Complete, Publish, RuntimeActs, ContextCurrent, Asked, accessVars, TypeOK, Claim
  <2>5. Served(rt, r)'
    BY <2>4 DEF ContextCurrent, RoomInv, ClaimMatchesLog, Settled, Answered, Served
  <2> QED
    BY <1>5, <2>1, <2>2, <2>3, <2>5
<1>13. ASSUME NEW rt \in Runtime, ObserveStop(rt)
       PROVE  CursorInv'
  <2>1. PICK r \in Request : /\ r = hand[rt] /\ Advance(rt, r) /\ LetGo(rt) /\ UNCHANGED vars
                             /\ Eligible(r, rt) /\ claim[r].status \in {"paused", "completed"}
    BY <1>0, <1>13 DEF ObserveStop, InHand
  <2>2. Ahead(rt, r)
    BY <1>0, <2>1 DEF CursorInv, HandNext
  <2>3. Still
    BY <1>3, <2>1
  <2>4. Served(rt, r)
    BY <2>1, EndedIsSettled DEF Eligible, RuntimeActs, Served
  <2>5. Served(rt, r)'
    BY <1>2, <2>3, <2>4
  <2> QED
    BY <1>5, <2>1, <2>2, <2>3, <2>5
<1>14. ASSUME NEW rt \in Runtime, Recheck(rt)
       PROVE  CursorInv'
  <2>1. PICK r \in Request : /\ r = hand[rt] /\ LetGo(rt) /\ cursor' = cursor
                             /\ Reclaim(r, rt) \/ Abandon(r, rt)
    BY <1>0, <1>14 DEF Recheck, InHand
  <2>2. Ahead(rt, r)
    BY <1>0, <2>1 DEF CursorInv, HandNext
  <2>3. CASE Reclaim(r, rt)
    BY <1>6, <2>1, <2>2, <2>3
  <2>4. CASE Abandon(r, rt)
    <3>1. Still
      BY <2>4, HolderStays
    <3> QED
      BY <1>4, <2>1, <3>1
  <2> QED
    BY <2>1, <2>3, <2>4
<1>15. ASSUME NEW rt \in Runtime, Throw(rt) \/ Restart(rt)
       PROVE  CursorInv'
  <2>1. LetGo(rt) /\ UNCHANGED vars /\ cursor' = cursor
    BY <1>15 DEF Throw, Restart
  <2>2. Still
    BY <1>3, <2>1
  <2> QED
    BY <1>4, <2>1, <2>2
<1>16. CASE UNCHANGED allVars
  <2>1. UNCHANGED vars /\ cursor' = cursor /\ hand' = hand
    BY <1>16 DEF allVars, connectorVars
  <2> QED
    BY <1>3, <1>4, <2>1
<1> QED
  BY <1>7, <1>8, <1>9, <1>10, <1>11, <1>12, <1>13, <1>14, <1>15, <1>16
     DEF ConnectorNext, Poll, Return

\* However connectors race, time out, throw and, where they do not project the
\* history, crash: no cursor passes a request that is still owed to its
\* connector, the room hears the attempts of a request in order, one runtime
\* each, and nobody once it was told of the end. A connector that projects is
\* promised this while it does not restart.
THEOREM CursorsSkipNothing ==
    ASSUME Crashing \cap Projecting = {}
    PROVE  ConnectorSpec => []HeardInOrder
<1>1. ConnectorInit => RoomInv /\ CursorInv
  <2> SUFFICES ASSUME ConnectorInit PROVE RoomInv /\ CursorInv
    OBVIOUS
  <2>1. RoomInv /\ head = 0 /\ (\A r \in Request : ~Asked(r))
    BY RoomInit DEF ConnectorInit, Init, InitWith, Asked
  <2> QED
    BY <2>1 DEF ConnectorInit, CursorInv, ConnectorTypeOK, NothingSkipped, HandNext
<1>2. RoomInv /\ CursorInv /\ [ConnectorNext]_allVars => (RoomInv /\ CursorInv)'
  <2> SUFFICES ASSUME RoomInv, CursorInv, [ConnectorNext]_allVars
               PROVE  (RoomInv /\ CursorInv)'
    OBVIOUS
  <2>1. [Next]_vars
    BY ConnectorIsAgent DEF CursorInv
  <2>2. RoomInv'
    BY <2>1, RoomStep
  <2> QED
    BY <2>2, CursorStep
<1>3. RoomInv /\ CursorInv => HeardInOrder
  BY DEF RoomInv, CursorInv, HeardInOrder
<1> QED
  BY <1>1, <1>2, <1>3, PTL DEF ConnectorSpec

=============================================================================
