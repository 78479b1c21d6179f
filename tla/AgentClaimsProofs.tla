------------------------- MODULE AgentClaimsProofs -------------------------
(***************************************************************************)
(* Theorems of AgentClaims, for every value of its constants.              *)
(***************************************************************************)
EXTENDS AgentClaims, FiniteSetTheorems, TLAPS

-----------------------------------------------------------------------------
(* Type correctness. *)

\* What the types need of the two limits.
LEMMA Limits ==
    /\ Lease \in Nat /\ MaxAttempts \in Nat
    /\ 0 \in 0 .. Lease /\ Lease \in 0 .. Lease
    /\ 0 \in 0 .. MaxAttempts /\ 1 \in Attempt /\ Attempt \subseteq 0 .. MaxAttempts
BY ConstantsAssumption DEF Attempt

\* A row of the log stays a row of the log when it is appended.
LEMMA OutputType ==
    ASSUME NEW r \in Request, NEW seq \in Nat, NEW rev \in Nat, NEW kind \in WorkKind,
           NEW by \in Runtime \cup {NoRuntime}, NEW n \in 0 .. MaxAttempts
    PROVE  Output(r, seq, rev, kind, by, n) \in Work
BY DEF Output, Work

\* The claims of the handlers that end one are claims.
LEMMA EndedType == ASSUME NEW c \in Claim PROVE Ended(c) \in Claim
BY Limits DEF Ended, Claim, ClaimStatus

LEMMA TypeInit == Init => TypeOK
BY Limits DEF Init, InitWith, TypeOK, NoClaim, ClaimStatus, Permit, Row, Claim, TeamRun

\* Publishing appends one well-typed row, whatever it is.
LEMMA PublishType ==
    ASSUME TypeOK, NEW r \in Request, NEW kind \in WorkKind, NEW rt \in Runtime,
           NEW n \in Attempt, Publish(r, kind, rt, n), claim' \in [Request -> Claim]
    PROVE  TypeOK'
<1>1. head + 1 \in Nat /\ revision \in Nat /\ n \in 0 .. MaxAttempts
  BY Limits DEF TypeOK
<1>2. Output(r, head + 1, revision, kind, rt, n) \in Work
  BY <1>1, OutputType
<1> QED
  BY <1>1, <1>2 DEF Publish, TypeOK, accessVars

\* The rows of an erasure: its event numbers stay natural numbers because
\* only finitely many requests can be cut off.
LEMMA EraseType ==
    ASSUME TypeOK, NEW goneChats, NEW gone, Erase(goneChats, gone)
    PROVE  TypeOK'
<1> DEFINE erased == [r \in Request |-> request[r].erased \/ r \in gone.requests]
           next == revision + 1
           Tombstone(row) == [row EXCEPT !.erased = TRUE, !.rev = next]
           kept == {IF e \in gone.work /\ ~e.erased THEN Tombstone(e) ELSE e : e \in work}
           cut == Unsettled(erased, kept)
           place(r) == head + 1 + Cardinality({q \in cut : request[q].seq < request[r].seq})
<1>0. next \in Nat /\ head \in Nat
  BY DEF TypeOK
<1>1. cut \subseteq Request
  BY DEF Unsettled
<1>2. \A S \in SUBSET cut : Cardinality(S) \in Nat
  BY <1>1, ConstantsAssumption, FS_Subset, FS_CardinalityType
<1>3. head' \in Nat /\ revision' \in Nat
  <2>1. Cardinality(cut) \in Nat
    BY <1>2
  <2>2. head' = head + 1 + Cardinality(cut) /\ revision' = next
    BY DEF Erase
  <2> HIDE DEF cut, next
  <2> QED
    BY <1>0, <2>1, <2>2
<1>4. chats' \subseteq Row
  <2>1. \A c \in chats : Tombstone(c) \in Row
    BY <1>0 DEF TypeOK, Row
  <2> QED
    BY <2>1 DEF Erase, TypeOK
<1>5. request' \in [Request -> Row]
  <2>1. \A r \in Request : Tombstone(request[r]) \in Row
    BY <1>0 DEF TypeOK, Row
  <2> QED
    BY <2>1 DEF Erase, TypeOK
<1>6. work' \subseteq Work
  <2>1. \A e \in work : Tombstone(e) \in Work
    BY <1>0 DEF TypeOK, Work
  <2>2. kept \subseteq Work
    <3> HIDE DEF Tombstone
    <3> QED BY <2>1 DEF TypeOK
  <2>3. \A r \in cut : Output(r, place(r), next, "response", NoRuntime, 0) \in Work
    <3> SUFFICES ASSUME NEW r \in cut
                 PROVE  Output(r, place(r), next, "response", NoRuntime, 0) \in Work
      OBVIOUS
    <3>1. Cardinality({q \in cut : request[q].seq < request[r].seq}) \in Nat
      BY <1>2
    <3>2. place(r) \in Nat
      <4> HIDE DEF cut
      <4> QED BY <1>0, <3>1
    <3>3. r \in Request /\ 0 \in 0 .. MaxAttempts /\ "response" \in WorkKind
      BY <1>1, Limits DEF WorkKind
    <3> HIDE DEF place, next, cut
    <3> QED
      BY <1>0, <3>2, <3>3, OutputType
  <2>4. work' = kept \cup {Output(r, place(r), next, "response", NoRuntime, 0) : r \in cut}
    BY DEF Erase
  <2> HIDE DEF kept, cut, place, next
  <2> QED
    BY <2>2, <2>3, <2>4
<1>7. claim' \in [Request -> Claim]
  <2>1. \A c \in Claim : [c EXCEPT !.status = "paused"] \in Claim /\ Ended(c) \in Claim
    BY EndedType DEF Claim, ClaimStatus
  <2>2. \A r \in Request : claim'[r] \in {claim[r], Ended(claim[r]),
                                           [claim[r] EXCEPT !.status = "paused"]}
    BY DEF Erase, CleanedUp
  <2>3. claim' = [r \in Request |-> claim'[r]]
    BY DEF Erase
  <2>4. \A r \in Request : claim[r] \in Claim
    BY DEF TypeOK
  <2>5. \A r \in Request : claim'[r] \in Claim
    BY <2>1, <2>2, <2>4
  <2> QED
    BY <2>3, <2>5
<1>8. run' \in [Run -> TeamRun]
  <2>1. \A g \in TeamRun : [g EXCEPT !.status = "forgotten"] \in TeamRun
    BY DEF TeamRun
  <2> QED
    BY <2>1 DEF Erase, TypeOK
<1>9. UNCHANGED <<presence, devices, visible, blocked, exec>>
  BY DEF Erase, accessVars
<1> QED
  BY <1>3, <1>4, <1>5, <1>6, <1>7, <1>8, <1>9 DEF TypeOK

LEMMA TypeStep == TypeOK /\ [Next]_vars => TypeOK'
<1> SUFFICES ASSUME TypeOK, [Next]_vars
             PROVE  TypeOK'
  OBVIOUS
<1> USE DEF sessionVars, accessVars
<1>1. CASE Chat
  <2>1. [seq |-> head + 1, rev |-> revision, erased |-> FALSE] \in Row /\ head + 1 \in Nat
    BY DEF TypeOK, Row
  <2> QED
    BY <1>1, <2>1 DEF Chat, TypeOK
<1>2. ASSUME NEW r \in Request, PostRequest(r), run' \in [Run -> TeamRun]
      PROVE  TypeOK'
  <2>1. [seq |-> head + 1, rev |-> revision, erased |-> FALSE] \in Row /\ head + 1 \in Nat
    BY DEF TypeOK, Row
  <2> QED
    BY <1>2, <2>1 DEF PostRequest, TypeOK
<1>3. ASSUME NEW r \in Request, Dispatch(r)
      PROVE  TypeOK'
  <2>1. [status |-> "running", step |-> r] \in TeamRun
    BY DEF TeamRun
  <2> QED
    BY <1>2, <1>3, <2>1 DEF Dispatch, TypeOK
<1>4. ASSUME NEW r \in Request, NEW rt \in Runtime, NEW n \in Attempt, Grant(r, rt, n)
      PROVE  TypeOK'
  <2>1. [status |-> "claimed", runtime |-> rt, attempt |-> n, lease |-> Lease,
         pending |-> r \in Team] \in Claim
    BY Limits DEF Claim, ClaimStatus
  <2>2. <<r, rt, n>> \in Permit
    BY DEF Permit
  <2> QED
    BY <1>4, <2>1, <2>2 DEF Grant, TypeOK
<1>5. ASSUME NEW r \in Request, NEW rt \in Runtime, ClaimFresh(r, rt) \/ Reclaim(r, rt)
      PROVE  TypeOK'
  <2>1. claim[r] \in Claim
    BY DEF TypeOK
  <2>2. 1 \in Attempt /\ (claim[r].attempt < MaxAttempts => claim[r].attempt + 1 \in Attempt)
    BY <2>1, Limits DEF Claim, Attempt
  <2> QED
    BY <1>4, <1>5, <2>2 DEF ClaimFresh, Reclaim
<1>6. ASSUME NEW r \in Request, NEW rt \in Runtime, Abandon(r, rt)
      PROVE  TypeOK'
  <2>0. /\ head + 1 \in Nat /\ revision \in Nat /\ "response" \in WorkKind
        /\ NoRuntime \in Runtime \cup {NoRuntime}
    BY DEF TypeOK, WorkKind
  <2>1. Output(r, head + 1, revision, "response", NoRuntime, 0) \in Work
    BY <2>0, OutputType, Limits
  <2>2. claim[r] \in Claim
    BY DEF TypeOK
  <2>3. [claim[r] EXCEPT !.status = "failed", !.lease = 0] \in Claim
    BY <2>2, Limits DEF Claim, ClaimStatus
  <2>4. claim' = [claim EXCEPT ![r] = [claim[r] EXCEPT !.status = "failed", !.lease = 0]]
    BY <1>6 DEF Abandon
  <2>5. claim' \in [Request -> Claim]
    BY <2>3, <2>4 DEF TypeOK
  <2> QED
    BY <1>6, <2>0, <2>1, <2>5 DEF Abandon, TypeOK
<1>7. ASSUME NEW t \in Permit, Start(t) \/ Stop(t)
      PROVE  TypeOK'
  BY <1>7 DEF Start, Stop, TypeOK
<1>8. ASSUME NEW r \in Request, NEW rt \in Runtime, NEW n \in Attempt,
             Progress(r, rt, n) \/ Tool(r, rt, n) \/ Complete(r, rt, n)
      PROVE  TypeOK'
  <2>1. PICK kind \in WorkKind : Publish(r, kind, rt, n)
    BY <1>8 DEF Progress, Tool, Complete, WorkKind
  <2>2. claim[r] \in Claim
    BY DEF TypeOK
  <2>3. /\ [claim[r] EXCEPT !.lease = Lease] \in Claim
        /\ [claim[r] EXCEPT !.status = "completed", !.pending = FALSE] \in Claim
    BY <2>2, Limits DEF Claim, ClaimStatus
  <2>4. \/ claim' = [claim EXCEPT ![r] = [claim[r] EXCEPT !.lease = Lease]]
        \/ claim' = [claim EXCEPT ![r] = [claim[r] EXCEPT !.status = "completed", !.pending = FALSE]]
        \/ claim' = claim
    BY <1>8 DEF Progress, Tool, Complete
  <2>5. claim' \in [Request -> Claim]
    BY <2>3, <2>4 DEF TypeOK
  <2> QED
    BY <2>1, <2>5, PublishType
<1>9. ASSUME NEW r \in Request, NEW rt \in Runtime, NEW n \in Attempt, AckStopped(r, rt, n)
      PROVE  TypeOK'
  <2>1. claim' = [claim EXCEPT ![r] = [claim[r] EXCEPT !.pending = FALSE]]
    BY <1>9 DEF AckStopped
  <2>2. \A c \in Claim : [c EXCEPT !.pending = FALSE] \in Claim
    BY DEF Claim
  <2>3. claim' \in [Request -> Claim]
    BY <2>1, <2>2 DEF TypeOK
  <2> QED
    BY <1>9, <2>3 DEF AckStopped, TypeOK
<1>10. ASSUME NEW r \in Request, PauseClaim(r)
       PROVE  TypeOK'
  <2>0. /\ head + 1 \in Nat /\ revision \in Nat /\ "progress" \in WorkKind
        /\ NoRuntime \in Runtime \cup {NoRuntime}
    BY DEF TypeOK, WorkKind
  <2>1. PauseMarker(r) \in Work
    BY <2>0, OutputType, Limits DEF PauseMarker
  <2>2. claim' \in [Request -> Claim]
    BY <1>10, EndedType DEF PauseClaim, TypeOK
  <2> QED
    BY <1>10, <2>0, <2>1, <2>2 DEF PauseClaim, TypeOK
<1>11. ASSUME NEW r \in Request, StubClaim(r)
       PROVE  TypeOK'
  <2>1. PICK rt \in Matches[r] : claim' = [claim EXCEPT ![r] = [NoClaim EXCEPT
                        !.status = "claimed", !.runtime = rt, !.attempt = 1]]
    BY <1>11 DEF StubClaim
  <2>2. [NoClaim EXCEPT !.status = "claimed", !.runtime = rt, !.attempt = 1] \in Claim
    BY ConstantsAssumption, Limits DEF NoClaim, Claim, ClaimStatus, Attempt
  <2>3. claim' \in [Request -> Claim]
    BY <2>1, <2>2 DEF TypeOK
  <2> QED
    BY <1>11, <2>3 DEF StubClaim, TypeOK
<1>12. ASSUME NEW r \in Request, RetireStep(r)
       PROVE  TypeOK'
  BY <1>12, EndedType DEF RetireStep, TypeOK
<1>13. ASSUME NEW g \in Run, HaltRun(g) \/ ResumeRun(g) \/ ForgetRun(g)
       PROVE  TypeOK'
  <2>1. run[g] \in TeamRun
    BY DEF TypeOK
  <2>2. /\ \A status \in {"paused", "ended", "forgotten"} : [run[g] EXCEPT !.status = status] \in TeamRun
        /\ \A step \in {run[g].step, NoRequest} : [status |-> "running", step |-> step] \in TeamRun
    BY <2>1 DEF TeamRun
  <2>3. \E next \in TeamRun : run' = [run EXCEPT ![g] = next]
    BY <1>13, <2>2 DEF HaltRun, ResumeRun, ForgetRun
  <2>4. claim' \in [Request -> Claim]
    BY <1>13, EndedType DEF HaltRun, ResumeRun, ForgetRun, CleanedUp, TypeOK
  <2> QED
    BY <1>13, <2>3, <2>4 DEF HaltRun, ResumeRun, ForgetRun, TypeOK
<1>14. ASSUME NEW g \in Run, RevokeRun(g)
       PROVE  TypeOK'
  <2>1. \A h \in TeamRun : [h EXCEPT !.status = "ended"] \in TeamRun
    BY DEF TeamRun
  <2>2. run' = [run EXCEPT ![g] = [run[g] EXCEPT !.status = "ended"]]
    BY <1>14 DEF RevokeRun
  <2>3. run' \in [Run -> TeamRun]
    BY <2>1, <2>2 DEF TypeOK
  <2>4. claim' \in [Request -> Claim]
    BY <1>14, EndedType DEF RevokeRun, TypeOK
  <2> QED
    BY <1>14, <2>3, <2>4 DEF RevokeRun, TypeOK
<1>15. ASSUME NEW rt \in Runtime, Register(rt) \/ GoStale(rt)
       PROVE  TypeOK'
  BY <1>15 DEF Register, GoStale, TypeOK
<1>16. ASSUME NEW d \in Device, RevokeDevice(d)
       PROVE  TypeOK'
  BY <1>16 DEF RevokeDevice, TypeOK
<1>17. CASE Hide
  <2>1. \A h \in TeamRun : [h EXCEPT !.status = "ended"] \in TeamRun
    BY DEF TeamRun
  <2>2. run' \in [Run -> TeamRun]
    BY <1>17, <2>1 DEF Hide, TypeOK
  <2>3. claim' \in [Request -> Claim]
    BY <1>17, EndedType DEF Hide, TypeOK
  <2> QED
    BY <1>17, <2>2, <2>3 DEF Hide, TypeOK
<1>18. CASE Show
  BY <1>18 DEF Show, TypeOK
<1>19. CASE Tick
  <2>1. \A c \in Claim : [c EXCEPT !.lease = IF @ > 0 THEN @ - 1 ELSE 0] \in Claim
    BY Limits DEF Claim
  <2>2. claim' \in [Request -> Claim]
    BY <1>19, <2>1 DEF Tick, TypeOK
  <2> QED
    BY <1>19, <2>2 DEF Tick, TypeOK
<1>20. ASSUME NEW goneChats, NEW gone, Erase(goneChats, gone)
       PROVE  TypeOK'
  BY <1>20, EraseType
<1>21. CASE UNCHANGED vars
  BY <1>21 DEF vars, TypeOK
<1> QED
  BY <1>1, <1>2, <1>3, <1>5, <1>6, <1>7, <1>8, <1>9, <1>10, <1>11, <1>12, <1>13, <1>14,
     <1>15, <1>16, <1>17, <1>18, <1>19, <1>20, <1>21
     DEF Next, Ask, Pause, PauseStep, EraseChat, EraseRequest, EraseAnswer, TypeOK

\* Whatever the connectors, the author, the coordinator and time do, the
\* rows of the session, its claims and its runs stay within their types:
\* no claim is ever granted an attempt beyond MAX_AGENT_CLAIM_ATTEMPTS.
THEOREM TypeCorrect == Spec => []TypeOK
<1>1. Init => TypeOK
  BY TypeInit
<1>2. TypeOK /\ [Next]_vars => TypeOK'
  BY TypeStep
<1> QED
  BY <1>1, <1>2, PTL DEF Spec

-----------------------------------------------------------------------------
(* One claim per runtime. *)

\* A claim granted under SlotFree is the only one that can newly occupy a slot.
LEMMA GrantSlot ==
    ASSUME TypeOK, SlotExclusive, NEW r \in Request, NEW rt \in Runtime, NEW n,
           SlotFree(r, rt), Grant(r, rt, n)
    PROVE  SlotExclusive'
<1>1. /\ claim'[r].runtime = rt
      /\ \A q \in Request \ {r} : claim'[q] = claim[q]
  BY DEF Grant, TypeOK
<1>2. ASSUME NEW s \in Runtime, NEW p \in Request, NEW q \in Request,
             Occupies(p, s)', Occupies(q, s)'
      PROVE  p = q
  BY <1>1, <1>2 DEF SlotExclusive, SlotFree, Occupies
<1> QED
  BY <1>2 DEF SlotExclusive

\* Every other step leaves each slot with the claim that occupied it or none.
LEMMA ReleaseSlot ==
    ASSUME SlotExclusive,
           \A r \in Request, rt \in Runtime : Occupies(r, rt)' => Occupies(r, rt)
    PROVE  SlotExclusive'
BY DEF SlotExclusive

LEMMA SlotStep == TypeOK /\ SlotExclusive /\ [Next]_vars => SlotExclusive'
<1> SUFFICES ASSUME TypeOK, SlotExclusive, [Next]_vars
             PROVE  SlotExclusive'
  OBVIOUS
<1> DEFINE Kept == \A r \in Request, rt \in Runtime : Occupies(r, rt)' => Occupies(r, rt)
<1>1. ASSUME NEW r \in Request, NEW rt \in Runtime, ClaimFresh(r, rt) \/ Reclaim(r, rt)
      PROVE  SlotExclusive'
  BY <1>1, GrantSlot DEF ClaimFresh, Reclaim
<1>2. ASSUME UNCHANGED claim
      PROVE  Kept
  BY <1>2 DEF Occupies
<1>3. ASSUME NEW r \in Request, NEW rt \in Runtime, Abandon(r, rt)
      PROVE  Kept
  BY <1>3 DEF Abandon, Occupies, TypeOK
<1>4. ASSUME NEW r \in Request, NEW rt \in Runtime, NEW n \in Attempt, Progress(r, rt, n)
      PROVE  Kept
  <2>1. claim[r].status = "claimed" /\ claim[r].lease > 0
    BY <1>4 DEF Progress, Publish, CurrentAttempt
  <2> QED
    BY <1>4, <2>1 DEF Progress, Occupies, TypeOK
<1>5. ASSUME NEW r \in Request, NEW rt \in Runtime, NEW n \in Attempt,
             Complete(r, rt, n) \/ AckStopped(r, rt, n)
      PROVE  Kept
  <2>1. /\ claim'[r].runtime = claim[r].runtime /\ claim'[r].lease = claim[r].lease
        /\ claim'[r].pending = FALSE
        /\ claim'[r].status = "completed" \/ claim'[r].status = claim[r].status
        /\ \A q \in Request \ {r} : claim'[q] = claim[q]
    <3>1. claim[r] \in Claim
      BY DEF TypeOK
    <3>2. CASE Complete(r, rt, n)
      BY <3>1, <3>2 DEF Complete, Claim, TypeOK
    <3>3. CASE AckStopped(r, rt, n)
      BY <3>1, <3>3 DEF AckStopped, Claim, TypeOK
    <3> QED
      BY <1>5, <3>2, <3>3
  <2> QED
    BY <2>1 DEF Occupies
<1>6. ASSUME NEW r \in Request, PauseClaim(r) \/ RetireStep(r)
      PROVE  Kept
  <2>1. claim'[r] = Ended(claim[r]) /\ \A q \in Request \ {r} : claim'[q] = claim[q]
    BY <1>6 DEF PauseClaim, RetireStep, TypeOK
  <2>2. \A q \in Request : claim[q] \in Claim
    BY DEF TypeOK
  <2>3. /\ Ended(claim[r]).pending = claim[r].pending
        /\ Ended(claim[r]).runtime = claim[r].runtime
        /\ Ended(claim[r]).lease = 0
    BY <2>2 DEF Ended, Claim
  <2> QED
    BY <2>1, <2>3 DEF Occupies
<1>7. ASSUME NEW r \in Request, StubClaim(r)
      PROVE  Kept
  <2>1. /\ claim'[r].lease = 0 /\ claim'[r].pending = FALSE
        /\ \A q \in Request \ {r} : claim'[q] = claim[q]
    BY <1>7 DEF StubClaim, NoClaim, TypeOK
  <2>2. \A rt \in Runtime : ~Occupies(r, rt)'
    BY <2>1 DEF Occupies
  <2> QED
    BY <2>1, <2>2 DEF Occupies
<1>8. ASSUME (\E g \in Run : RevokeRun(g) \/ ForgetRun(g)) \/ Hide
      PROVE  Kept
  <2>1. \A r \in Request : claim'[r] \in {claim[r], Ended(claim[r])}
    BY <1>8 DEF RevokeRun, ForgetRun, CleanedUp, Hide
  <2>2. \A r \in Request : claim[r] \in Claim
    BY DEF TypeOK
  <2> QED
    BY <2>1, <2>2 DEF Ended, Occupies, Claim
<1>9. CASE Tick
  <2>1. \A r \in Request : claim[r] \in Claim
    BY DEF TypeOK
  <2>2. \A r \in Request : /\ claim'[r].runtime = claim[r].runtime
                           /\ claim'[r].status = claim[r].status
                           /\ claim'[r].pending = claim[r].pending
                           /\ claim'[r].lease > 0 => claim[r].lease > 0
    BY <1>9, <2>1 DEF Tick, Claim
  <2>3. Kept
    BY <2>2 DEF Occupies
  <2> QED
    BY <2>3, ReleaseSlot
<1>10. ASSUME NEW goneChats, NEW gone, Erase(goneChats, gone)
       PROVE  Kept
  <2>1. \A r \in Request : claim'[r] \in {claim[r], Ended(claim[r]),
                                           [claim[r] EXCEPT !.status = "paused"]}
    BY <1>10 DEF Erase, CleanedUp
  <2>2. \A r \in Request : claim[r] \in Claim
    BY DEF TypeOK
  <2> QED
    BY <2>1, <2>2 DEF Occupies, Ended, Claim
<1>11. CASE UNCHANGED vars
  BY <1>2, <1>11, ReleaseSlot DEF vars
<1>12. ASSUME Next
       PROVE  \/ \E r \in Request, rt \in Runtime : ClaimFresh(r, rt) \/ Reclaim(r, rt)
              \/ Tick
              \/ Kept
  BY <1>2, <1>3, <1>4, <1>5, <1>6, <1>7, <1>8, <1>10, <1>12
     DEF Next, Chat, Ask, Dispatch, PostRequest, Pause, PauseStep, Start, Stop, Tool, HaltRun,
         ResumeRun, Register, GoStale, RevokeDevice, Show, EraseChat, EraseRequest,
         EraseAnswer
<1> QED
  BY <1>1, <1>9, <1>11, <1>12, ReleaseSlot

\* A runtime never executes two claims at once as far as the server knows,
\* through lapses, reclaims, renewals, pauses and erasures.
THEOREM OneClaimPerRuntime == Spec => []SlotExclusive
<1>1. Init => TypeOK /\ SlotExclusive
  <2>1. Init => SlotExclusive
    BY DEF Init, InitWith, SlotExclusive, Occupies, NoClaim
  <2> QED
    BY <2>1, TypeInit
<1>2. TypeOK /\ SlotExclusive /\ [Next]_vars => (TypeOK /\ SlotExclusive)'
  BY TypeStep, SlotStep
<1> QED
  BY <1>1, <1>2, PTL DEF Spec
-----------------------------------------------------------------------------
(* No grant over a Team turn. *)

\* A claim that was never granted has no turn, so granting it keeps the rest.
LEMMA PendingGrant ==
    ASSUME TypeOK, PendingHeld, NEW r \in Request, NEW rt \in Runtime, NEW n \in Attempt,
           Grant(r, rt, n), r \in Team => claim[r].status = "none"
    PROVE  PendingHeld'
<1>1. /\ claim'[r].runtime = rt /\ claim'[r].attempt = n /\ claim'[r].status = "claimed"
      /\ claim'[r].pending = (r \in Team)
      /\ \A q \in Request \ {r} : claim'[q] = claim[q]
  BY DEF Grant, TypeOK
<1>2. \A t \in Permit : exec'[t] = IF t = <<r, rt, n>> THEN "granted" ELSE exec[t]
  BY DEF Grant, TypeOK
<1>3. ASSUME NEW q \in Team, NEW s \in Runtime, NEW m \in Attempt,
             exec'[<<q, s, m>>] \in {"granted", "live"}
      PROVE  claim'[q].runtime = s /\ claim'[q].attempt = m /\ claim'[q].pending
  <2>1. q \in Request /\ <<q, s, m>> \in Permit
    BY ConstantsAssumption DEF Permit
  <2>2. CASE q = r
    <3>1. exec[<<q, s, m>>] \notin {"granted", "live"}
      BY <2>1, <2>2 DEF PendingHeld
    <3> QED
      BY <1>1, <1>2, <1>3, <2>1, <2>2, <3>1
  <2>3. CASE q # r
    BY <1>1, <1>2, <1>3, <2>1, <2>3 DEF PendingHeld
  <2> QED
    BY <2>2, <2>3
<1>4. \A q \in Request : claim'[q].status = "none" => ~claim'[q].pending
  BY <1>1 DEF PendingHeld
<1> QED
  BY <1>3, <1>4 DEF PendingHeld

\* A step that starts no turn and ends only turns the server need not await.
LEMMA PendingKept ==
    ASSUME PendingHeld,
           \A q \in Team, rt \in Runtime, n \in Attempt :
              exec'[<<q, rt, n>>] \in {"granted", "live"} =>
                  /\ exec[<<q, rt, n>>] \in {"granted", "live"}
                  /\ claim'[q].runtime = claim[q].runtime
                  /\ claim'[q].attempt = claim[q].attempt
                  /\ claim'[q].pending = claim[q].pending,
           \A q \in Request : claim'[q].status = "none" /\ claim'[q].pending =>
                  claim[q].status = "none" /\ claim[q].pending
    PROVE  PendingHeld'
BY DEF PendingHeld

LEMMA PendingStep == TypeOK /\ PendingHeld /\ [Next]_vars => PendingHeld'
<1> SUFFICES ASSUME TypeOK, PendingHeld, [Next]_vars
             PROVE  PendingHeld'
  OBVIOUS
<1> DEFINE Same(q) == /\ claim'[q].runtime = claim[q].runtime
                      /\ claim'[q].attempt = claim[q].attempt
                      /\ claim'[q].pending = claim[q].pending
                      /\ claim'[q].status = "none" => claim[q].status = "none"
<1>t. Team \subseteq Request
  BY ConstantsAssumption
<1>a. ASSUME UNCHANGED exec, \A q \in Request : Same(q)
      PROVE  PendingHeld'
  BY <1>a, <1>t, PendingKept
<1>c. \A q \in Request : claim[q] \in Claim
  BY DEF TypeOK
<1>e. ASSUME NEW q \in Request
      PROVE  /\ Ended(claim[q]).runtime = claim[q].runtime
             /\ Ended(claim[q]).attempt = claim[q].attempt
             /\ Ended(claim[q]).pending = claim[q].pending
             /\ Ended(claim[q]).status = "paused"
  BY <1>c DEF Ended, Claim
<1>1. ASSUME NEW r \in Request, NEW rt \in Runtime, ClaimFresh(r, rt) \/ Reclaim(r, rt)
      PROVE  PendingHeld'
  <2>1. CASE ClaimFresh(r, rt)
    <3>1. 1 \in Attempt
      BY Limits DEF Attempt
    <3> QED
      BY <2>1, <3>1, PendingGrant DEF ClaimFresh
  <2>2. CASE Reclaim(r, rt)
    <3>1. claim[r].attempt \in 0 .. MaxAttempts /\ claim[r].attempt < MaxAttempts
      BY <1>c, <2>2 DEF Reclaim, Claim
    <3>2. claim[r].attempt + 1 \in Attempt
      BY <3>1, Limits DEF Attempt
    <3> QED
      BY <2>2, <3>2, PendingGrant DEF Reclaim
  <2> QED
    BY <1>1, <2>1, <2>2
<1>2. ASSUME NEW r \in Request, NEW rt \in Runtime, Abandon(r, rt)
      PROVE  PendingHeld'
  <2>1. \A q \in Request : Same(q)
    BY <1>c, <1>2 DEF Abandon, Claim, TypeOK
  <2> QED
    BY <1>a, <1>2, <2>1 DEF Abandon
<1>3. ASSUME NEW r \in Request, NEW rt \in Runtime, NEW n \in Attempt, Progress(r, rt, n)
      PROVE  PendingHeld'
  <2>1. \A q \in Request : Same(q)
    BY <1>c, <1>3 DEF Progress, Claim, TypeOK
  <2> QED
    BY <1>a, <1>3, <2>1 DEF Progress, Publish
<1>4. ASSUME NEW r \in Request, NEW rt \in Runtime, NEW n \in Attempt,
             Complete(r, rt, n) \/ AckStopped(r, rt, n)
      PROVE  PendingHeld'
  <2>1. /\ claim'[r].runtime = claim[r].runtime /\ claim'[r].attempt = claim[r].attempt
        /\ claim'[r].pending = FALSE
        /\ \A q \in Request \ {r} : claim'[q] = claim[q]
        /\ UNCHANGED exec
        /\ claim[r].runtime = rt /\ claim[r].attempt = n
        /\ r \in Team => exec[<<r, rt, n>>] = "stopped"
    BY <1>4, <1>c DEF Complete, AckStopped, Publish, CurrentAttempt, Returned, Claim, TypeOK
  <2>2. \A s \in Runtime, m \in Attempt : r \in Team => exec[<<r, s, m>>] \notin {"granted", "live"}
    BY <2>1 DEF PendingHeld
  <2>3. \A q \in Request : claim'[q].status = "none" /\ claim'[q].pending =>
             claim[q].status = "none" /\ claim[q].pending
    BY <2>1
  <2> QED
    BY <1>t, <2>1, <2>2, <2>3, PendingKept
<1>5. ASSUME NEW r \in Request, PauseClaim(r) \/ RetireStep(r)
      PROVE  PendingHeld'
  <2>1. \A q \in Request : claim'[q] = IF q = r THEN Ended(claim[r]) ELSE claim[q]
    BY <1>5 DEF PauseClaim, RetireStep, TypeOK
  <2>2. UNCHANGED exec
    BY <1>5 DEF PauseClaim, RetireStep
  <2> QED
    BY <1>a, <1>e, <2>1, <2>2
<1>6. ASSUME NEW r \in Request, StubClaim(r)
      PROVE  PendingHeld'
  <2>1. /\ claim'[r].status = "claimed" /\ claim'[r].pending = FALSE
        /\ \A q \in Request \ {r} : claim'[q] = claim[q]
        /\ UNCHANGED exec /\ claim[r].status = "none"
    BY <1>6 DEF StubClaim, NoClaim, TypeOK
  <2>2. \A s \in Runtime, m \in Attempt : r \in Team => exec[<<r, s, m>>] \notin {"granted", "live"}
    BY <2>1 DEF PendingHeld
  <2> QED
    BY <1>t, <2>1, <2>2, PendingKept
<1>7. ASSUME (\E g \in Run : RevokeRun(g) \/ ForgetRun(g)) \/ Hide
      PROVE  PendingHeld'
  <2>1. \A q \in Request : claim'[q] \in {claim[q], Ended(claim[q])}
    BY <1>7 DEF RevokeRun, ForgetRun, CleanedUp, Hide
  <2>2. UNCHANGED exec
    BY <1>7 DEF RevokeRun, ForgetRun, CleanedUp, Hide
  <2> QED
    BY <1>a, <1>e, <2>1, <2>2
<1>8. CASE Tick
  <2>1. \A q \in Request : Same(q)
    BY <1>8, <1>c DEF Tick, Claim
  <2> QED
    BY <1>8, <1>a, <2>1 DEF Tick
<1>9. ASSUME NEW goneChats, NEW gone, Erase(goneChats, gone)
      PROVE  PendingHeld'
  <2>1. \A q \in Request : claim'[q] \in {claim[q], Ended(claim[q]),
                                           [claim[q] EXCEPT !.status = "paused"]}
    BY <1>9 DEF Erase, CleanedUp
  <2>2. \A q \in Request : Same(q)
    BY <1>c, <1>e, <2>1 DEF Claim
  <2> QED
    BY <1>a, <1>9, <2>2 DEF Erase
<1>10. ASSUME NEW t \in Permit, Start(t) \/ Stop(t)
       PROVE  PendingHeld'
  <2>1. /\ UNCHANGED claim
        /\ exec[t] \in {"granted", "live"}
        /\ \A u \in Permit \ {t} : exec'[u] = exec[u]
    BY <1>10 DEF Start, Stop, TypeOK
  <2>2. \A q \in Team, rt \in Runtime, n \in Attempt : <<q, rt, n>> \in Permit
    BY <1>t DEF Permit
  <2> QED
    BY <2>1, <2>2, PendingKept
<1>11. ASSUME UNCHANGED <<claim, exec>>
       PROVE  PendingHeld'
  BY <1>11, <1>a
<1>12. CASE UNCHANGED vars
  BY <1>11, <1>12 DEF vars
<1>13. CASE Next
  BY <1>1, <1>2, <1>3, <1>4, <1>5, <1>6, <1>7, <1>8, <1>9, <1>10, <1>11, <1>13
     DEF Next, Chat, Ask, Dispatch, PostRequest, Pause, PauseStep, Tool, Publish, HaltRun,
         ResumeRun, Register, GoStale, RevokeDevice, Show, EraseChat, EraseRequest,
         EraseAnswer
<1> QED
  BY <1>12, <1>13

\* The server answers for every Team turn it handed out until its exit.
THEOREM TeamTurnIsAwaited == Spec => []PendingHeld
<1>1. Init => TypeOK /\ PendingHeld
  <2>1. Init => PendingHeld
    <3> SUFFICES ASSUME Init PROVE PendingHeld
      OBVIOUS
    <3>1. \A q \in Team, rt \in Runtime, n \in Attempt : <<q, rt, n>> \in Permit
      BY ConstantsAssumption DEF Permit
    <3> QED
      BY <3>1 DEF Init, InitWith, PendingHeld, NoClaim
  <2> QED
    BY <2>1, TypeInit
<1>2. TypeOK /\ PendingHeld /\ [Next]_vars => (TypeOK /\ PendingHeld)'
  BY TypeStep, PendingStep
<1> QED
  BY <1>1, <1>2, PTL DEF Spec

\* Only a grant gives a runtime an attempt, and it needs the runtime's slot.
LEMMA OnlyGrants ==
    ASSUME TypeOK, [Next]_vars, NEW r \in Request, NEW rt \in Runtime, NEW n \in Attempt,
           exec[<<r, rt, n>>] = "none", exec'[<<r, rt, n>>] = "granted"
    PROVE  SlotFree(r, rt)
<1>1. ASSUME NEW q \in Request, NEW s \in Runtime, NEW m, Grant(q, s, m), SlotFree(q, s)
      PROVE  SlotFree(r, rt)
  <2>1. <<r, rt, n>> \in Permit
    BY DEF Permit
  <2>2. <<q, s, m>> = <<r, rt, n>>
    BY <1>1, <2>1 DEF Grant, TypeOK
  <2>3. q = r /\ s = rt
    BY <2>2
  <2> QED
    BY <1>1, <2>3
<1>2. ASSUME NEW q \in Request, NEW s \in Runtime, ClaimFresh(q, s) \/ Reclaim(q, s)
      PROVE  SlotFree(r, rt)
  BY <1>1, <1>2 DEF ClaimFresh, Reclaim
<1>3. ASSUME UNCHANGED exec
      PROVE  SlotFree(r, rt)
  BY <1>3
<1>4. ASSUME NEW t \in Permit, Start(t) \/ Stop(t)
      PROVE  SlotFree(r, rt)
  BY <1>4 DEF Start, Stop, Permit, TypeOK
<1>5. ASSUME NEW goneChats, NEW gone, Erase(goneChats, gone)
      PROVE  UNCHANGED exec
  BY <1>5 DEF Erase
<1>6. CASE UNCHANGED vars
  BY <1>3, <1>6 DEF vars
<1>7. ASSUME NEW q \in Request, NEW s \in Runtime, NEW m \in Attempt,
             \/ Abandon(q, s) \/ Progress(q, s, m) \/ Tool(q, s, m) \/ Complete(q, s, m)
             \/ AckStopped(q, s, m) \/ PauseClaim(q) \/ StubClaim(q) \/ RetireStep(q)
      PROVE  UNCHANGED exec
  BY <1>7 DEF Abandon, Progress, Tool, Complete, AckStopped, Publish, PauseClaim, StubClaim,
              RetireStep
<1>8. ASSUME NEW g \in Run, HaltRun(g) \/ RevokeRun(g) \/ ResumeRun(g) \/ ForgetRun(g)
      PROVE  UNCHANGED exec
  BY <1>8 DEF HaltRun, RevokeRun, ResumeRun, ForgetRun
<1>9. ASSUME NEW q \in Request, Ask(q) \/ Dispatch(q)
      PROVE  UNCHANGED exec
  BY <1>9 DEF Ask, Dispatch, PostRequest
<1>10. ASSUME Next
       PROVE  \/ \E q \in Request, s \in Runtime : ClaimFresh(q, s) \/ Reclaim(q, s)
              \/ \E t \in Permit : Start(t) \/ Stop(t)
              \/ UNCHANGED exec
  <2>1. Attempt # {}
    BY Limits DEF Attempt
  <2> QED
    BY <1>5, <1>7, <1>8, <1>9, <1>10, <2>1
       DEF Next, Chat, Pause, PauseStep, Register, GoStale, RevokeDevice, Hide, Show, Tick,
           EraseChat, EraseRequest, EraseAnswer
<1> QED
  BY <1>2, <1>3, <1>4, <1>6, <1>10

\* No request is handed to a runtime over a Team turn that may still run there.
THEOREM TeamTurnKeepsItsRuntime == Spec => NoGrantOverTeamTurn
<1>1. TypeOK /\ PendingHeld /\ [Next]_vars =>
         [\A r \in Request, rt \in Runtime, n \in Attempt :
             exec[<<r, rt, n>>] = "none" /\ exec'[<<r, rt, n>>] = "granted" =>
                 \A q \in Team \ {r}, m \in Attempt :
                     exec[<<q, rt, m>>] \notin {"granted", "live"}]_vars
  <2> SUFFICES ASSUME TypeOK, PendingHeld, [Next]_vars,
                      NEW r \in Request, NEW rt \in Runtime, NEW n \in Attempt,
                      exec[<<r, rt, n>>] = "none", exec'[<<r, rt, n>>] = "granted",
                      NEW q \in Team \ {r}, NEW m \in Attempt
               PROVE  exec[<<q, rt, m>>] \notin {"granted", "live"}
    OBVIOUS
  <2>1. SlotFree(r, rt)
    BY OnlyGrants
  <2>2. q \in Request \ {r}
    BY ConstantsAssumption
  <2>3. ~(claim[q].runtime = rt /\ claim[q].pending)
    BY <2>1, <2>2 DEF SlotFree, Occupies
  <2> QED
    BY <2>3 DEF PendingHeld
<1> QED
  BY <1>1, TypeCorrect, TeamTurnIsAwaited, PTL DEF Spec, NoGrantOverTeamTurn
=============================================================================
