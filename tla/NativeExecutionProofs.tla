----------------------- MODULE NativeExecutionProofs -----------------------
(***************************************************************************)
(* Theorems about NativeExecution, for any sessions, requests and bounds:  *)
(* the journal tells the truth, no request runs twice, no hold ends before *)
(* its process, holds stay within their capacity, and no confirmed exit is *)
(* forgotten before the server has heard of it.                            *)
(***************************************************************************)
EXTENDS NativeExecution, TLAPS, FiniteSetTheorems

USE DEF Closing

ConnType ==
    [at : {"down", "idle", "forward", "forwarded", "flush", "noted", "claim", "granted",
           "returned"} \cup Bookkeeping \cup Owning \cup Closing,
     s : Session \cup {NoSession}, r : Request \cup {NoRequest}, x : Request \cup {NoRequest},
     for : {"none", "startup", "work", "end", "again"}, prev : SUBSET Request]

LEMMA GotoFields ==
    ASSUME TypeOK, NEW p, Goto(p)
    PROVE  /\ conn'.at = p /\ conn'.s = conn.s /\ conn'.r = conn.r /\ conn'.x = conn.x
           /\ conn'.for = conn.for /\ conn'.prev = conn.prev
BY DEF TypeOK, Goto

LEMMA GotoType ==
    ASSUME TypeOK, NEW p \in {"down", "idle", "forward", "forwarded", "flush", "noted", "claim",
               "granted", "returned"} \cup Bookkeeping \cup Owning \cup Closing, Goto(p)
    PROVE  conn' \in ConnType
BY DEF TypeOK, Goto, ConnType

LEMMA MoveFields ==
    ASSUME TypeOK, NEW p, NEW q, conn' = [conn EXCEPT !.at = p, !.x = q]
    PROVE  /\ conn'.at = p /\ conn'.s = conn.s /\ conn'.r = conn.r /\ conn'.x = q
           /\ conn'.for = conn.for /\ conn'.prev = conn.prev
           /\ p \in {"forward", "forwarded", "sent", "flush"} /\ q \in Request \cup {NoRequest}
              => conn' \in ConnType
BY DEF TypeOK, ConnType, Bookkeeping, Owning

LEMMA RestTypes ==
    /\ Down \in ConnType /\ Idle \in ConnType
    /\ Down.at = "down" /\ Down.for = "none" /\ Idle.at = "idle" /\ Idle.for = "none"
BY DEF Down, Idle, ConnType, Bookkeeping, Owning

LEMMA ThrowFields ==
    ASSUME TypeOK, Throw
    PROVE  /\ conn' \in ConnType /\ conn'.at \in {"down", "idle"} /\ conn'.for = "none"
           /\ scanned' \subseteq Session
BY RestTypes DEF TypeOK, Throw

\* A receipt is answered by the server, or the operation ends.
LEMMA SendEffect ==
    ASSUME TypeOK, SendReceipt
    PROVE  /\ conn.at \in {"forward", "flush"}
           /\ conn' \in ConnType /\ scanned' \subseteq Session
           /\ crashes' = crashes /\ faults' \in 0 .. MaxFaults
           /\ \/ conn'.at \in {"down", "idle"} /\ conn'.for = "none"
              \/ /\ conn'.at = IF conn.at = "forward" THEN "forwarded" ELSE "sent"
                 /\ conn'.x \in Outgoing /\ conn'.s = conn.s
                 /\ conn'.x \notin pending' \cup holds'
                 /\ conn'.r = conn.r /\ conn'.for = conn.for /\ conn'.prev = conn.prev
           /\ pending' \subseteq pending /\ holds' \subseteq holds
           /\ \A q \in Request : Held(q) => Held(q)' \/ q \in Outgoing
<1>1. PICK r \in Outgoing :
         \/ /\ Acknowledge(r)
            /\ conn' = [conn EXCEPT !.at = IF At("forward") THEN "forwarded" ELSE "sent", !.x = r]
            /\ UNCHANGED <<scanned, bounds>>
         \/ Acknowledge(r) /\ Lost /\ Throw
         \/ UNCHANGED <<pending, holds>> /\ Lost /\ Throw
  BY DEF SendReceipt
<1>2. r \in Request
  BY DEF Outgoing, Of
<1>3. CASE /\ Acknowledge(r)
           /\ conn' = [conn EXCEPT !.at = IF At("forward") THEN "forwarded" ELSE "sent", !.x = r]
           /\ UNCHANGED <<scanned, bounds>>
  <2> DEFINE p == IF At("forward") THEN "forwarded" ELSE "sent"
  <2>1. conn' = [conn EXCEPT !.at = p, !.x = r]
    BY <1>3
  <2>2. /\ conn'.at = p /\ conn'.s = conn.s /\ conn'.r = conn.r /\ conn'.x = r
        /\ conn'.for = conn.for /\ conn'.prev = conn.prev /\ conn' \in ConnType
    BY <1>2, <2>1, MoveFields
  <2>3. /\ scanned' \subseteq Session /\ crashes' = crashes /\ faults' \in 0 .. MaxFaults
    BY <1>3 DEF TypeOK, bounds
  <2>4. /\ pending' \subseteq pending /\ holds' \subseteq holds
        /\ \A q \in Request : Held(q) => Held(q)' \/ q = r
        /\ r \notin pending' \cup holds'
    BY <1>3 DEF Acknowledge, Held
  <2>5. conn.at \in {"forward", "flush"}
    BY DEF SendReceipt
  <2>6. p = IF conn.at = "forward" THEN "forwarded" ELSE "sent"
    BY DEF At
  <2> QED
    BY <2>2, <2>3, <2>4, <2>5, <2>6
<1>4. CASE (Acknowledge(r) \/ UNCHANGED <<pending, holds>>) /\ Lost /\ Throw
  <2>1. /\ conn' \in ConnType /\ conn'.at \in {"down", "idle"} /\ conn'.for = "none"
        /\ scanned' \subseteq Session
    BY <1>4, ThrowFields
  <2>2. /\ crashes' = crashes /\ faults' \in 0 .. MaxFaults
    BY <1>4, NativeAssumption DEF TypeOK, Lost
  <2>3. /\ pending' \subseteq pending /\ holds' \subseteq holds
        /\ \A q \in Request : Held(q) => Held(q)' \/ q = r
    BY <1>4 DEF Acknowledge, Held
  <2>4. conn.at \in {"forward", "flush"}
    BY DEF SendReceipt
  <2> QED
    BY <2>1, <2>2, <2>3, <2>4
<1> QED
  BY <1>1, <1>3, <1>4

LEMMA DropEffect ==
    ASSUME TypeOK, DropReceipt
    PROVE  /\ conn.at \in {"forwarded", "noted"} /\ receipts' = receipts \ {conn.x}
           /\ conn' \in ConnType
           /\ conn'.at = IF conn.at = "forwarded" THEN "forward" ELSE "flush"
           /\ conn'.x = NoRequest /\ conn'.s = conn.s /\ conn'.r = conn.r
           /\ conn'.for = conn.for /\ conn'.prev = conn.prev
<1> DEFINE p == IF At("forwarded") THEN "forward" ELSE "flush"
<1>1. conn' = [conn EXCEPT !.at = p, !.x = NoRequest]
  BY DEF DropReceipt
<1>2. /\ conn'.at = p /\ conn'.s = conn.s /\ conn'.r = conn.r /\ conn'.x = NoRequest
      /\ conn'.for = conn.for /\ conn'.prev = conn.prev /\ conn' \in ConnType
  BY <1>1, MoveFields
<1> QED
  BY <1>2 DEF DropReceipt, At

LEMMA PushEffect ==
    ASSUME TypeOK, PushReceipt
    PROVE  /\ conn.at \in Closing /\ receipts' = receipts \cup {conn.r}
           /\ conn' \in ConnType /\ conn'.at = "flush" /\ conn'.for \in {"end", "again"}
           /\ conn'.s = conn.s /\ conn'.r = conn.r /\ conn'.x = conn.x
<1>1. conn' = [conn EXCEPT !.at = "flush", !.for = IF At("receipt") THEN "end" ELSE "again"]
  BY DEF PushReceipt
<1>2. conn \in ConnType
  BY DEF TypeOK, ConnType
<1> QED
  BY <1>1, <1>2 DEF PushReceipt, At, ConnType
LEMMA TypeStep ==
    ASSUME TypeOK, WhereItIs, [Next]_vars
    PROVE  TypeOK'
<1>1. ASSUME NEW r \in Request, ClaimEnds(r) PROVE TypeOK'
  BY <1>1 DEF TypeOK, ClaimEnds, diskVars, nativeVars, bounds
<1>2. ASSUME NEW s \in Session, DeleteSession(s) PROVE TypeOK'
  BY <1>2 DEF TypeOK, DeleteSession, Of, diskVars, nativeVars, bounds
<1>3. ASSUME NEW s \in Session, Scan(s) PROVE TypeOK'
  BY <1>3 DEF TypeOK, Owning, Scan, Recover, serverVars, diskVars, nativeVars, bounds
<1>4. ASSUME NEW r \in Request, Face(r) PROVE TypeOK'
  BY <1>4, NativeAssumption
     DEF TypeOK, Owning, Face, Recover, serverVars, diskVars, nativeVars, bounds
<1>5. CASE SendReceipt
  BY <1>5, SendEffect DEF TypeOK, ConnType, Owning, SendReceipt, diskVars, nativeVars
<1>6. CASE NoteExit
  BY <1>6, GotoFields, GotoType, ThrowFields
     DEF TypeOK, ConnType, Owning, NoteExit, serverVars, nativeVars, bounds
<1>7. CASE DropReceipt
  BY <1>7 DEF TypeOK, Owning, DropReceipt, serverVars, nativeVars, bounds
<1>8. CASE Forwarded
  BY <1>8, GotoFields, GotoType
     DEF TypeOK, ConnType, Bookkeeping, Owning, Forwarded, serverVars, nativeVars, bounds
<1>9. CASE Collect
  BY <1>9, GotoFields, GotoType, ThrowFields
     DEF TypeOK, ConnType, Owning, Collect, Stopped, Of, serverVars, nativeVars, bounds
<1>10. CASE Flushed
  BY <1>10, GotoFields, GotoType, RestTypes
     DEF TypeOK, WhereItIs, ConnType, Owning, Flushed, At, Of, serverVars, nativeVars,
     bounds
<1>11. CASE Claim
  BY <1>11, NativeAssumption, GotoFields, GotoType, ThrowFields, RestTypes
     DEF TypeOK, WhereItIs, AtWork, ConnType, Bookkeeping, Owning, Claim, At, Grant,
     Refuse, Lost, nativeVars, bounds
<1>12. CASE Dismiss
  BY <1>12, ThrowFields, RestTypes
     DEF TypeOK, WhereItIs, AtWork, ConnType, Owning, Dismiss, At, Prune, serverVars,
     nativeVars, bounds
<1>13. CASE Unprepared
  BY <1>13, NativeAssumption, ThrowFields
     DEF TypeOK, ConnType, Owning, Unprepared, Lost, serverVars, diskVars, nativeVars,
     bounds
<1>14. CASE Acquire
  BY <1>14, GotoFields, GotoType, ThrowFields
     DEF TypeOK, WhereItIs, ConnType, Owning, Acquire, At, serverVars, nativeVars, bounds
<1>15. CASE Execute
  BY <1>15, GotoFields, GotoType, ThrowFields
     DEF TypeOK, ConnType, Owning, Execute, At, Unlocked, serverVars, nativeVars, bounds
<1>16. CASE Spawn
  BY <1>16, GotoFields, GotoType
     DEF TypeOK, ConnType, Owning, Spawn, At, serverVars, diskVars, bounds
<1>17. CASE Started
  BY <1>17 DEF TypeOK, Started, serverVars, nativeVars, bounds
<1>18. ASSUME NEW r \in Request, Exit(r) PROVE TypeOK'
  BY <1>18 DEF TypeOK, Exit, serverVars, diskVars, bounds
<1>19. CASE Settle
  BY <1>19, GotoFields, GotoType
     DEF TypeOK, WhereItIs, ConnType, Owning, Settle, Unlocked, serverVars, nativeVars,
     bounds
<1>20. CASE GiveUp
  BY <1>20, NativeAssumption, ThrowFields
     DEF TypeOK, ConnType, Owning, GiveUp, Lost, Unlocked, serverVars, nativeVars
<1>21. CASE Publish
  BY <1>21, NativeAssumption, GotoFields, GotoType
     DEF TypeOK, ConnType, Bookkeeping, Owning, Publish, Lost, diskVars, nativeVars,
     bounds
<1>22. CASE PruneAnswered
  BY <1>22, GotoFields, GotoType
     DEF TypeOK, ConnType, Owning, PruneAnswered, Prune, serverVars, nativeVars, bounds
<1>23. CASE PushReceipt
  BY <1>23, PushEffect
     DEF TypeOK, WhereItIs, AtWork, Owning, PushReceipt, serverVars, nativeVars, bounds
<1>24. CASE Crash
  BY <1>24, NativeAssumption, RestTypes
     DEF TypeOK, WhereItIs, ConnType, Bookkeeping, Owning, Crash, serverVars, nativeVars
<1>25. CASE Start
  BY <1>25, RestTypes
     DEF TypeOK, ConnType, Owning, Start, serverVars, diskVars, nativeVars, bounds
<1>26. ASSUME NEW s \in Session, Repair(s) PROVE TypeOK'
  BY <1>26 DEF TypeOK, Owning, Repair, At, serverVars, nativeVars, bounds
<1>27. CASE UNCHANGED vars
  BY <1>27 DEF TypeOK, vars, serverVars, diskVars, nativeVars, bounds
<1> QED
  BY <1>1, <1>2, <1>3, <1>4, <1>5, <1>6, <1>7, <1>8, <1>9, <1>10, <1>11, <1>12, <1>13,
     <1>14, <1>15, <1>16, <1>17, <1>18, <1>19, <1>20, <1>21, <1>22, <1>23, <1>24,
     <1>25, <1>26, <1>27
     DEF Next, Working

LEMMA WhereStep ==
    ASSUME TypeOK, WhereItIs, [Next]_vars
    PROVE  WhereItIs'
<1>1. ASSUME NEW r \in Request, ClaimEnds(r) PROVE WhereItIs'
  BY <1>1 DEF WhereItIs, ClaimEnds
<1>2. ASSUME NEW s \in Session, DeleteSession(s) PROVE WhereItIs'
  BY <1>2 DEF WhereItIs, DeleteSession
<1>3. ASSUME NEW s \in Session, Scan(s) PROVE WhereItIs'
  BY <1>3 DEF WhereItIs, AtWork, Owning, Scan, Recover
<1>4. ASSUME NEW r \in Request, Face(r) PROVE WhereItIs'
  BY <1>4, NativeAssumption DEF WhereItIs, Face, Recover
<1>5. CASE SendReceipt
  BY <1>5, SendEffect DEF WhereItIs, AtWork, Owning
<1>6. CASE NoteExit
  BY <1>6, GotoFields, ThrowFields DEF WhereItIs, AtWork, Owning, NoteExit, At
<1>7. CASE DropReceipt
  BY <1>7, DropEffect DEF WhereItIs, AtWork, Owning
<1>8. CASE Forwarded
  BY <1>8, GotoFields DEF WhereItIs, AtWork, Owning, Forwarded, At
<1>9. CASE Collect
  BY <1>9, GotoFields, ThrowFields DEF WhereItIs, AtWork, Owning, Collect, At
<1>10. CASE Flushed
  BY <1>10, NativeAssumption, GotoFields, RestTypes
     DEF WhereItIs, AtWork, Owning, Flushed
<1>11. CASE Claim
  BY <1>11, GotoFields, ThrowFields, RestTypes
     DEF WhereItIs, AtWork, Owning, Claim, At, Refuse
<1>12. CASE Dismiss
  BY <1>12, ThrowFields, RestTypes DEF WhereItIs, AtWork, Owning, Dismiss
<1>13. CASE Unprepared
  BY <1>13, ThrowFields DEF WhereItIs, AtWork, Owning, Unprepared
<1>14. CASE Acquire
  BY <1>14, GotoFields, ThrowFields DEF WhereItIs, AtWork, Owning, Acquire, At
<1>15. CASE Execute
  BY <1>15, GotoFields, ThrowFields DEF WhereItIs, AtWork, Owning, Execute, At
<1>16. CASE Spawn
  BY <1>16, GotoFields DEF TypeOK, WhereItIs, AtWork, Bookkeeping, Spawn, At
<1>17. CASE Started
  BY <1>17 DEF WhereItIs, Started
<1>18. ASSUME NEW r \in Request, Exit(r) PROVE WhereItIs'
  BY <1>18 DEF WhereItIs, Exit
<1>19. CASE Settle
  BY <1>19, GotoFields DEF TypeOK, WhereItIs, AtWork, Bookkeeping, Settle, At
<1>20. CASE GiveUp
  BY <1>20, ThrowFields DEF WhereItIs, AtWork, Owning, GiveUp
<1>21. CASE Publish
  BY <1>21, GotoFields DEF WhereItIs, AtWork, Publish, At
<1>22. CASE PruneAnswered
  BY <1>22, GotoFields DEF WhereItIs, AtWork, PruneAnswered, At
<1>23. CASE PushReceipt
  BY <1>23, PushEffect DEF WhereItIs, AtWork, Owning
<1>24. CASE Crash
  BY <1>24, RestTypes DEF WhereItIs, AtWork, Owning, Crash
<1>25. CASE Start
  BY <1>25, RestTypes DEF WhereItIs, AtWork, Owning, Start
<1>26. ASSUME NEW s \in Session, Repair(s) PROVE WhereItIs'
  BY <1>26 DEF WhereItIs, Repair
<1>27. CASE UNCHANGED vars
  BY <1>27 DEF WhereItIs, vars
<1> QED
  BY <1>1, <1>2, <1>3, <1>4, <1>5, <1>6, <1>7, <1>8, <1>9, <1>10, <1>11, <1>12, <1>13,
     <1>14, <1>15, <1>16, <1>17, <1>18, <1>19, <1>20, <1>21, <1>22, <1>23, <1>24,
     <1>25, <1>26, <1>27
     DEF Next, Working

LEMMA ExitsStep ==
    ASSUME TypeOK, WhereItIs, ExitsAreReal, OneProcess, [Next]_vars
    PROVE  ExitsAreReal'
<1>1. ASSUME NEW r \in Request, ClaimEnds(r) PROVE ExitsAreReal'
  BY <1>1 DEF ExitsAreReal, ClaimEnds, diskVars, nativeVars
<1>2. ASSUME NEW s \in Session, DeleteSession(s) PROVE ExitsAreReal'
  BY <1>2 DEF ExitsAreReal, DeleteSession, diskVars, nativeVars
<1>3. ASSUME NEW s \in Session, Scan(s) PROVE ExitsAreReal'
  BY <1>3 DEF ExitsAreReal, Scan, Recover, diskVars, nativeVars
<1>4. ASSUME NEW r \in Request, Face(r) PROVE ExitsAreReal'
  BY <1>4 DEF ExitsAreReal, Face, Recover, diskVars, nativeVars
<1>5. CASE SendReceipt
  BY <1>5, SendEffect
     DEF TypeOK, ExitsAreReal, SendReceipt, Outgoing, diskVars, nativeVars
<1>6. CASE NoteExit
  BY <1>6, GotoFields, ThrowFields DEF TypeOK, ExitsAreReal, NoteExit, At, nativeVars
<1>7. CASE DropReceipt
  BY <1>7 DEF ExitsAreReal, DropReceipt, nativeVars
<1>8. CASE Forwarded
  BY <1>8, GotoFields DEF ExitsAreReal, Forwarded, Settled, nativeVars
<1>9. CASE Collect
  BY <1>9, GotoFields, ThrowFields
     DEF ExitsAreReal, Collect, Stopped, Settled, nativeVars
<1>10. CASE Flushed
  BY <1>10, GotoFields, RestTypes DEF ExitsAreReal, Flushed, nativeVars
<1>11. CASE Claim
  BY <1>11, GotoFields, ThrowFields, RestTypes
     DEF ExitsAreReal, Claim, Refuse, nativeVars
<1>12. CASE Dismiss
  BY <1>12, ThrowFields, RestTypes DEF ExitsAreReal, Dismiss, Prune, nativeVars
<1>13. CASE Unprepared
  BY <1>13, ThrowFields DEF ExitsAreReal, Unprepared, diskVars, nativeVars
<1>14. CASE Acquire
  BY <1>14, GotoFields, ThrowFields DEF ExitsAreReal, Acquire, nativeVars
<1>15. CASE Execute
  BY <1>15, GotoFields, ThrowFields
     DEF TypeOK, WhereItIs, AtWork, Bookkeeping, ExitsAreReal, Execute, At, nativeVars
<1>16. CASE Spawn
  <2>1. /\ conn.r \in Request /\ proc[conn.r] = "none" /\ conn'.at = "running" /\ proc[conn.r] # "exited"
    BY <1>16, GotoFields DEF Spawn, At, WhereItIs, AtWork, Owning, OneProcess
  <2>2. /\ journal' = journal /\ receipts' = receipts
        /\ \A r \in Request : r # conn.r => proc'[r] = proc[r]
    BY <1>16 DEF Spawn, diskVars, TypeOK
  <2> QED
    BY <2>1, <2>2 DEF ExitsAreReal
<1>17. CASE Started
  BY <1>17 DEF ExitsAreReal, Started, nativeVars
<1>18. ASSUME NEW r \in Request, Exit(r) PROVE ExitsAreReal'
  BY <1>18 DEF ExitsAreReal, Exit, diskVars
<1>19. CASE Settle
  BY <1>19, GotoFields DEF ExitsAreReal, Settle, Confirmed, nativeVars
<1>20. CASE GiveUp
  BY <1>20, ThrowFields DEF ExitsAreReal, GiveUp, nativeVars
<1>21. CASE Publish
  BY <1>21, GotoFields DEF ExitsAreReal, Publish, At, diskVars, nativeVars
<1>22. CASE PruneAnswered
  BY <1>22, GotoFields, GotoType, ThrowFields
     DEF ExitsAreReal, PruneAnswered, At, Prune, nativeVars
<1>23. CASE PushReceipt
  BY <1>23, PushEffect DEF ExitsAreReal, PushReceipt, nativeVars
<1>24. CASE Crash
  BY <1>24, RestTypes DEF ExitsAreReal, Crash, nativeVars
<1>25. CASE Start
  BY <1>25, RestTypes DEF ExitsAreReal, Start, diskVars, nativeVars
<1>26. ASSUME NEW s \in Session, Repair(s) PROVE ExitsAreReal'
  BY <1>26 DEF ExitsAreReal, Repair, nativeVars
<1>27. CASE UNCHANGED vars
  BY <1>27 DEF ExitsAreReal, vars, diskVars, nativeVars
<1> QED
  BY <1>1, <1>2, <1>3, <1>4, <1>5, <1>6, <1>7, <1>8, <1>9, <1>10, <1>11, <1>12, <1>13,
     <1>14, <1>15, <1>16, <1>17, <1>18, <1>19, <1>20, <1>21, <1>22, <1>23, <1>24,
     <1>25, <1>26, <1>27
     DEF Next, Working

LEMMA ProcessStep ==
    ASSUME TypeOK, WhereItIs, ExitsAreReal, OneProcess, [Next]_vars
    PROVE  OneProcess'
<1>1. ASSUME NEW r \in Request, ClaimEnds(r) PROVE OneProcess'
  BY <1>1
     DEF TypeOK, WhereItIs, AtWork, OneProcess, RunOnce, ClaimEnds, diskVars, nativeVars
<1>2. ASSUME NEW s \in Session, DeleteSession(s) PROVE OneProcess'
  BY <1>2 DEF OneProcess, RunOnce, DeleteSession, diskVars, nativeVars
<1>3. ASSUME NEW s \in Session, Scan(s) PROVE OneProcess'
  BY <1>3
     DEF AtWork, Owning, OneProcess, RunOnce, Scan, Recover, serverVars, diskVars,
     nativeVars
<1>4. ASSUME NEW r \in Request, Face(r) PROVE OneProcess'
  BY <1>4
     DEF AtWork, Owning, OneProcess, RunOnce, Face, Recover, serverVars, diskVars,
     nativeVars
<1>5. CASE SendReceipt
  BY <1>5, SendEffect
     DEF AtWork, Owning, OneProcess, RunOnce, SendReceipt, diskVars, nativeVars
<1>6. CASE NoteExit
  BY <1>6, GotoFields, ThrowFields
     DEF TypeOK, AtWork, Owning, OneProcess, RunOnce, NoteExit, serverVars, nativeVars
<1>7. CASE DropReceipt
  BY <1>7 DEF AtWork, Owning, OneProcess, RunOnce, DropReceipt, serverVars, nativeVars
<1>8. CASE Forwarded
  BY <1>8, GotoFields
     DEF AtWork, Owning, OneProcess, RunOnce, Forwarded, Settled, serverVars, nativeVars
<1>9. CASE Collect
  BY <1>9, GotoFields, ThrowFields
     DEF AtWork, Owning, OneProcess, RunOnce, Collect, serverVars, nativeVars
<1>10. CASE Flushed
  BY <1>10, GotoFields, RestTypes
     DEF AtWork, Owning, OneProcess, RunOnce, Flushed, serverVars, nativeVars
<1>11. CASE Claim
  BY <1>11, GotoFields, ThrowFields, RestTypes
     DEF TypeOK, WhereItIs, AtWork, Owning, OneProcess, RunOnce, Claim, At, Grant,
     Refuse, nativeVars
<1>12. CASE Dismiss
  BY <1>12, ThrowFields, RestTypes
     DEF AtWork, Owning, OneProcess, RunOnce, Dismiss, At, Prune, serverVars, nativeVars
<1>13. CASE Unprepared
  BY <1>13, ThrowFields
     DEF AtWork, Owning, OneProcess, RunOnce, Unprepared, serverVars, diskVars,
     nativeVars
<1>14. CASE Acquire
  BY <1>14, GotoFields, ThrowFields
     DEF TypeOK, WhereItIs, AtWork, Owning, OneProcess, RunOnce, Acquire, At, serverVars,
     nativeVars
<1>15. CASE Execute
  <2>1. conn.at = "owned" /\ conn.r \in Request
    BY <1>15 DEF Execute, At, WhereItIs, AtWork, Owning
  <2>2. CASE Admit(conn.r) /\ journal' = [journal EXCEPT ![conn.r] = "prepared"] /\ Goto("prepared")
    <3>1. /\ conn'.at = "prepared" /\ conn'.r = conn.r /\ journal[conn.r] = "none"
          /\ proc[conn.r] = "none" /\ claim[conn.r] # "none" /\ journal'[conn.r] = "prepared"
      BY <2>1, <2>2, GotoFields DEF Admit, OneProcess, AtWork, Owning, TypeOK
    <3>2. \A q \in Request \ {conn.r} : journal'[q] = journal[q]
      BY <2>2
    <3>3. claim' = claim /\ proc' = proc /\ spawned' = spawned
      BY <1>15 DEF Execute, serverVars, nativeVars
    <3> QED
      BY <3>1, <3>2, <3>3 DEF OneProcess, RunOnce
  <2>3. CASE UNCHANGED journal /\ (Goto("returned") \/ Throw)
    <3>1. /\ conn'.at \in {"returned", "down", "idle"} /\ claim[conn.r] # "none"
          /\ conn'.at = "returned" => conn'.r = conn.r
      BY <2>1, <2>3, GotoFields, ThrowFields DEF OneProcess, AtWork, Owning
    <3>2. claim' = claim /\ proc' = proc /\ spawned' = spawned /\ journal' = journal
      BY <1>15, <2>3 DEF Execute, serverVars, nativeVars
    <3> QED
      BY <3>1, <3>2 DEF OneProcess, RunOnce, AtWork, Owning
  <2> QED
    BY <1>15, <2>2, <2>3 DEF Execute
<1>16. CASE Spawn
  <2>1. /\ conn.r \in Request /\ proc[conn.r] = "none" /\ spawned[conn.r] = 0
        /\ conn'.at = "running" /\ conn'.r = conn.r /\ claim[conn.r] # "none"
    BY <1>16, GotoFields DEF Spawn, At, WhereItIs, AtWork, Owning, OneProcess
  <2>2. journal[conn.r] # "none"
    BY <1>16 DEF Spawn, At, OneProcess
  <2>3. /\ claim' = claim /\ journal' = journal
        /\ \A r \in Request \ {conn.r} : proc'[r] = proc[r] /\ spawned'[r] = spawned[r]
        /\ proc'[conn.r] # "none" /\ spawned'[conn.r] <= 1
    BY <1>16, <2>1 DEF Spawn, diskVars, serverVars, TypeOK
  <2> QED
    BY <2>1, <2>2, <2>3 DEF OneProcess, RunOnce
<1>17. CASE Started
  BY <1>17 DEF OneProcess, RunOnce, Started, serverVars, nativeVars
<1>18. ASSUME NEW r \in Request, Exit(r) PROVE OneProcess'
  BY <1>18 DEF OneProcess, RunOnce, Exit, serverVars, diskVars
<1>19. CASE Settle
  BY <1>19, GotoFields
     DEF TypeOK, AtWork, Bookkeeping, OneProcess, RunOnce, Settle, At, serverVars,
     nativeVars
<1>20. CASE GiveUp
  BY <1>20, ThrowFields
     DEF AtWork, Owning, OneProcess, RunOnce, GiveUp, serverVars, nativeVars
<1>21. CASE Publish
  BY <1>21, GotoFields
     DEF TypeOK, WhereItIs, AtWork, OneProcess, RunOnce, Publish, At, diskVars,
     nativeVars
<1>22. CASE PruneAnswered
  BY <1>22, GotoFields
     DEF OneProcess, RunOnce, PruneAnswered, At, Prune, serverVars, nativeVars
<1>23. CASE PushReceipt
  BY <1>23, PushEffect
     DEF AtWork, OneProcess, RunOnce, PushReceipt, serverVars, nativeVars
<1>24. CASE Crash
  BY <1>24, RestTypes
     DEF AtWork, Owning, OneProcess, RunOnce, Crash, serverVars, nativeVars
<1>25. CASE Start
  BY <1>25, RestTypes
     DEF AtWork, Owning, OneProcess, RunOnce, Start, serverVars, diskVars, nativeVars
<1>26. ASSUME NEW s \in Session, Repair(s) PROVE OneProcess'
  BY <1>26 DEF OneProcess, RunOnce, Repair, serverVars, nativeVars
<1>27. CASE UNCHANGED vars
  BY <1>27 DEF OneProcess, RunOnce, vars, serverVars, diskVars, nativeVars
<1> QED
  BY <1>1, <1>2, <1>3, <1>4, <1>5, <1>6, <1>7, <1>8, <1>9, <1>10, <1>11, <1>12, <1>13,
     <1>14, <1>15, <1>16, <1>17, <1>18, <1>19, <1>20, <1>21, <1>22, <1>23, <1>24,
     <1>25, <1>26, <1>27
     DEF Next, Working

-----------------------------------------------------------------------------
(* The journal.                                                            *)

LEMMA InitTrue == ASSUME Init PROVE JournalTrue
<1>1. TypeOK
  BY RestTypes, NativeAssumption DEF Init, TypeOK, ConnType, Owning, Bookkeeping
<1>2. WhereItIs /\ ExitsAreReal /\ OneProcess
  BY RestTypes DEF Init, WhereItIs, ExitsAreReal, OneProcess, RunOnce, AtWork, Owning
<1> QED
  BY <1>1, <1>2 DEF JournalTrue

\* The journal tells the truth about the processes whatever call is lost and
\* wherever the connector dies, and no request of a Team is executed twice
\* (process-execution-state.ts, native-stop-receipts.ts). JournalTrue is
\* inductive: where an exit is settled, answered for or reported depends on
\* where the connector is in its operation, and that on what was granted.
THEOREM JournalCorrect == Spec => []JournalTrue
<1>1. Init => JournalTrue
  BY InitTrue
<1>2. JournalTrue /\ [Next]_vars => JournalTrue'
  <2> SUFFICES ASSUME TypeOK, WhereItIs, ExitsAreReal, OneProcess, [Next]_vars
               PROVE  JournalTrue'
    BY DEF JournalTrue
  <2> QED
    BY TypeStep, WhereStep, ExitsStep, ProcessStep DEF JournalTrue
<1> QED
  BY <1>1, <1>2, PTL DEF Spec

-----------------------------------------------------------------------------
(* Holds.                                                                  *)

LEMMA HoldsUntouched ==
    ASSUME \/ \E r \in Request : ClaimEnds(r) \/ Face(r) \/ Exit(r)
           \/ \E s \in Session : Scan(s) \/ Repair(s)
           \/ NoteExit \/ DropReceipt \/ Forwarded \/ Collect \/ Flushed \/ Dismiss
           \/ Unprepared \/ Acquire \/ Execute \/ Spawn \/ Started \/ Settle \/ GiveUp
           \/ PruneAnswered \/ PushReceipt \/ Crash \/ Start \/ UNCHANGED vars
    PROVE  UNCHANGED <<pending, holds>>
BY DEF vars, serverVars, ClaimEnds, Face, Recover, Exit, Scan, Repair, NoteExit, DropReceipt,
   Forwarded, Collect, Flushed, Dismiss, Unprepared, Acquire, Execute, Spawn, Started, Settle,
   GiveUp, PruneAnswered, PushReceipt, Crash, Start

\* What a step may do to the set of holds: nothing, grant one request while
\* there is room, or end the hold of a request whose process has exited.
LEMMA HoldStep ==
    ASSUME JournalTrue, [Next]_vars
    PROVE  /\ \A r \in Request : Held(r) /\ ~Held(r)' => proc[r] = "exited"
           /\ \/ (pending \cup holds)' \subseteq pending \cup holds
              \/ /\ ~CapacityFull
                 /\ \E r \in Request : (pending \cup holds)' \subseteq (pending \cup holds) \cup {r}
<1> DEFINE Goal == /\ \A r \in Request : Held(r) /\ ~Held(r)' => proc[r] = "exited"
                   /\ \/ (pending \cup holds)' \subseteq pending \cup holds
                      \/ /\ ~CapacityFull
                         /\ \E r \in Request :
                               (pending \cup holds)' \subseteq (pending \cup holds) \cup {r}
<1> USE DEF JournalTrue
<1>1. CASE SendReceipt
  BY <1>1, SendEffect DEF Outgoing, Of, ExitsAreReal
<1>2. CASE Publish
  <2>1. proc[conn.r] = "exited"
    BY <1>2 DEF Publish, At, ExitsAreReal
  <2> QED
    BY <1>2, <2>1 DEF Publish, Held
<1>3. ASSUME NEW s \in Session, DeleteSession(s) PROVE Goal
  BY <1>3 DEF DeleteSession, Held
<1>4. CASE Claim
  <2>1. CASE Grant(conn.r) /\ UNCHANGED holds
    <3>1. conn.r \in Request
      BY <1>4 DEF Claim, At, WhereItIs, AtWork
    <3> QED
      BY <2>1, <3>1 DEF Grant, Held
  <2>2. CASE UNCHANGED <<pending, holds>>
    BY <2>2 DEF Held
  <2> QED
    BY <1>4, <2>1, <2>2 DEF Claim, Refuse
<1>5. CASE UNCHANGED <<pending, holds>>
  BY <1>5 DEF Held
<1> QED
  BY <1>1, <1>2, <1>3, <1>4, <1>5, HoldsUntouched DEF Next, Working

\* No hold ends before the exit of its process is real: not by the end of the
\* claim, a restart, a lost answer or the deletion of the session
\* (acknowledgeAgentExecutionStopped, agent_native_exit_holds).
THEOREM HoldsLast == Spec => HoldUntilExit
<1>1. JournalTrue /\ [Next]_vars => [\A r \in Request : Held(r) /\ ~Held(r)' => proc[r] = "exited"]_vars
  BY HoldStep
<1> QED
  BY <1>1, JournalCorrect, PTL DEF Spec, HoldUntilExit

\* Live and detached holds never exceed the capacity of their account, however
\* many sessions were deleted under running processes (nativeHoldCapacityFull).
THEOREM CapacityKept == Spec => []WithinCapacity
<1> DEFINE H == pending \cup holds
<1>1. Init => WithinCapacity
  BY FS_EmptySet, NativeAssumption DEF Init, WithinCapacity
<1>2. JournalTrue /\ WithinCapacity /\ [Next]_vars => WithinCapacity'
  <2> SUFFICES ASSUME JournalTrue, WithinCapacity, [Next]_vars
               PROVE  WithinCapacity'
    OBVIOUS
  <2>1. H \subseteq Request /\ IsFiniteSet(H) /\ Cardinality(H) \in Nat
    BY NativeAssumption, FS_Subset, FS_CardinalityType DEF JournalTrue, TypeOK
  <2>2. CASE H' \subseteq H
    BY <2>1, <2>2, FS_Subset, FS_CardinalityType, NativeAssumption DEF WithinCapacity
  <2>3. ASSUME ~CapacityFull, NEW r \in Request, H' \subseteq H \cup {r}
        PROVE  WithinCapacity'
    <3>1. IsFiniteSet(H \cup {r}) /\ Cardinality(H \cup {r}) <= Cardinality(H) + 1
      BY <2>1, FS_AddElement
    <3>2. Cardinality(H') <= Cardinality(H \cup {r}) /\ Cardinality(H \cup {r}) \in Nat
          /\ Cardinality(H') \in Nat
      BY <2>3, <3>1, FS_Subset, FS_CardinalityType
    <3> QED
      BY <2>1, <2>3, <3>1, <3>2, NativeAssumption DEF CapacityFull, WithinCapacity
  <2> QED
    BY <2>2, <2>3, HoldStep
<1> QED
  BY <1>1, <1>2, JournalCorrect, PTL DEF Spec
-----------------------------------------------------------------------------
(* Evidence.                                                               *)

\* The server heard of every exit the journal needs no receipt for.
Reported == \A r \in Request : journal[r] = "reported" => ~Held(r)

Living == \A r \in Request : proc[r] = "alive" => journal[r] \in {"prepared", "started"}

\* The server heard before local evidence goes.
Heard ==
    /\ conn.at \in {"sent", "noted", "forwarded"} => ~Held(conn.x)
    /\ conn.at = "published" => ~Held(conn.r)

\* A receipt found at the start of the recovery is still there, or was answered.
Carried ==
    conn.at \in {"forward", "forwarded"} => \A r \in conn.prev : r \in Outgoing \/ ~Held(r)

\* Whatever is settled was collected and flushed before a claim is made.
Collected ==
    /\ conn.at \in {"flush", "sent", "noted"} /\ conn.for = "work" =>
         \A r \in Of(conn.s) : Settled(r) => r \in receipts \/ ~Held(r)
    /\ conn.at \in {"claim", "dismissed"} => \A r \in Of(conn.s) : Settled(r) => ~Held(r)

IInv == JournalTrue /\ EvidenceKept /\ Reported /\ Living /\ Heard /\ Carried /\ Collected

LEMMA JournalMoves ==
    ASSUME TypeOK, WhereItIs, [Next]_vars, NEW r \in Request
    PROVE  \/ journal'[r] = journal[r]
           \/ /\ journal[r] = "settled" /\ journal'[r] = "reported"
              /\ \/ NoteExit /\ r = conn.x
                 \/ Forwarded /\ r \in conn.prev
           \/ /\ journal[r] \in {"settled", "reported"} /\ journal'[r] = "none"
              /\ (Dismiss \/ PruneAnswered) /\ r = conn.r
           \/ Execute /\ journal[r] = "none" /\ journal'[r] = "prepared"
           \/ Started /\ journal[r] = "prepared" /\ journal'[r] = "started"
           \/ Settle /\ r = conn.r /\ journal'[r] = "settled"
<1>1. CASE UNCHANGED journal
  BY <1>1
<1>2. CASE NoteExit
  BY <1>2 DEF NoteExit, TypeOK
<1>3. CASE Forwarded
  BY <1>3 DEF Forwarded, TypeOK, Settled
<1>4. CASE Dismiss
  BY <1>4 DEF Dismiss, Prune, TypeOK
<1>5. CASE PruneAnswered
  BY <1>5 DEF PruneAnswered, Prune, TypeOK
<1>6. CASE Execute
  BY <1>6 DEF Execute, Admit, TypeOK
<1>7. CASE Started
  BY <1>7 DEF Started, TypeOK
<1>8. CASE Settle
  BY <1>8 DEF Settle, TypeOK
<1>9. ASSUME \/ \E q \in Request : ClaimEnds(q) \/ Face(q) \/ Exit(q)
             \/ \E s \in Session : DeleteSession(s) \/ Scan(s) \/ Repair(s)
             \/ SendReceipt \/ DropReceipt \/ Collect \/ Flushed \/ Claim \/ Unprepared
             \/ Acquire \/ Spawn \/ GiveUp \/ Publish \/ PushReceipt \/ Crash \/ Start
             \/ UNCHANGED vars
      PROVE  UNCHANGED journal
  BY <1>9
     DEF vars, diskVars, ClaimEnds, Face, Recover, Exit, DeleteSession, Scan, Repair,
     SendReceipt, DropReceipt, Collect, Flushed, Claim, Unprepared, Acquire, Spawn, GiveUp,
     Publish, PushReceipt, Crash, Start
<1> QED
  BY <1>1, <1>2, <1>3, <1>4, <1>5, <1>6, <1>7, <1>8, <1>9 DEF Next, Working

\* Only an answered receipt leaves the cursor file.
LEMMA ReceiptsStay ==
    ASSUME TypeOK, [Next]_vars
    PROVE  receipts \subseteq receipts' \/ DropReceipt
<1>1. CASE UNCHANGED receipts \/ Collect \/ PushReceipt
  BY <1>1 DEF Collect, PushReceipt
<1>2. ASSUME \/ \E q \in Request : ClaimEnds(q) \/ Face(q) \/ Exit(q)
             \/ \E s \in Session : DeleteSession(s) \/ Scan(s) \/ Repair(s)
             \/ SendReceipt \/ NoteExit \/ Forwarded \/ Flushed \/ Claim \/ Dismiss
             \/ Unprepared \/ Acquire \/ Execute \/ Spawn \/ Started \/ Settle \/ GiveUp
             \/ Publish \/ PruneAnswered \/ Crash \/ Start \/ UNCHANGED vars
      PROVE  UNCHANGED receipts
  BY <1>2
     DEF vars, diskVars, ClaimEnds, Face, Recover, Exit, DeleteSession, Scan, Repair,
     SendReceipt, NoteExit, Forwarded, Flushed, Claim, Dismiss, Unprepared, Acquire, Execute,
     Spawn, Started, Settle, GiveUp, Publish, PruneAnswered, Crash, Start
<1> QED
  BY <1>1, <1>2 DEF Next, Working

LEMMA ProcessMoves ==
    ASSUME TypeOK, WhereItIs, [Next]_vars, NEW r \in Request
    PROVE  \/ proc'[r] = proc[r]
           \/ proc[r] = "alive" /\ proc'[r] = "exited" /\ journal' = journal
           \/ Spawn /\ r = conn.r /\ journal' = journal
<1>1. ASSUME NEW q \in Request, Exit(q)
      PROVE  proc'[r] = proc[r] \/ (proc[r] = "alive" /\ proc'[r] = "exited" /\ journal' = journal)
  BY <1>1 DEF Exit, TypeOK, diskVars
<1>2. CASE Spawn
  BY <1>2 DEF Spawn, TypeOK, diskVars
<1>3. ASSUME \/ \E q \in Request : ClaimEnds(q) \/ Face(q)
             \/ \E s \in Session : DeleteSession(s) \/ Scan(s) \/ Repair(s)
             \/ SendReceipt \/ NoteExit \/ DropReceipt \/ Forwarded \/ Collect \/ Flushed
             \/ Claim \/ Dismiss \/ Unprepared \/ Acquire \/ Execute \/ Started \/ Settle
             \/ GiveUp \/ Publish \/ PruneAnswered \/ PushReceipt \/ Crash \/ Start
             \/ UNCHANGED vars
      PROVE  UNCHANGED proc
  BY <1>3 DEF vars, nativeVars, ClaimEnds, Face, Recover, DeleteSession, Scan, Repair,
     SendReceipt, NoteExit, DropReceipt, Forwarded, Collect, Flushed, Claim, Dismiss,
     Unprepared, Acquire, Execute, Started, Settle, GiveUp, Publish, PruneAnswered,
     PushReceipt, Crash, Start
<1> QED
  BY <1>1, <1>2, <1>3 DEF Next, Working

\* Only a first grant makes a hold.
LEMMA NoNewHold ==
    ASSUME JournalTrue, [Next]_vars, NEW r \in Request, ~Held(r),
           claim[r] # "none" \/ conn.at # "claim"
    PROVE  ~Held(r)'
<1>1. CASE SendReceipt
  BY <1>1, SendEffect DEF JournalTrue, Held
<1>2. CASE Publish
  BY <1>2 DEF Publish, Held
<1>3. ASSUME NEW s \in Session, DeleteSession(s) PROVE ~Held(r)'
  BY <1>3 DEF DeleteSession, Held
<1>4. CASE Claim
  BY <1>4 DEF Claim, At, Grant, Refuse, Held
<1>5. CASE UNCHANGED <<pending, holds>>
  BY <1>5 DEF Held
<1> QED
  BY <1>1, <1>2, <1>3, <1>4, <1>5, HoldsUntouched DEF Next, Working

LEMMA ReportedStep ==
    ASSUME IInv, [Next]_vars
    PROVE  Reported'
<1> SUFFICES ASSUME NEW r \in Request, journal'[r] = "reported"
             PROVE  ~Held(r)'
  BY DEF Reported
<1>1. journal[r] # "none" => claim[r] # "none"
  BY DEF IInv, JournalTrue, OneProcess
<1>2. CASE journal[r] = "reported"
  BY <1>1, <1>2, NoNewHold DEF IInv, Reported
<1>3. CASE journal[r] = "settled" /\ NoteExit /\ r = conn.x
  BY <1>1, <1>3, NoNewHold DEF IInv, NoteExit, At, Heard
<1>4. CASE journal[r] = "settled" /\ Forwarded /\ r \in conn.prev
  BY <1>1, <1>4, NoNewHold DEF IInv, Forwarded, At, Carried
<1> QED
  BY <1>2, <1>3, <1>4, JournalMoves DEF IInv, JournalTrue

LEMMA LivingStep ==
    ASSUME IInv, [Next]_vars
    PROVE  Living'
<1> SUFFICES ASSUME NEW r \in Request, proc'[r] = "alive"
             PROVE  journal'[r] \in {"prepared", "started"}
  BY DEF Living
<1>1. CASE Spawn /\ r = conn.r /\ journal' = journal
  BY <1>1 DEF Spawn, At, IInv, JournalTrue, OneProcess
<1>2. CASE proc[r] = "alive"
  <2>1. journal[r] \in {"prepared", "started"}
    BY <1>2 DEF IInv, Living
  <2>2. ~(Settle /\ r = conn.r)
    BY <1>2, <2>1 DEF Settle, Confirmed
  <2> QED
    BY <2>1, <2>2, JournalMoves DEF IInv, JournalTrue
<1> QED
  BY <1>1, <1>2, ProcessMoves DEF IInv, JournalTrue

LEMMA EvidenceStep ==
    ASSUME IInv, [Next]_vars
    PROVE  EvidenceKept'
<1> SUFFICES ASSUME NEW r \in Request, Held(r)', proc'[r] = "exited",
                    journal'[r] \notin {"prepared", "started"}
             PROVE  r \in receipts' \/ journal'[r] = "settled"
  BY DEF EvidenceKept, Settled
<1>1. proc[r] # "none" \/ journal[r] # "none" => claim[r] # "none"
  BY DEF IInv, JournalTrue, OneProcess
<1>2. CASE journal'[r] # journal[r]
  <2>1. CASE journal'[r] = "reported"
    BY <2>1, ReportedStep DEF Reported
  <2>2. CASE Dismiss /\ r = conn.r /\ journal[r] \in {"settled", "reported"}
    <3>1. r \in Of(conn.s)
      BY <2>2 DEF Dismiss, At, IInv, JournalTrue, WhereItIs, AtWork, Of
    <3>2. ~Held(r)
      BY <2>2, <3>1 DEF Dismiss, At, IInv, Collected, Reported, Settled
    <3> QED
      BY <1>1, <2>2, <3>2, NoNewHold DEF IInv
  <2>3. CASE PruneAnswered /\ r = conn.r /\ journal[r] \in {"settled", "reported"}
    <3>1. ~Held(r)
      BY <2>3 DEF PruneAnswered, At, IInv, Heard
    <3> QED
      BY <1>1, <2>3, <3>1, NoNewHold DEF IInv
  <2> QED
    BY <1>2, <2>1, <2>2, <2>3, JournalMoves DEF IInv, JournalTrue
<1>3. CASE journal'[r] = journal[r]
  <2>1. proc[r] = "exited"
    <3>1. ~(proc[r] = "alive")
      BY <1>3 DEF IInv, Living
    <3>2. ~(Spawn /\ r = conn.r)
      BY <1>3 DEF Spawn, At, IInv, JournalTrue, OneProcess
    <3> QED
      BY <3>1, <3>2, ProcessMoves DEF IInv, JournalTrue
  <2>2. Held(r)
    BY <1>1, <2>1, NoNewHold DEF IInv
  <2>3. r \in receipts \/ journal[r] = "settled"
    BY <1>3, <2>1, <2>2 DEF IInv, EvidenceKept, Settled
  <2>4. CASE DropReceipt /\ r \notin receipts'
    <3>1. r \in receipts => r = conn.x
      BY <2>4 DEF DropReceipt
    <3>2. r # conn.x
      BY <2>2, <2>4 DEF DropReceipt, IInv, Heard
    <3> QED
      BY <1>3, <2>3, <3>1, <3>2
  <2> QED
    BY <1>3, <2>3, <2>4, ReceiptsStay DEF IInv, JournalTrue
<1> QED
  BY <1>2, <1>3

\* How the connector comes to where evidence is at stake.
LEMMA Arrives ==
    ASSUME TypeOK, WhereItIs, [Next]_vars, conn' # conn
    PROVE  /\ conn'.at \in {"sent", "forwarded"} => SendReceipt
           /\ conn'.at = "noted" => NoteExit /\ conn'.x = conn.x
           /\ conn'.at = "published" => Publish /\ conn'.r \notin (pending \cup holds)'
           /\ conn'.at = "forward" =>
                \/ conn'.prev \subseteq receipts \cap Of(conn'.s) /\ UNCHANGED <<receipts, pending, holds>>
                \/ DropReceipt
           /\ conn'.at = "flush" /\ conn'.for = "work" => Collect \/ DropReceipt
           /\ conn'.at = "claim" => Flushed
           /\ conn'.at = "dismissed" => Claim
           /\ conn'.at \in {"noted", "flush", "claim", "dismissed"} => conn'.s = conn.s
<1> DEFINE Goal ==
           /\ conn'.at \in {"sent", "forwarded"} => SendReceipt
           /\ conn'.at = "noted" => NoteExit /\ conn'.x = conn.x
           /\ conn'.at = "published" => Publish /\ conn'.r \notin (pending \cup holds)'
           /\ conn'.at = "forward" =>
                \/ conn'.prev \subseteq receipts \cap Of(conn'.s) /\ UNCHANGED <<receipts, pending, holds>>
                \/ DropReceipt
           /\ conn'.at = "flush" /\ conn'.for = "work" => Collect \/ DropReceipt
           /\ conn'.at = "claim" => Flushed
           /\ conn'.at = "dismissed" => Claim
           /\ conn'.at \in {"noted", "flush", "claim", "dismissed"} => conn'.s = conn.s
<1>1. CASE Throw \/ conn' \in {Down, Idle}
  BY <1>1, ThrowFields, RestTypes
<1>2. ASSUME NEW p \in {"collect", "owned", "prepared", "running", "granted", "returned"}
                      \cup Closing, Goto(p)
      PROVE  Goal
  BY <1>2, GotoFields
<1>3. CASE SendReceipt
  BY <1>3, SendEffect
<1>4. CASE DropReceipt
  BY <1>4, DropEffect
<1>5. ASSUME NEW s \in Session, Scan(s) PROVE Goal
  BY <1>5 DEF Scan, Recover, serverVars, diskVars
<1>6. ASSUME NEW r \in Request, Face(r) PROVE Goal
  BY <1>6 DEF Face, Recover, serverVars, diskVars
<1>7. CASE NoteExit /\ Goto("noted")
  BY <1>7, GotoFields
<1>8. CASE Collect /\ Goto("flush")
  BY <1>8, GotoFields
<1>9. CASE Flushed /\ Goto("claim")
  BY <1>9, GotoFields
<1>10. CASE Claim /\ Goto("dismissed")
  BY <1>10, GotoFields
<1>11. CASE Publish /\ Goto("published") /\ conn'.r \notin (pending \cup holds)'
  BY <1>11, GotoFields
<1>12. CASE PushReceipt
  BY <1>12 DEF PushReceipt, TypeOK
<1>13. CASE Publish
  <2>1. CASE Goto("published")
    <3>1. conn.s \notin deleted /\ pending' = pending \ {conn.r} /\ holds' = holds
      BY <1>13, <2>1, GotoFields DEF Publish, Goto
    <3>2. conn.r \notin holds
      BY <1>13, <3>1 DEF Publish, At, TypeOK, WhereItIs, AtWork
    <3> QED
      BY <1>11, <1>13, <2>1, <3>1, <3>2, GotoFields
  <2> QED
    BY <1>2, <1>13, <2>1 DEF Publish
<1>14. ASSUME \/ \E r \in Request : ClaimEnds(r) \/ Exit(r)
              \/ \E s \in Session : DeleteSession(s) \/ Repair(s)
              \/ Started \/ UNCHANGED vars
       PROVE  conn' = conn
  BY <1>14 DEF vars, ClaimEnds, Exit, DeleteSession, Repair, Started
<1>15. CASE \/ NoteExit \/ Forwarded \/ Collect \/ Flushed \/ Claim \/ Dismiss \/ Unprepared
            \/ Acquire \/ Execute \/ Spawn \/ Settle \/ GiveUp \/ PruneAnswered \/ Crash \/ Start
  BY <1>1, <1>2, <1>7, <1>8, <1>9, <1>10, <1>15
     DEF NoteExit, Forwarded, Collect, Flushed, Claim,
     Refuse, Dismiss, Unprepared, Acquire, Execute, Spawn, Settle, GiveUp, PruneAnswered, Crash, Start
<1> QED
  BY <1>3, <1>4, <1>5, <1>6, <1>12, <1>13, <1>14, <1>15 DEF Next, Working

LEMMA HeardStep ==
    ASSUME IInv, [Next]_vars
    PROVE  Heard'
<1>1. ASSUME conn'.at \in {"sent", "noted", "forwarded"} PROVE conn'.x \notin (pending \cup holds)'
  <2>1. CASE SendReceipt /\ conn' # conn
    BY <1>1, <2>1, SendEffect DEF IInv, JournalTrue
  <2>2. CASE conn.at \in {"sent", "noted", "forwarded"} /\ conn'.x = conn.x
    <3>1. conn.x \in Request /\ claim[conn.x] # "none" /\ ~Held(conn.x)
      BY <2>2 DEF IInv, JournalTrue, ExitsAreReal, OneProcess, Heard
    <3> QED
      BY <2>2, <3>1, NoNewHold DEF IInv, Held
  <2> QED
    BY <1>1, <2>1, <2>2, Arrives DEF IInv, JournalTrue, NoteExit, At
<1>2. ASSUME conn'.at = "published" PROVE conn'.r \notin (pending \cup holds)'
  <2>1. CASE conn' = conn
    <3>1. conn.r \in Request /\ claim[conn.r] # "none" /\ ~Held(conn.r)
      BY <1>2, <2>1 DEF IInv, JournalTrue, WhereItIs, AtWork, OneProcess, Heard
    <3> QED
      BY <2>1, <3>1, NoNewHold DEF IInv, Held
  <2> QED
    BY <1>2, <2>1, Arrives DEF IInv, JournalTrue
<1> QED
  BY <1>1, <1>2 DEF Heard, Held

LEMMA CarriedStep ==
    ASSUME IInv, [Next]_vars
    PROVE  Carried'
<1> SUFFICES ASSUME conn'.at \in {"forward", "forwarded"}, NEW r \in conn'.prev
             PROVE  r \in (receipts \cap Of(conn.s))' \/ r \notin (pending \cup holds)'
  BY DEF Carried, Held, Outgoing
<1>1. CASE conn'.prev \subseteq receipts \cap Of(conn'.s) /\ UNCHANGED receipts
  BY <1>1 DEF Of
<1>2. CASE conn.at \in {"forward", "forwarded"} /\ conn'.s = conn.s /\ conn'.prev = conn.prev
  <2>1. r \in Request /\ (r \in Outgoing \/ ~Held(r))
    BY <1>2 DEF IInv, JournalTrue, TypeOK, Carried
  <2>2. ~Held(r) => r \notin (pending \cup holds)'
    BY <1>2, <2>1, NoNewHold DEF IInv, Held
  <2>3. DropReceipt /\ r = conn.x => ~Held(r)
    BY <1>2 DEF DropReceipt, IInv, Heard
  <2>4. r \in receipts /\ ~(DropReceipt /\ r = conn.x) => r \in receipts'
    BY ReceiptsStay DEF IInv, JournalTrue, DropReceipt
  <2> QED
    BY <1>2, <2>1, <2>2, <2>3, <2>4 DEF Outgoing, Of
<1> QED
  BY <1>1, <1>2, Arrives, SendEffect, DropEffect DEF IInv, JournalTrue

LEMMA CollectedStep ==
    ASSUME IInv, [Next]_vars
    PROVE  Collected'
<1> SUFFICES ASSUME NEW r \in Of(conn'.s), journal'[r] = "settled"
             PROVE  /\ conn'.at \in {"flush", "sent", "noted"} /\ conn'.for = "work" =>
                         r \in receipts' \/ ~Held(r)'
                    /\ conn'.at \in {"claim", "dismissed"} => ~Held(r)'
  BY DEF Collected, Of, Settled
<1>1. conn.at # "running" => journal[r] = "settled"
  BY JournalMoves DEF Of, IInv, JournalTrue, Settle, At
<1>2. CASE conn.at \in {"flush", "sent", "noted"} /\ conn.for = "work" /\ conn'.s = conn.s
  <2>1. r \in Request /\ (r \in receipts \/ ~Held(r))
    BY <1>1, <1>2 DEF IInv, Collected, Of, Settled
  <2>2. ~Held(r) => ~Held(r)'
    BY <1>2, <2>1, NoNewHold DEF IInv
  <2>3. DropReceipt /\ r = conn.x => ~Held(r)
    BY <1>2 DEF DropReceipt, IInv, Heard
  <2>4. r \in receipts /\ ~(DropReceipt /\ r = conn.x) => r \in receipts'
    BY ReceiptsStay DEF IInv, JournalTrue, DropReceipt
  <2>5. r \in receipts' \/ ~Held(r)'
    BY <2>1, <2>2, <2>3, <2>4
  <2>6. CASE conn'.at \in {"claim", "dismissed"}
    <3>1. Outgoing = {} /\ Flushed
      BY <1>2, <2>6, Arrives DEF IInv, JournalTrue, Flushed, Claim, At
    <3> QED
      BY <1>2, <2>1, <2>2, <2>6, <3>1 DEF Outgoing, Of
  <2> QED
    BY <2>5, <2>6
<1>3. CASE conn.at \in {"claim", "dismissed"} /\ conn'.s = conn.s
  <2>1. r \in Request /\ ~Held(r) /\ claim[r] # "none"
    BY <1>1, <1>3 DEF IInv, JournalTrue, OneProcess, Collected, Of, Settled
  <2> QED
    BY <2>1, NoNewHold DEF IInv
<1>4. CASE Collect
  <2>1. journal' = journal /\ conn'.at \notin {"sent", "noted", "claim", "dismissed"}
    BY <1>4, GotoFields, ThrowFields DEF Collect, diskVars, IInv, JournalTrue
  <2>2. CASE conn.s \notin owner
    <3>1. receipts' = receipts \cup Stopped(conn.s) /\ conn'.s = conn.s
      BY <1>4, <2>2, GotoFields DEF Collect, IInv, JournalTrue
    <3>2. r \in Stopped(conn.s)
      BY <2>1, <3>1 DEF Stopped, Settled, Of
    <3> QED
      BY <2>1, <3>1, <3>2
  <2>3. CASE conn.s \in owner
    BY <1>4, <2>3, ThrowFields DEF Collect, IInv, JournalTrue
  <2> QED
    BY <1>4, <2>2, <2>3 DEF Collect
<1>5. CASE conn'.at \notin {"flush", "sent", "noted", "claim", "dismissed"}
  BY <1>5
<1> QED
  <2>1. CASE conn' = conn
    BY <1>2, <1>3, <1>5, <2>1
  <2>2. CASE SendReceipt
    BY <1>2, <1>5, <2>2, SendEffect DEF IInv, JournalTrue
  <2>3. CASE DropReceipt
    BY <1>2, <1>5, <2>3, DropEffect DEF IInv, JournalTrue
  <2>4. CASE NoteExit /\ conn'.at = "noted"
    BY <1>2, <2>4, GotoFields, ThrowFields DEF NoteExit, At, IInv, JournalTrue
  <2>5. CASE Flushed /\ conn'.at = "claim"
    BY <1>2, <2>5, GotoFields, RestTypes DEF Flushed, At, IInv, JournalTrue
  <2>6. CASE Claim /\ conn'.at = "dismissed"
    BY <1>3, <2>6, Arrives DEF Claim, At, IInv, JournalTrue
  <2> QED
    BY <1>4, <1>5, <2>1, <2>2, <2>3, <2>4, <2>5, <2>6, Arrives DEF IInv, JournalTrue

\* The exit of a held attempt, once confirmed, is never forgotten on disk until
\* the server heard of it: the journal or the cursor file still knows it through
\* lost calls, crashes, uncertain journals and replays. IInv says where the
\* connector may drop evidence, and that the server heard before it gets there.
THEOREM EvidenceCorrect == Spec => []EvidenceKept
<1>1. Init => IInv
  <2> SUFFICES ASSUME Init PROVE IInv
    OBVIOUS
  <2>1. EvidenceKept /\ Reported /\ Living /\ Heard /\ Carried /\ Collected
    BY RestTypes
       DEF Init, EvidenceKept, Reported, Living, Heard, Carried, Collected, Held
  <2> QED
    BY <2>1, InitTrue DEF IInv
<1>2. IInv /\ [Next]_vars => IInv'
  <2> SUFFICES ASSUME IInv, [Next]_vars PROVE IInv'
    OBVIOUS
  <2>1. JournalTrue'
    BY TypeStep, WhereStep, ExitsStep, ProcessStep DEF IInv, JournalTrue
  <2> QED
    BY <2>1, EvidenceStep, ReportedStep, LivingStep, HeardStep, CarriedStep,
       CollectedStep
       DEF IInv
<1>3. IInv => EvidenceKept
  BY DEF IInv
<1> QED
  BY <1>1, <1>2, <1>3, PTL DEF Spec
=============================================================================
