-------------------------- MODULE RequestContract --------------------------
(***************************************************************************)
(* What the server promises about each agent_request, without leases,      *)
(* slots, revisions, membership or Team runs: it is assigned to one holder *)
(* at a time under a token that grows with every assignment, only the      *)
(* current holder is heard, under its current token, and once the request  *)
(* is closed no runtime is assigned to it or heard on it again.            *)
(***************************************************************************)
EXTENDS Integers

CONSTANTS Request, Holder, NoHolder, Limit

VARIABLES
    clock,      \* position of the newest entry in the session's log
    phase,      \* "new", "open", "held" or "closed"
    holder,     \* the holder of the current or last assignment
    token,      \* number of assignments so far
    heard       \* what the holders said: set of [seq, by, token]

vars == <<clock, phase, holder, token, heard>>

Init ==
    /\ clock \in Nat
    /\ phase = [r \in Request |-> "new"]
    /\ holder = [r \in Request |-> NoHolder]
    /\ token = [r \in Request |-> 0]
    /\ heard = [r \in Request |-> {}]

Post(r) ==
    /\ phase[r] = "new"
    /\ phase' = [phase EXCEPT ![r] = "open"]
    /\ UNCHANGED <<holder, token, heard>>

\* To the first holder, or away from one that fell silent.
Assign(r, h) ==
    /\ phase[r] \in {"open", "held"} /\ token[r] < Limit
    /\ token' = [token EXCEPT ![r] = @ + 1]
    /\ phase' = [phase EXCEPT ![r] = "held"]
    /\ holder' = [holder EXCEPT ![r] = h]
    /\ UNCHANGED heard

\* The last thing a holder says may be its answer, which closes the request.
Hear(r, last) ==
    /\ clock' > clock /\ phase[r] = "held"
    /\ heard' = [heard EXCEPT ![r] =
                     @ \cup {[seq |-> clock', by |-> holder[r], token |-> token[r]]}]
    /\ phase' = IF last THEN [phase EXCEPT ![r] = "closed"] ELSE phase
    /\ UNCHANGED <<holder, token>>

\* Paused, failed, or made obsolete together with others.
Close(S) ==
    /\ \A r \in S : phase[r] \in {"open", "held"}
    /\ phase' = [r \in Request |-> IF r \in S THEN "closed" ELSE phase[r]]
    /\ UNCHANGED <<holder, token, heard>>

\* Other entries may reach the log at any time.
Next ==
    /\ clock' \in Nat /\ clock' >= clock
    /\ \/ \E S \in SUBSET Request : Close(S)
       \/ \E r \in Request, h \in Holder : Assign(r, h)
       \/ \E r \in Request, last \in BOOLEAN : Hear(r, last)
       \/ \E r \in Request : Post(r)

Spec == Init /\ [][Next]_vars
=============================================================================
