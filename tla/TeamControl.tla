---------------------------- MODULE TeamControl ----------------------------
(***************************************************************************)
(* What an Agent team run promises about its requests, without budgets,    *)
(* call stacks, executors or crashes: it waits for one step at a time,     *)
(* follows only that step and only while it runs, and asks the next one    *)
(* only when this one is answered or was given up in a pause.  TeamRun     *)
(* implements it, and so do the runs of AgentClaims.                       *)
(***************************************************************************)
CONSTANTS Step, NoStep

VARIABLES
    phase,      \* "none", "running", "paused", "ended" or "forgotten"
    step,       \* the step the run waits for, or the last one it heard
    asked,      \* steps whose request reached the room
    answered,   \* steps an executor answered
    closed      \* steps that have any response, failures included

vars == <<phase, step, asked, answered, closed>>

Init == phase = "none" /\ step = NoStep /\ asked = {} /\ answered = {} /\ closed = {}

Ask(s) ==
    /\ phase \in {"none", "running"} /\ s \notin asked
    /\ step # NoStep => step \in answered
    /\ phase' = "running" /\ step' = s /\ asked' = asked \cup {s}
    /\ UNCHANGED <<answered, closed>>

Answer(s) ==
    /\ phase = "running" /\ step = s /\ s \notin closed
    /\ answered' = answered \cup {s} /\ closed' = closed \cup {s}
    /\ UNCHANGED <<phase, step, asked>>

\* Any number of executions may break, whatever the run does.
Breaks == closed \subseteq closed' /\ closed' \subseteq asked

Fail == Breaks /\ UNCHANGED <<phase, step, asked, answered>>

Halt ==
    /\ phase \in {"running", "paused"} /\ phase' \in {"paused", "ended"} /\ Breaks
    /\ UNCHANGED <<step, asked, answered>>

\* A step without a response is given up; one with a response may be.
Resume ==
    /\ phase = "paused" /\ phase' = "running" /\ Breaks
    /\ step' = NoStep \/ (step' = step /\ step \in closed)
    /\ UNCHANGED <<asked, answered>>

\* Erased with its session's messages, or forgotten by its author.
Forget ==
    /\ phase # "none" /\ phase' = "forgotten" /\ Breaks
    /\ UNCHANGED <<step, asked, answered>>

Next == \/ \E s \in Step : Ask(s) \/ Answer(s)
        \/ Fail \/ Halt \/ Resume \/ Forget

Spec == Init /\ [][Next]_vars
=============================================================================
