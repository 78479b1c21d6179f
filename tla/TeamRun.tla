------------------------------ MODULE TeamRun ------------------------------
(***************************************************************************)
(* One Agent team run: a plan of nodes and allowed delegations frozen by   *)
(* its author, executed one request at a time by the coordinator inside    *)
(* the server (apps/server/src/agent-teams.ts, agent-team-store.ts), which *)
(* consumes each answer, follows its directive and keeps the call stack,   *)
(* under a call budget, a deadline and the author's controls.              *)
(*                                                                         *)
(* The server is one process and its handlers do not overlap, but several  *)
(* of them commit twice: a control or an ending first, then what has to be *)
(* cancelled.  `todo` is the second half of such a handler: until it is    *)
(* done nothing else runs, and only a crash may come between.              *)
(***************************************************************************)
EXTENDS Integers, Sequences, FiniteSets

CONSTANTS
    Node,       \* nodes of the frozen plan
    Entry,      \* plan.entry_node_id
    Edge,       \* delegations the author granted
    Kind,       \* target.kind of each node
    MaxCalls,   \* max_calls of the start input
    MaxSteps,   \* steps a run may record (49)
    MaxFaults   \* bound: crashes of the server and cancellations that fail

\* What an agent_response says to the run: a directive (a node: delegate to it),
\* a failure of the execution, or the broker's word that it ended the execution:
\* "fenced" when the run no longer waited for it, "ended" otherwise.
Success == {"complete", "clarify", "invalid"} \cup Node
Failure == {"failed", "timeout", "ended", "fenced", "cancelled"}

ASSUME PlanAssumption ==
    /\ Entry \in Node /\ Edge \subseteq Node \X Node
    /\ Kind \in [Node -> {"local", "cloud", "shared"}]
    /\ Node \cap {"none", "complete", "clarify", "invalid", "failed", "timeout", "ended",
                  "fenced", "cancelled"} = {}
    /\ MaxCalls \in Nat \ {0} /\ MaxSteps \in Nat \ {0} /\ MaxFaults \in Nat

VARIABLES
    status,     \* agent_team_runs.status; "forgotten" once the row is deleted
    reason,     \* error_code of a paused run
    calls,      \* calls_used
    made,       \* number of agent_team_steps rows
    step,       \* agent_team_steps, and what became of their requests
    current,    \* current_step_id, 0 = NULL
    frame,      \* state_json: the assignment to ask next and its call stack
    deferred,   \* next_attempt_at lies ahead
    overdue,    \* deadline_at has passed
    authorized, \* assertTeamRunAuthority of the run's own device
    todo,       \* the uncommitted half of the handler that runs
    faults

vars == <<status, reason, calls, made, step, current, frame, deferred, overdue,
          authorized, todo, faults>>

Active == {"running", "paused"}
Terminal == {"completed", "failed", "stopped", "timed_out", "call_limit"}
Reason == {"user_paused", "server_restart", "agent_timeout", "instruction_conflict"}
Id == 1 .. MaxSteps

\* exec: whether somebody may still be working on the request of the step (a
\* claim that is claimed, a cloud run that runs, a shared job that is queued or
\* runs). answer: the agent_response its request has. heard: response_event_id.
Step == [node: Node, parent: 0 .. MaxSteps, asked: BOOLEAN, heard: BOOLEAN,
         status: {"pending", "running", "completed", "failed", "timed_out", "paused"},
         exec: {"idle", "busy", "over"}, answer: {"none"} \cup Success \cup Failure]
NewStep(n, parent) ==
    [node |-> n, parent |-> parent, asked |-> FALSE, heard |-> FALSE,
     status |-> "pending", exec |-> "idle", answer |-> "none"]

RunTypeOK ==
    /\ status \in {"none", "forgotten"} \cup Active \cup Terminal
    /\ reason \in {"none"} \cup Reason
    /\ calls \in 0 .. MaxCalls /\ made \in 0 .. MaxSteps
    /\ step \in [Id -> Step]
    /\ current \in 0 .. made
    /\ frame \in [node: Node, parent: 0 .. MaxSteps, stack: Seq(Id)]
    /\ deferred \in BOOLEAN /\ overdue \in BOOLEAN /\ authorized \in BOOLEAN
    /\ todo \in {"none", "cancel"} \cup Reason
    /\ faults \in 0 .. MaxFaults

-----------------------------------------------------------------------------
(* As elsewhere, an operator named X_Y is X as a plausible bug would write *)
(* it and not part of the specification.                                   *)

Asked == {s \in 1 .. made : step[s].asked}
Waits(s) == current = s /\ step[s].status = "running" /\ ~step[s].heard

\* runnable
Runnable == todo = "none" /\ status = "running" /\ authorized /\ ~overdue

\* teamRequestMayExecute
MayExecute(s) == Runnable /\ current = s

\* The message is part of the log whatever the run makes of it.
Unconsumed == /\ current # 0 /\ ~step[current].heard
              /\ step[current].answer \in Success

\* cancel: pauseTeamAgentRequest, pauseTeam or cancelRequest, on behalf of the
\* run's own device. Only the shared broker answers a request it cancels.
Cancelled(s) ==
    IF s = 0 \/ ~authorized THEN step
    ELSE IF ~step[s].asked \/ step[s].exec = "over" THEN step
    ELSE IF Kind[step[s].node] = "shared"
         THEN [step EXCEPT ![s].exec = "over", ![s].answer = "cancelled"]
         ELSE [step EXCEPT ![s].exec = "over"]

Init ==
    /\ status = "none" /\ reason = "none" /\ calls = 0 /\ made = 0 /\ current = 0
    /\ step = [s \in Id |-> NewStep(Entry, 0)]
    /\ frame = [node |-> Entry, parent |-> 0, stack |-> <<>>]
    /\ deferred = FALSE /\ overdue = FALSE /\ authorized = TRUE
    /\ todo = "none" /\ faults = 0

\* settle
Settle(to, why) == status' = to /\ reason' = why /\ deferred' = FALSE

environment == <<overdue, authorized, faults>>

-----------------------------------------------------------------------------
(* The pump: one run's share of a pass.                                    *)

Start ==
    /\ status = "none" /\ Settle("running", "none")
    /\ UNCHANGED <<calls, made, step, current, frame, todo, environment>>

Due == Runnable /\ ~deferred

\* pending: the next step of the run gets its row.
Prepare_Unbounded ==
    /\ Due /\ current = 0 /\ calls < MaxCalls
    /\ made' = made + 1 /\ current' = made + 1
    /\ step' = [step EXCEPT ![made + 1] = NewStep(frame.node, frame.parent)]
    /\ UNCHANGED <<status, reason, calls, frame, deferred, todo, environment>>
Prepare ==
    /\ Due /\ current = 0 /\ calls < MaxCalls /\ made < MaxSteps
    /\ made' = made + 1 /\ current' = made + 1
    /\ step' = [step EXCEPT ![made + 1] = NewStep(frame.node, frame.parent)]
    /\ UNCHANGED <<status, reason, calls, frame, deferred, todo, environment>>

Pending == current # 0 /\ step[current].status = "pending"

\* accepted, in the transaction that posts the request. A local request waits
\* to be claimed; a cloud run and a shared job exist at once.
Ask_Uncounted ==
    /\ Due /\ Pending /\ calls < MaxCalls
    /\ calls' = IF step[current].parent = 0 THEN calls + 1 ELSE calls
    /\ step' = [step EXCEPT ![current].asked = TRUE, ![current].status = "running",
                   ![current].exec = IF Kind[step[current].node] = "local" THEN "idle" ELSE "busy"]
    /\ UNCHANGED <<status, reason, made, current, frame, deferred, todo, environment>>
Ask ==
    /\ Due /\ Pending /\ calls < MaxCalls
    /\ calls' = calls + 1
    /\ step' = [step EXCEPT ![current].asked = TRUE, ![current].status = "running",
                   ![current].exec = IF Kind[step[current].node] = "local" THEN "idle" ELSE "busy"]
    /\ UNCHANGED <<status, reason, made, current, frame, deferred, todo, environment>>

\* defer: the cloud is busy or cools down.
Defer ==
    /\ Due /\ Pending /\ Kind[step[current].node] = "cloud" /\ deferred' = TRUE
    /\ UNCHANGED <<status, reason, calls, made, step, current, frame, todo, environment>>

Wake ==
    /\ deferred /\ deferred' = FALSE
    /\ UNCHANGED <<status, reason, calls, made, step, current, frame, todo, environment>>

\* end: the run and its current step are settled; cancelling what is under way
\* is left to do. Lost authority retires the claim of a local step at once.
EndAs(to, claimEnds) ==
    /\ status \in Active /\ todo = "none"
    /\ Settle(to, "none")
    /\ step' = [s \in Id |->
           IF s # current THEN step[s]
           ELSE [step[s] EXCEPT
                   !.status = IF @ \in {"pending", "running"} THEN "paused" ELSE @,
                   !.exec = IF claimEnds /\ @ = "busy" /\ Kind[step[s].node] = "local"
                            THEN "over" ELSE @]]
    /\ todo' = "cancel"
    /\ UNCHANGED <<calls, made, current, frame, environment>>

EndOverdue_Running == status = "running" /\ overdue /\ EndAs("timed_out", FALSE)
EndOverdue == overdue /\ EndAs("timed_out", FALSE)
EndUnauthorized == ~overdue /\ ~authorized /\ EndAs("failed", TRUE)

\* The target is gone or refuses, or the run has recorded too many steps.
Refuse ==
    /\ Due /\ (Pending \/ (current = 0 /\ made = MaxSteps))
    /\ EndAs("failed", FALSE)

-----------------------------------------------------------------------------
(* consume: the answer of the current step decides what the run does next. *)

Hear(s, to) == step' = [step EXCEPT ![s].heard = TRUE, ![s].status = to]

Answered(s, answers) ==
    /\ Due /\ s = current /\ s # 0 /\ Waits(s) /\ step[s].answer \in answers
    /\ UNCHANGED <<calls, made, todo, environment>>

HearFailure(s) ==
    /\ Answered(s, Failure)
    /\ IF step[s].answer = "timeout"
       THEN Hear(s, "timed_out") /\ Settle("paused", "agent_timeout")
       ELSE Hear(s, "failed") /\ Settle("failed", "none")
    /\ UNCHANGED <<current, frame>>

Allowed(s) == <<step[s].node, step[s].answer>> \in Edge

\* No valid directive, or a delegation the plan does not grant.
HearInvalid(s) ==
    /\ Answered(s, Success) /\ step[s].answer \notin {"complete", "clarify"}
    /\ ~Allowed(s)
    /\ Hear(s, "completed") /\ Settle("failed", "none")
    /\ UNCHANGED <<current, frame>>

HearConflict(s) ==
    /\ Answered(s, {"clarify"})
    /\ Hear(s, "completed") /\ Settle("paused", "instruction_conflict")
    /\ UNCHANGED <<current, frame>>

HearLast(s) ==
    /\ Answered(s, {"complete"}) /\ frame.stack = <<>>
    /\ Hear(s, "completed") /\ Settle("completed", "none")
    /\ UNCHANGED <<current, frame>>

\* transition, and the call limit that stops a run with work left.
Follow(next) ==
    /\ frame' = next /\ current' = 0
    /\ Settle(IF calls >= MaxCalls THEN "call_limit" ELSE "running", "none")

HearDelegation_Any(s) ==
    /\ Answered(s, Node) /\ Hear(s, "completed")
    /\ Follow([node |-> step[s].answer, parent |-> s, stack |-> Append(frame.stack, s)])
HearDelegation(s) ==
    /\ Answered(s, Node) /\ Allowed(s) /\ Hear(s, "completed")
    /\ Follow([node |-> step[s].answer, parent |-> s, stack |-> Append(frame.stack, s)])

Top(stack) == stack[Len(stack)]
Rest(stack) == SubSeq(stack, 1, Len(stack) - 1)

\* The delegating node is asked again, with the answer as its context.
HearReturn_Parent(s) ==
    /\ Answered(s, {"complete"}) /\ frame.stack # <<>> /\ Hear(s, "completed")
    /\ LET p == Top(frame.stack) IN
       Follow([node |-> step[p].node, parent |-> p, stack |-> Rest(frame.stack)])
HearReturn(s) ==
    /\ Answered(s, {"complete"}) /\ frame.stack # <<>> /\ Hear(s, "completed")
    /\ LET p == Top(frame.stack) IN
       Follow([node |-> step[p].node, parent |-> step[p].parent, stack |-> Rest(frame.stack)])

Consume(s) == \/ HearFailure(s) \/ HearInvalid(s) \/ HearConflict(s)
              \/ HearLast(s) \/ HearDelegation(s) \/ HearReturn(s)

-----------------------------------------------------------------------------
(* The second half of a handler, and the crash that may take its place.    *)

Fault == faults < MaxFaults /\ faults' = faults + 1

\* cancel after a control or an ending; it may fail, and nobody is told.
Cancel ==
    /\ todo = "cancel" /\ todo' = "none"
    /\ \/ step' = Cancelled(current) /\ UNCHANGED faults
       \/ Fault /\ UNCHANGED step
    /\ UNCHANGED <<status, reason, calls, made, current, frame, deferred, overdue, authorized>>

\* After resume or continue: is the step the run waits for given up?
GivenUp_Restart ==
    \/ step[current].answer = "none"
    \/ /\ todo = "user_paused" /\ step[current].answer = "cancelled"
       /\ Kind[step[current].node] = "shared"
    \/ todo \in {"agent_timeout", "server_restart"}
GivenUp ==
    \/ step[current].answer = "none"
    \/ /\ todo = "user_paused" /\ step[current].answer = "cancelled"
       /\ Kind[step[current].node] = "shared"
    \/ todo = "agent_timeout"
    \/ todo = "server_restart" /\ step[current].answer \in Failure

DropStep(to) ==
    /\ current' = 0 /\ deferred' = FALSE
    /\ \/ step' = [Cancelled(current) EXCEPT ![current].status = to] /\ UNCHANGED faults
       \/ Fault /\ step' = [step EXCEPT ![current].status = to]

Proceed ==
    /\ todo \in Reason /\ todo' = "none"
    /\ IF current # 0 /\ GivenUp
       THEN DropStep(IF todo = "agent_timeout" THEN "timed_out" ELSE "paused")
       ELSE UNCHANGED <<step, current, deferred, faults>>
    /\ UNCHANGED <<status, reason, calls, made, frame, overdue, authorized>>

\* A crash, then failInterruptedHostedAgentJobs, the constructor of AgentSharing
\* and recover, in the order server.ts runs them.
Interrupted(s, answers) ==
    IF step[s].exec = "busy" /\ Kind[step[s].node] # "local"
    THEN [step[s] EXCEPT !.exec = "over", !.answer = answers[s]]
    ELSE step[s]
Halted(s) == status # "running" \/ current # s
EndedBy(s) == {IF Halted(s) THEN "fenced" ELSE "ended"}
              \cup (IF Kind[step[s].node] = "shared" THEN {"timeout"} ELSE {})

Crash ==
    /\ status # "none" /\ Fault
    /\ \E answers \in [Id -> {"ended", "fenced", "timeout"}] :
         /\ \A s \in Id : answers[s] \in EndedBy(s)
         /\ LET after == [s \in Id |-> Interrupted(s, answers)] IN
            step' = [s \in Id |->
                IF s = current /\ status \in Active /\ authorized /\ after[s].asked
                THEN [after[s] EXCEPT !.exec = "over"] ELSE after[s]]
    /\ IF status = "running"
       THEN IF overdue THEN Settle("timed_out", "none") ELSE Settle("paused", "server_restart")
       ELSE UNCHANGED <<status, reason, deferred>>
    /\ todo' = "none"
    /\ UNCHANGED <<calls, made, current, frame, overdue, authorized>>

-----------------------------------------------------------------------------
(* The author's controls.                                                  *)

Pause ==
    /\ status = "running" /\ todo = "none" /\ authorized
    /\ Settle("paused", "user_paused") /\ todo' = "cancel"
    /\ UNCHANGED <<calls, made, step, current, frame, environment>>

Stop ==
    /\ status \in Active /\ todo = "none" /\ authorized
    /\ Settle("stopped", "none") /\ todo' = "cancel"
    /\ UNCHANGED <<calls, made, step, current, frame, environment>>

\* The same control again repairs a cancellation that failed.
Again ==
    /\ status \in {"paused", "stopped"} /\ todo = "none" /\ authorized
    /\ step' = Cancelled(current)
    /\ UNCHANGED <<status, reason, calls, made, current, frame, deferred, todo, environment>>

MayResume == status = "paused" /\ todo = "none" /\ authorized /\ ~overdue

\* A run at its call limit may still consume the answer it already has.
Resume ==
    /\ MayResume /\ reason \in {"user_paused", "server_restart"}
    /\ calls < MaxCalls \/ Unconsumed
    /\ Settle("running", "none") /\ todo' = reason
    /\ UNCHANGED <<calls, made, step, current, frame, environment>>

Continue ==
    /\ MayResume /\ reason = "agent_timeout" /\ calls < MaxCalls
    /\ Settle("running", "none") /\ todo' = reason
    /\ UNCHANGED <<calls, made, step, current, frame, environment>>

\* resume of a conflict report the author has answered in the room.
Clarify ==
    /\ MayResume /\ reason = "instruction_conflict" /\ calls < MaxCalls
    /\ Settle("running", "none") /\ current' = 0
    /\ UNCHANGED <<calls, made, step, frame, todo, environment>>

\* forget and prune; the deletion of the row ends the claims of its steps.
Forget ==
    /\ status \in Terminal /\ todo = "none" /\ status' = "forgotten"
    /\ step' = [s \in Id |-> IF step[s].exec = "busy" /\ Kind[step[s].node] = "local"
                            THEN [step[s] EXCEPT !.exec = "over"] ELSE step[s]]
    /\ UNCHANGED <<reason, calls, made, current, frame, deferred, todo, environment>>

\* An erasure in the session deletes its runs and ends what they asked for.
Erase ==
    /\ status \notin {"none", "forgotten"} /\ todo = "none" /\ status' = "forgotten"
    /\ step' = [s \in Id |-> IF step[s].asked THEN [step[s] EXCEPT !.exec = "over"] ELSE step[s]]
    /\ UNCHANGED <<reason, calls, made, current, frame, deferred, todo, environment>>

\* setSessionMemberVisibility: who is hidden loses the grant for good.
Hide ==
    /\ status \in Active /\ todo = "none" /\ Settle("failed", "none") /\ authorized' = FALSE
    /\ step' = [s \in Id |-> [step[s] EXCEPT
           !.status = IF s <= made /\ @ \in {"pending", "running"} THEN "paused" ELSE @,
           !.exec = IF @ = "busy" THEN "over" ELSE @]]
    /\ UNCHANGED <<calls, made, current, frame, overdue, todo, faults>>

-----------------------------------------------------------------------------
(* Executors, retries and time.                                            *)

\* A connector is granted the claim of a local step (module AgentClaims).
Claim(s) ==
    /\ MayExecute(s) /\ step[s].asked /\ step[s].exec = "idle"
    /\ step' = [step EXCEPT ![s].exec = "busy"]
    /\ UNCHANGED <<status, reason, calls, made, current, frame, deferred, todo, environment>>

Working(s) == todo = "none" /\ step[s].exec = "busy"
Publish(s, answer) ==
    /\ step' = [step EXCEPT ![s].exec = "over", ![s].answer = answer]
    /\ UNCHANGED <<status, reason, calls, made, current, frame, deferred, todo, environment>>

Answer_Late(s) ==
    /\ Working(s)
    /\ \E answer \in Success \cup {"failed"} : Publish(s, answer)
Answer(s) ==
    /\ Working(s) /\ MayExecute(s)
    /\ \E answer \in Success \cup {"failed"} : Publish(s, answer)

TimeOut(s) ==
    /\ Working(s) /\ MayExecute(s) /\ Kind[step[s].node] # "local"
    /\ Publish(s, "timeout")

\* The hosted runner and the broker's pump answer for an execution the run
\* no longer waits for; a connector says nothing.
ServerEnds(s) ==
    /\ Working(s) /\ ~MayExecute(s) /\ Kind[step[s].node] # "local"
    /\ \E answer \in EndedBy(s) : Publish(s, answer)

\* retryNativeCancellation
Retire_Any(s) ==
    /\ Working(s) /\ Kind[step[s].node] = "local" /\ status # "forgotten"
    /\ step' = [step EXCEPT ![s].exec = "over"]
    /\ UNCHANGED <<status, reason, calls, made, current, frame, deferred, todo, environment>>
Retire(s) ==
    /\ Working(s) /\ Kind[step[s].node] = "local" /\ status # "forgotten"
    /\ Halted(s)
    /\ step' = [step EXCEPT ![s].exec = "over"]
    /\ UNCHANGED <<status, reason, calls, made, current, frame, deferred, todo, environment>>

Deadline ==
    /\ status # "none" /\ ~overdue /\ overdue' = TRUE
    /\ UNCHANGED <<status, reason, calls, made, step, current, frame, deferred, authorized,
                   todo, faults>>

\* The author's device, role or session stops or starts to admit writes.
ChangeAuthority ==
    /\ status # "none" /\ todo = "none" /\ authorized' = ~authorized
    /\ UNCHANGED <<status, reason, calls, made, step, current, frame, deferred, overdue,
                   todo, faults>>

Next ==
    \/ Start \/ Prepare \/ Ask \/ Defer \/ Wake
    \/ EndOverdue \/ EndUnauthorized \/ Refuse
    \/ Cancel \/ Proceed \/ Crash
    \/ Pause \/ Stop \/ Again \/ Resume \/ Continue \/ Clarify \/ Forget \/ Erase \/ Hide
    \/ \E s \in Id : \/ Consume(s) \/ Claim(s) \/ Answer(s) \/ TimeOut(s)
                     \/ ServerEnds(s) \/ Retire(s)
    \/ Deadline \/ ChangeAuthority

Spec == Init /\ [][Next]_vars

\* The process runs on, or is restarted; its pump and timers keep firing; an
\* execution that was cut off is noticed (a crash may stand in for Cancel).
Fairness ==
    /\ WF_vars(Deadline) /\ WF_vars(EndOverdue) /\ WF_vars(Cancel) /\ WF_vars(Proceed)
    /\ \A s \in Id : WF_vars(Retire(s)) /\ WF_vars(ServerEnds(s))
FairSpec == Spec /\ Fairness

-----------------------------------------------------------------------------
(* Properties.                                                             *)

\* The author's call limit bounds what a run asks for over its whole life:
\* delegations, returns, clarifications, continued time-outs, pauses, restarts
\* and repeated attempts at a dropped step all spend from the same budget, and
\* no answer ever buys one back.
BudgetKept == calls = Cardinality(Asked) /\ calls <= MaxCalls

\* A running run between two steps can afford the next one: pending never
\* throws agent_team_call_limit, whichever way the run got there.
RoomToAsk ==
    status = "running" /\ todo = "none" /\ (current = 0 \/ Pending) => calls < MaxCalls

\* Who asked for a step: nobody but the entry node starts without a parent, and
\* every other step is the node its parent's answer delegated to, along an edge
\* the author granted.
Lineage ==
    \A s \in 1 .. made :
        IF step[s].parent = 0 THEN step[s].node = Entry
        ELSE /\ step[s].parent < s /\ step[step[s].parent].heard
             /\ Allowed(step[s].parent)
             /\ step[s].node = step[step[s].parent].answer

\* The call stack is a chain of delegations from the entry node to the node
\* asked next, across pauses, dropped steps and crashes.
CallChain ==
    LET stack == frame.stack
        calledBy(i) == IF i = 1 THEN 0 ELSE stack[i - 1] IN
    /\ \A i \in DOMAIN stack :
          /\ stack[i] \in 1 .. made /\ step[stack[i]].heard /\ Allowed(stack[i])
          /\ step[stack[i]].parent = calledBy(i)
    /\ frame.parent = calledBy(Len(stack) + 1)
    /\ frame.node = IF stack = <<>> THEN Entry ELSE step[Top(stack)].answer

\* A usable answer that reached the room is never thrown away and asked for
\* again: while the run lives, every superseded step that was answered with a
\* directive has been heard.
NoAnswerLost ==
    status \in Active => \A s \in Asked : s # current /\ step[s].answer \in Success => step[s].heard

\* A run that executes has one execution, even if a crash or a failed
\* cancellation spoiled its pause: what was left behind is cancelled again
\* before the next step is asked. It takes two faults to have two executions.
OneAtATime ==
    faults < 2 /\ status = "running" => \A s \in Id : s # current => step[s].exec # "busy"

\* "That receipt proves the old execution was fenced; it is not a completed
\* Agent result to consume on Resume" (control): the end of an execution that
\* was cut off because its run had halted is never heard as a failed result.
PauseIsNotFailure == \A s \in Id : step[s].heard => step[s].answer \notin {"fenced", "cancelled"}

\* A repeated control or a retried cancellation never cuts off the execution
\* the run waits for.
NoSelfCancel ==
    [][\A s \in Id : /\ MayExecute(s) /\ step[s].exec = "busy"
                     /\ step'[s].exec = "over" /\ step'[s].answer = "none"
                     => status' \in {"failed", "forgotten", "paused"}]_vars

\* Between two steps the run can pay for the next, has used every answer it
\* got, and has nothing else executing.
StepsInOrder == RoomToAsk /\ NoAnswerLost /\ OneAtATime

\* The time limit ends every run, also one that is paused, waits for its cloud
\* slot, for a connector that is offline or for an authority that comes and goes.
EndsInTime == status = "running" ~> status \notin Active

\* No ghost: an execution the run stopped waiting for is released, whichever
\* step it belongs to, however often its cancellation failed and also when the
\* run's record is deleted meanwhile.
OutstandingEnds ==
    \A s \in Id : (step[s].exec = "busy" /\ (s # current \/ status \notin Active))
                  ~> step[s].exec = "over"

\* Cancellation, however often it fails and is retried, hits what the run left
\* behind, all of it, and nothing else.
CancelsWhatItLeft == NoSelfCancel /\ OutstandingEnds

\* The last request, if its answer settled it: the next one may follow.
Last == IF Asked = {} THEN 0 ELSE CHOOSE s \in Asked : \A t \in Asked : t <= s
LastHeard == IF Last # 0 /\ step[Last].answer \in Success /\ step[Last].heard THEN Last ELSE 0

Control == INSTANCE TeamControl WITH
    Step <- Id, NoStep <- 0,
    phase <- IF Asked = {} THEN "none"
             ELSE IF todo \in Reason THEN "paused"
             ELSE IF status \in Terminal THEN "ended" ELSE status,
    step <- IF current \in Asked THEN current ELSE LastHeard,
    asked <- Asked,
    answered <- {s \in Asked : step[s].answer \in Success},
    closed <- {s \in Asked : step[s].answer # "none"}

\* Seen from the room, budgets, stacks, half-done handlers and crashes leave one
\* thing: one request at a time, answered only while the run waits for it.
ImplementsTeamControl == Control!Spec
=============================================================================
