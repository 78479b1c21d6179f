--------------------------- MODULE TeamRunProofs ---------------------------
(***************************************************************************)
(* Proofs about TeamRun for every plan, budget and number of faults: its   *)
(* type invariant, the call budget, that every step was delegated to along *)
(* the author's edges, that a run asks for one step after the other, and   *)
(* that what the room sees of it is a TeamControl.                         *)
(*                                                                         *)
(* None of these is inductive alone.  What a step says about its caller is *)
(* copied from the frame, and the frame is rebuilt from heard steps, so    *)
(* the first invariant ties the two together (CurrentIsFrame) and says     *)
(* that what a heard step answered never changes (Frozen).  What a run may *)
(* ask next was decided while it was halted, so the second one (Ordered)   *)
(* follows the halves of the handlers and what the step in hand became.    *)
(***************************************************************************)
EXTENDS TeamRun, FiniteSetTheorems, SequenceTheorems, TLAPS

\* An unasked step is untouched, an answer ends the execution, and only an
\* answer is heard.
Shape(r) ==
    /\ r.status = "pending" => ~r.asked
    /\ ~r.asked => r.exec = "idle" /\ r.answer = "none"
    /\ r.answer # "none" => r.exec = "over"
    /\ r.heard => r.answer # "none"

StepShape == \A s \in Id : Shape(step[s])

\* The step in hand is the one the frame asked for.
CurrentIsFrame ==
    current # 0 /\ ~step[current].heard =>
        step[current].node = frame.node /\ step[current].parent = frame.parent

\* Steps to come have not been asked.
Future == \A s \in Id : s > made => ~step[s].asked

IInv == RunTypeOK /\ StepShape /\ CurrentIsFrame /\ Future /\ Lineage /\ CallChain
-----------------------------------------------------------------------------
(* What an executor, a control, an ending or a crash may do to a step.     *)

Evolves(o, n) ==
    /\ n \in Step
    /\ n.node = o.node /\ n.parent = o.parent /\ n.asked = o.asked /\ n.heard = o.heard
    /\ o.answer # "none" => n.answer = o.answer
    /\ n.answer # "none" => n.exec = "over"
    /\ n.status = "pending" => o.status = "pending"
    /\ ~o.asked => n.exec = o.exec /\ n.answer = o.answer

LEMMA EvolvesRefl == ASSUME NEW r \in Step, Shape(r) PROVE Evolves(r, r)
BY DEF Evolves, Shape

LEMMA EvolvesTrans ==
    ASSUME NEW p, NEW q, NEW r, Evolves(p, q), Evolves(q, r)
    PROVE  Evolves(p, r)
BY DEF Evolves

LEMMA EvolvesShape == ASSUME NEW o, NEW n, Shape(o), Evolves(o, n) PROVE Shape(n)
BY DEF Evolves, Shape

\* An execution that is asked for may end without an answer.
LEMMA EvolvesOver ==
    ASSUME NEW r \in Step, Shape(r), r.asked
    PROVE  Evolves(r, [r EXCEPT !.exec = "over"])
BY DEF Evolves, Shape, Step

LEMMA EvolvesAnswer ==
    ASSUME NEW r \in Step, Shape(r), r.asked, r.answer = "none",
           NEW a \in Success \cup Failure
    PROVE  Evolves(r, [r EXCEPT !.exec = "over", !.answer = a])
BY DEF Evolves, Shape, Step

LEMMA EvolvesStatus ==
    ASSUME NEW r \in Step, Shape(r), NEW to \in {"completed", "failed", "timed_out", "paused"}
    PROVE  Evolves(r, [r EXCEPT !.status = to])
BY DEF Evolves, Shape, Step

\* Nothing but steps evolves, and no step is heard.
Quiet ==
    /\ UNCHANGED <<calls, made, frame>>
    /\ current' \in {current, 0}
    /\ step' = [s \in Id |-> step'[s]]
    /\ \A s \in Id : Evolves(step[s], step'[s])

LEMMA QuietKeepsSteps ==
    ASSUME StepShape, RunTypeOK, UNCHANGED <<step, calls, made, frame>>, current' \in {current, 0}
    PROVE  Quiet
BY EvolvesRefl DEF Quiet, StepShape, RunTypeOK

\* A change of one step.
LEMMA QuietOne ==
    ASSUME StepShape, RunTypeOK, UNCHANGED <<calls, made, frame>>, current' \in {current, 0},
           NEW s \in Id, NEW n, step' = [step EXCEPT ![s] = n], Evolves(step[s], n)
    PROVE  Quiet
BY EvolvesRefl DEF Quiet, StepShape, RunTypeOK
-----------------------------------------------------------------------------
ControlType ==
    /\ status \in {"none", "forgotten"} \cup Active \cup Terminal
    /\ reason \in {"none"} \cup Reason
    /\ deferred \in BOOLEAN /\ overdue \in BOOLEAN /\ authorized \in BOOLEAN
    /\ todo \in {"none", "cancel"} \cup Reason
    /\ faults \in 0 .. MaxFaults

LEMMA Ids == ASSUME RunTypeOK PROVE 1 .. made \subseteq Id /\ made \in Nat
BY PlanAssumption DEF RunTypeOK, Id

\* Every step keeps its place and a heard step says the same for ever.
Frozen ==
    \A s \in Id : /\ step'[s].node = step[s].node /\ step'[s].parent = step[s].parent
                  /\ step[s].heard => step'[s].heard /\ step'[s].answer = step[s].answer

\* Then who called whom stays true.
LEMMA FrozenLineage == ASSUME RunTypeOK, Lineage, Frozen, UNCHANGED made PROVE Lineage'
<1> SUFFICES ASSUME NEW s \in 1 .. made
             PROVE  IF step'[s].parent = 0 THEN step'[s].node = Entry
                    ELSE /\ step'[s].parent < s /\ step'[step'[s].parent].heard
                         /\ Allowed(step[s].parent)'
                         /\ step'[s].node = step'[step'[s].parent].answer
  BY DEF Lineage, Allowed
<1> DEFINE p == step[s].parent
<1>1. s \in Id /\ step[s] \in Step
  BY Ids DEF RunTypeOK
<1>2. step'[s].parent = p /\ step'[s].node = step[s].node
  BY <1>1 DEF Frozen
<1>3. CASE p = 0
  BY <1>2, <1>3 DEF Lineage
<1>4. CASE p # 0
  <2>1. /\ p < s /\ step[p].heard /\ <<step[p].node, step[p].answer>> \in Edge
        /\ step[s].node = step[p].answer
    BY <1>4 DEF Lineage, Allowed
  <2>2. p \in Id
    BY Ids, <1>1, <1>4, <2>1 DEF Step, Id
  <2>3. step'[p].node = step[p].node /\ step'[p].answer = step[p].answer /\ step'[p].heard
    BY <2>1, <2>2 DEF Frozen
  <2> QED
    BY <1>2, <1>4, <2>1, <2>3 DEF Allowed
<1> QED
  BY <1>3, <1>4

LEMMA TopIndex ==
    ASSUME RunTypeOK
    PROVE  frame.stack # <<>> => Len(frame.stack) \in DOMAIN frame.stack
BY LenProperties, EmptySeq DEF RunTypeOK

\* And so does who waits on the stack.
LEMMA FrozenFrames ==
    ASSUME RunTypeOK, CallChain, Frozen, NEW i \in DOMAIN frame.stack
    PROVE  LET t == frame.stack[i] IN
           /\ t \in 1 .. made /\ step'[t].heard
           /\ <<step'[t].node, step'[t].answer>> \in Edge
           /\ step'[t].parent = IF i = 1 THEN 0 ELSE frame.stack[i - 1]
           /\ step'[t].answer = step[t].answer
<1> DEFINE t == frame.stack[i]
<1>1. /\ t \in 1 .. made /\ step[t].heard /\ <<step[t].node, step[t].answer>> \in Edge
      /\ step[t].parent = IF i = 1 THEN 0 ELSE frame.stack[i - 1]
  BY DEF CallChain, Allowed
<1>2. t \in Id
  BY Ids, <1>1
<1>3. /\ step'[t].node = step[t].node /\ step'[t].parent = step[t].parent
      /\ step'[t].heard /\ step'[t].answer = step[t].answer
  BY <1>1, <1>2 DEF Frozen
<1> QED
  BY <1>1, <1>3

LEMMA FrozenCallChain ==
    ASSUME RunTypeOK, CallChain, Frozen, UNCHANGED <<frame, made>>
    PROVE  CallChain'
BY FrozenFrames, TopIndex DEF CallChain, Top, Allowed

LEMMA QuietStep == ASSUME IInv, Quiet, ControlType' PROVE IInv'
<1> USE DEF IInv
<1>i. 1 .. made \subseteq Id /\ made \in Nat
  BY Ids
<1>1. RunTypeOK'
  <2>1. step' \in [Id -> Step]
    BY DEF Quiet, Evolves
  <2>2. current' \in 0 .. made /\ calls' = calls /\ made' = made /\ frame' = frame
    BY <1>i DEF Quiet, RunTypeOK
  <2> QED
    BY <2>1, <2>2 DEF RunTypeOK, ControlType
<1>2. StepShape'
  BY EvolvesShape DEF Quiet, StepShape, Id
<1>3. CurrentIsFrame'
  <2>1. current' # 0 => current' = current /\ current \in Id
    BY <1>i DEF Quiet, RunTypeOK
  <2> QED
    BY <2>1 DEF CurrentIsFrame, Quiet, Evolves
<1>4. Future'
  BY DEF Future, Quiet, Evolves, Id
<1>5. Frozen
  BY DEF Frozen, Quiet, Evolves, StepShape, Shape
<1>6. Lineage' /\ CallChain'
  BY <1>i, <1>5, FrozenLineage, FrozenCallChain DEF Quiet
<1> QED
  BY <1>1, <1>2, <1>3, <1>4, <1>5, <1>6
-----------------------------------------------------------------------------
(* The actions that leave the plan where it is.                            *)

\* A change of the steps, one by one.
LEMMA QuietAll ==
    ASSUME UNCHANGED <<calls, made, frame>>, current' \in {current, 0},
           NEW new, step' = [s \in Id |-> new[s]], \A s \in Id : Evolves(step[s], new[s])
    PROVE  Quiet
BY DEF Quiet

LEMMA CancelledEvolves ==
    ASSUME RunTypeOK, StepShape, NEW c \in 0 .. made
    PROVE  /\ Cancelled(c) \in [Id -> Step]
           /\ \A s \in Id : Evolves(step[s], Cancelled(c)[s])
<1>1. CASE Cancelled(c) = step
  BY <1>1, EvolvesRefl DEF RunTypeOK, StepShape
<1>2. CASE Cancelled(c) # step
  <2>1. c \in Id /\ step[c].asked /\ step[c].exec # "over" /\ step[c].answer = "none"
    BY <1>2, Ids DEF Cancelled, StepShape, Shape
  <2>2. PICK n \in {[step[c] EXCEPT !.exec = "over"],
                    [step[c] EXCEPT !.exec = "over", !.answer = "cancelled"]} :
           Cancelled(c) = [step EXCEPT ![c] = n]
    BY <1>2, <2>1 DEF Cancelled, RunTypeOK
  <2>3. Evolves(step[c], n)
    <3>1. step[c] \in Step /\ Shape(step[c]) /\ "cancelled" \in Success \cup Failure
      BY <2>1 DEF RunTypeOK, StepShape, Failure
    <3> QED
      BY <2>1, <2>2, <3>1, EvolvesOver, EvolvesAnswer
  <2>4. n \in Step
    BY <2>3 DEF Evolves
  <2> QED
    BY <2>1, <2>2, <2>3, <2>4, EvolvesRefl DEF RunTypeOK, StepShape
<1> QED
  BY <1>1, <1>2

LEMMA QuietControls ==
    ASSUME RunTypeOK, StepShape,
           \/ Start \/ Defer \/ Wake \/ Pause \/ Stop \/ Resume \/ Continue \/ Clarify
           \/ Deadline \/ ChangeAuthority
    PROVE  Quiet /\ ControlType'
<1>1. /\ UNCHANGED <<step, calls, made, frame>> /\ current' \in {current, 0}
      /\ UNCHANGED faults
  BY DEF Start, Defer, Wake, Pause, Stop, Resume, Continue, Clarify, Deadline, ChangeAuthority,
         environment
<1>2. ASSUME Start \/ Defer \/ Wake \/ Deadline \/ ChangeAuthority
      PROVE  ControlType'
  <2>1. /\ status' \in {"running", status} /\ reason' \in {"none", reason} /\ todo' = todo
        /\ faults' = faults
    BY <1>2 DEF Start, Defer, Wake, Deadline, ChangeAuthority, environment, Settle
  <2>2. deferred' \in BOOLEAN /\ overdue' \in BOOLEAN /\ authorized' \in BOOLEAN
    BY <1>2 DEF Start, Defer, Wake, Deadline, ChangeAuthority, environment, Settle, RunTypeOK
  <2>3. /\ status' \in {"none", "forgotten"} \cup Active \cup Terminal
        /\ reason' \in {"none"} \cup Reason
    BY <2>1 DEF RunTypeOK, Active
  <2>4. todo' \in {"none", "cancel"} \cup Reason /\ faults' \in 0 .. MaxFaults
    BY <2>1 DEF RunTypeOK
  <2> QED
    BY <2>2, <2>3, <2>4 DEF ControlType
<1>3. ASSUME Pause \/ Stop \/ Resume \/ Continue \/ Clarify
      PROVE  ControlType'
  <2>1. /\ status' \in {"running", "paused", "stopped"} /\ reason' \in {"none", "user_paused"}
        /\ todo' \in {"none", "cancel"} \cup Reason /\ faults' = faults
    BY <1>3 DEF Pause, Stop, Resume, Continue, Clarify, environment, Settle, MayResume, Reason,
                RunTypeOK
  <2>2. deferred' \in BOOLEAN /\ overdue' \in BOOLEAN /\ authorized' \in BOOLEAN
    BY <1>3 DEF Pause, Stop, Resume, Continue, Clarify, environment, Settle, RunTypeOK
  <2>3. /\ status' \in {"none", "forgotten"} \cup Active \cup Terminal
        /\ reason' \in {"none"} \cup Reason
    BY <2>1 DEF Active, Terminal, Reason
  <2>4. faults' \in 0 .. MaxFaults
    BY <2>1 DEF RunTypeOK
  <2> QED
    BY <2>1, <2>2, <2>3, <2>4 DEF ControlType
<1>4. ControlType'
  BY <1>2, <1>3
<1> QED
  BY <1>1, <1>4, QuietKeepsSteps

LEMMA QuietExecutors ==
    ASSUME RunTypeOK, StepShape, NEW s \in Id,
           Claim(s) \/ Answer(s) \/ TimeOut(s) \/ ServerEnds(s) \/ Retire(s)
    PROVE  Quiet /\ ControlType'
<1>1. UNCHANGED <<calls, made, frame, current>> /\ ControlType'
  BY DEF Claim, Answer, TimeOut, ServerEnds, Retire, Publish, environment, ControlType, RunTypeOK
<1>2. step[s] \in Step /\ Shape(step[s])
  BY DEF RunTypeOK, StepShape
<1>3. CASE Claim(s)
  <2>1. Evolves(step[s], [step[s] EXCEPT !.exec = "busy"])
    BY <1>2, <1>3 DEF Claim, Evolves, Shape, Step
  <2>2. step' = [step EXCEPT ![s] = [step[s] EXCEPT !.exec = "busy"]]
    BY <1>3 DEF Claim, RunTypeOK
  <2> QED
    BY <1>1, <2>1, <2>2, QuietOne
<1>4. CASE Answer(s) \/ TimeOut(s) \/ ServerEnds(s)
  <2>1. PICK a \in Success \cup Failure : Publish(s, a)
    BY <1>4 DEF Answer, TimeOut, ServerEnds, EndedBy, Failure
  <2>2. step[s].exec = "busy"
    BY <1>4 DEF Answer, TimeOut, ServerEnds, Working
  <2>3. step[s].asked /\ step[s].answer = "none"
    BY <1>2, <2>2 DEF Shape
  <2>4. Evolves(step[s], [step[s] EXCEPT !.exec = "over", !.answer = a])
    BY <1>2, <2>3, EvolvesAnswer
  <2>5. step' = [step EXCEPT ![s] = [step[s] EXCEPT !.exec = "over", !.answer = a]]
    BY <2>1 DEF Publish, RunTypeOK
  <2> QED
    BY <1>1, <2>4, <2>5, QuietOne
<1>5. CASE Retire(s)
  <2>1. Evolves(step[s], [step[s] EXCEPT !.exec = "over"])
    BY <1>2, <1>5, EvolvesOver DEF Retire, Working, Shape
  <2>2. step' = [step EXCEPT ![s] = [step[s] EXCEPT !.exec = "over"]]
    BY <1>5 DEF Retire, RunTypeOK
  <2> QED
    BY <1>1, <2>1, <2>2, QuietOne
<1> QED
  BY <1>1, <1>3, <1>4, <1>5

LEMMA QuietEnds ==
    ASSUME RunTypeOK, StepShape, EndOverdue \/ EndUnauthorized \/ Refuse
    PROVE  Quiet /\ ControlType'
<1>1. PICK to \in {"timed_out", "failed"}, b \in BOOLEAN : EndAs(to, b)
  BY DEF EndOverdue, EndUnauthorized, Refuse
<1>2. /\ UNCHANGED <<calls, made, frame, current, overdue, authorized, faults>>
      /\ status' = to /\ reason' = "none" /\ deferred' = FALSE /\ todo' = "cancel"
  BY <1>1 DEF EndAs, Settle, environment
<1>3. ControlType'
  BY <1>2 DEF ControlType, RunTypeOK, Terminal
<1> DEFINE new == [s \in Id |->
           IF s # current THEN step[s]
           ELSE [step[s] EXCEPT
                   !.status = IF @ \in {"pending", "running"} THEN "paused" ELSE @,
                   !.exec = IF b /\ @ = "busy" /\ Kind[step[s].node] = "local"
                            THEN "over" ELSE @]]
<1>4. step' = new
  BY <1>1 DEF EndAs
<1>5. ASSUME NEW s \in Id PROVE Evolves(step[s], new[s])
  <2>1. step[s] \in Step /\ Shape(step[s])
    BY DEF RunTypeOK, StepShape
  <2>2. CASE s # current
    BY <2>1, <2>2, EvolvesRefl
  <2>3. CASE s = current
    BY <2>1, <2>3 DEF Evolves, Shape, Step
  <2> QED
    BY <2>2, <2>3
<1> HIDE DEF new
<1>6. Quiet
  <2>1. step' = [s \in Id |-> new[s]]
    BY <1>4 DEF new
  <2> QED
    BY <1>2, <1>5, <2>1, QuietAll
<1> QED
  BY <1>3, <1>6

LEMMA QuietCancels ==
    ASSUME RunTypeOK, StepShape, Cancel \/ Again
    PROVE  Quiet /\ ControlType'
<1>1. UNCHANGED <<calls, made, frame, current>>
  BY DEF Cancel, Again, environment
<1>2. ControlType'
  <2>1. /\ UNCHANGED <<status, reason, deferred, overdue, authorized>>
        /\ todo' \in {"none", todo}
    BY DEF Cancel, Again, environment
  <2>2. faults' \in 0 .. MaxFaults
    BY PlanAssumption DEF Cancel, Again, environment, Fault, RunTypeOK
  <2> QED
    BY <2>1, <2>2 DEF ControlType, RunTypeOK
<1>3. step' = step \/ step' = Cancelled(current)
  BY DEF Cancel, Again
<1>4. current \in 0 .. made
  BY DEF RunTypeOK
<1>5. Quiet
  BY <1>1, <1>3, <1>4, CancelledEvolves, QuietKeepsSteps DEF Quiet
<1> QED
  BY <1>2, <1>5

LEMMA QuietProceed == ASSUME RunTypeOK, StepShape, Proceed PROVE Quiet /\ ControlType'
<1>1. /\ UNCHANGED <<calls, made, frame, status, reason, overdue, authorized>>
      /\ todo' = "none"
  BY DEF Proceed
<1>2. CASE UNCHANGED <<step, current, deferred, faults>>
  <2>1. ControlType'
    BY <1>1, <1>2 DEF ControlType, RunTypeOK
  <2> QED
    BY <1>1, <1>2, <2>1, QuietKeepsSteps
<1>3. CASE current # 0 /\ GivenUp
  <2>1. PICK to \in {"timed_out", "paused"} : DropStep(to)
    BY <1>3 DEF Proceed
  <2>2. current \in Id /\ current \in 0 .. made
    BY <1>3, Ids DEF RunTypeOK, Id
  <2>3. ControlType'
    <3>1. deferred' = FALSE
      BY <2>1 DEF DropStep
    <3>2. faults' = faults \/ Fault
      BY <2>1 DEF DropStep
    <3>3. faults' \in 0 .. MaxFaults
      BY <3>2, PlanAssumption DEF Fault, RunTypeOK
    <3> QED
      BY <1>1, <3>1, <3>3 DEF ControlType, RunTypeOK
  <2>4. PICK before \in {step, Cancelled(current)} :
           step' = [before EXCEPT ![current].status = to]
    BY <2>1 DEF DropStep
  <2>5. before \in [Id -> Step] /\ \A s \in Id : Evolves(step[s], before[s])
    BY <2>2, CancelledEvolves, EvolvesRefl DEF RunTypeOK, StepShape
  <2> DEFINE last == [before[current] EXCEPT !.status = to]
  <2>6. step' = [s \in Id |-> IF s = current THEN last ELSE before[s]]
    BY <2>2, <2>4, <2>5
  <2>7. Evolves(step[current], last)
    <3>1. before[current] \in Step /\ Shape(before[current])
      BY <2>2, <2>5, EvolvesShape DEF StepShape
    <3>2. Evolves(before[current], last)
      BY <3>1, EvolvesStatus
    <3> QED
      BY <2>2, <2>5, <3>2, EvolvesTrans
  <2> HIDE DEF last
  <2>8. current' \in {current, 0}
    BY <2>1 DEF DropStep
  <2> QED
    BY <1>1, <2>3, <2>5, <2>6, <2>7, <2>8 DEF Quiet
<1> QED
  BY <1>2, <1>3 DEF Proceed

LEMMA QuietErasures ==
    ASSUME RunTypeOK, StepShape, Forget \/ Erase \/ Hide
    PROVE  Quiet /\ ControlType'
<1>1. UNCHANGED <<calls, made, frame, current>>
  BY DEF Forget, Erase, Hide, environment
<1>2. ControlType'
  <2>1. /\ status' \in {"forgotten", "failed"} /\ reason' \in {"none", reason}
        /\ deferred' \in {FALSE, deferred} /\ authorized' \in {FALSE, authorized}
        /\ UNCHANGED <<overdue, todo, faults>>
    BY DEF Forget, Erase, Hide, environment, Settle
  <2>2. status' \in {"none", "forgotten"} \cup Active \cup Terminal
    BY <2>1 DEF Terminal
  <2> QED
    BY <2>1, <2>2 DEF ControlType, RunTypeOK
<1>3. step' = [s \in Id |-> step'[s]] /\ \A s \in Id : Evolves(step[s], step'[s])
  <2>1. \A s \in Id : step[s] \in Step /\ Shape(step[s])
    BY DEF RunTypeOK, StepShape
  <2>2. CASE Forget
    <3>1. \A s \in Id : step[s].exec = "busy" => step[s].asked
      BY <2>1 DEF Shape
    <3> QED
      BY <2>1, <2>2, <3>1, EvolvesRefl, EvolvesOver DEF Forget
  <2>3. CASE Erase
    BY <2>1, <2>3, EvolvesRefl, EvolvesOver DEF Erase
  <2>4. CASE Hide
    <3>1. step' = [s \in Id |-> [step[s] EXCEPT
             !.status = IF s <= made /\ @ \in {"pending", "running"} THEN "paused" ELSE @,
             !.exec = IF @ = "busy" THEN "over" ELSE @]]
      BY <2>4 DEF Hide
    <3>2. ASSUME NEW s \in Id PROVE Evolves(step[s], step'[s])
      BY <2>1, <3>1 DEF Evolves, Shape, Step
    <3> QED
      BY <3>1, <3>2
  <2> QED
    BY <2>2, <2>3, <2>4
<1> QED
  BY <1>1, <1>2, <1>3 DEF Quiet

LEMMA QuietCrash == ASSUME RunTypeOK, StepShape, Crash PROVE Quiet /\ ControlType'
<1>1. UNCHANGED <<calls, made, frame, current, overdue, authorized>> /\ todo' = "none"
  BY DEF Crash
<1>2. ControlType'
  <2>1. /\ status' \in {"timed_out", "paused", status}
        /\ reason' \in {"none", "server_restart", reason} /\ deferred' \in {FALSE, deferred}
    BY DEF Crash, Settle
  <2>2. faults' \in 0 .. MaxFaults
    BY PlanAssumption DEF Crash, Fault, RunTypeOK
  <2>3. /\ status' \in {"none", "forgotten"} \cup Active \cup Terminal
        /\ reason' \in {"none"} \cup Reason
    BY <2>1 DEF RunTypeOK, Active, Terminal, Reason
  <2> QED
    BY <1>1, <2>1, <2>2, <2>3 DEF ControlType, RunTypeOK
<1>3. PICK answers \in [Id -> {"ended", "fenced", "timeout"}] :
         step' = [s \in Id |->
             IF s = current /\ status \in Active /\ authorized /\ Interrupted(s, answers).asked
             THEN [Interrupted(s, answers) EXCEPT !.exec = "over"]
             ELSE Interrupted(s, answers)]
  BY DEF Crash
<1>4. ASSUME NEW s \in Id PROVE Evolves(step[s], step'[s])
  <2>1. step[s] \in Step /\ Shape(step[s])
    BY DEF RunTypeOK, StepShape
  <2>2. Evolves(step[s], Interrupted(s, answers))
    <3>1. CASE step[s].exec = "busy" /\ Kind[step[s].node] # "local"
      <4>1. step[s].asked /\ step[s].answer = "none"
        BY <2>1, <3>1 DEF Shape
      <4>2. answers[s] \in Success \cup Failure
        BY DEF Failure
      <4> QED
        BY <2>1, <3>1, <4>1, <4>2, EvolvesAnswer DEF Interrupted
    <3>2. CASE ~(step[s].exec = "busy" /\ Kind[step[s].node] # "local")
      BY <2>1, <3>2, EvolvesRefl DEF Interrupted
    <3> QED
      BY <3>1, <3>2
  <2>3. Interrupted(s, answers) \in Step /\ Shape(Interrupted(s, answers))
    BY <2>1, <2>2, EvolvesShape DEF Evolves
  <2>4. step'[s] = Interrupted(s, answers)
        \/ (Interrupted(s, answers).asked
            /\ step'[s] = [Interrupted(s, answers) EXCEPT !.exec = "over"])
    BY <1>3
  <2> QED
    BY <2>2, <2>3, <2>4, EvolvesOver, EvolvesTrans
<1>5. step' = [s \in Id |-> step'[s]]
  BY <1>3
<1> QED
  BY <1>1, <1>2, <1>4, <1>5 DEF Quiet
-----------------------------------------------------------------------------
(* The actions that move the plan on.                                      *)

\* A step that is heard keeps what it says.
LEMMA HeardOnly ==
    ASSUME IInv, NEW c \in Id, NEW to \in {"completed", "failed", "timed_out"},
           step[c].answer # "none", Hear(c, to), UNCHANGED made
    PROVE  /\ step' \in [Id -> Step] /\ StepShape' /\ Future' /\ Frozen
           /\ step'[c].heard /\ step'[c].answer = step[c].answer
<1> USE DEF IInv
<1> DEFINE n == [step[c] EXCEPT !.heard = TRUE, !.status = to]
<1>1. step[c] \in Step /\ Shape(step[c])
  BY DEF RunTypeOK, StepShape
<1>2. /\ n \in Step /\ Shape(n) /\ n.heard /\ n.answer = step[c].answer
      /\ n.node = step[c].node /\ n.parent = step[c].parent /\ n.asked = step[c].asked
  BY <1>1 DEF Step, Shape
<1>3. step' = [step EXCEPT ![c] = n]
  BY DEF Hear
<1> HIDE DEF n
<1> QED
  BY <1>2, <1>3 DEF RunTypeOK, StepShape, Future, Frozen

LEMMA HearsOnly ==
    ASSUME IInv, NEW s \in Id, HearFailure(s) \/ HearInvalid(s) \/ HearConflict(s) \/ HearLast(s)
    PROVE  IInv'
<1> USE DEF IInv
<1>1. /\ UNCHANGED <<calls, made, todo, overdue, authorized, faults, current, frame>>
      /\ s = current /\ s # 0
  BY DEF HearFailure, HearInvalid, HearConflict, HearLast, Answered, environment
<1>2. step[s].answer # "none"
  BY PlanAssumption DEF HearFailure, HearInvalid, HearConflict, HearLast, Answered, Failure,
                        Success
<1>3. PICK to \in {"completed", "failed", "timed_out"} : Hear(s, to)
  BY DEF HearFailure, HearInvalid, HearConflict, HearLast
<1>5. /\ step' \in [Id -> Step] /\ StepShape' /\ Future' /\ Frozen
      /\ step'[s].heard /\ step'[s].answer = step[s].answer
  BY <1>1, <1>2, <1>3, HeardOnly
<1>6. RunTypeOK'
  <2>1. /\ status' \in {"paused", "failed", "completed"}
        /\ reason' \in {"agent_timeout", "none", "instruction_conflict"} /\ deferred' = FALSE
    BY DEF HearFailure, HearInvalid, HearConflict, HearLast, Settle
  <2>2. /\ status' \in {"none", "forgotten"} \cup Active \cup Terminal
        /\ reason' \in {"none"} \cup Reason
    BY <2>1 DEF Active, Terminal, Reason
  <2> QED
    BY <1>1, <1>5, <2>1, <2>2 DEF RunTypeOK
<1>7. CurrentIsFrame'
  BY <1>1, <1>5 DEF CurrentIsFrame
<1>8. Lineage' /\ CallChain'
  BY <1>1, <1>5, Ids, FrozenLineage, FrozenCallChain
<1> QED
  BY <1>5, <1>6, <1>7, <1>8

LEMMA AskStep == ASSUME IInv, Ask PROVE IInv'
<1> USE DEF IInv
<1> DEFINE n == [step[current] EXCEPT !.asked = TRUE, !.status = "running",
                    !.exec = IF Kind[step[current].node] = "local" THEN "idle" ELSE "busy"]
<1>1. current \in Id /\ current \in 1 .. made /\ step[current].status = "pending"
  BY Ids DEF Ask, Pending, RunTypeOK, Id
<1>2. step[current] \in Step /\ Shape(step[current])
  BY <1>1 DEF RunTypeOK, StepShape
<1>3. /\ n \in Step /\ Shape(n) /\ n.heard = step[current].heard
      /\ n.answer = step[current].answer
      /\ n.node = step[current].node /\ n.parent = step[current].parent
  BY <1>1, <1>2 DEF Step, Shape
<1>4. step' = [step EXCEPT ![current] = n]
  BY DEF Ask
<1>5. /\ UNCHANGED <<status, reason, made, current, frame, deferred, todo, overdue, authorized,
                     faults>>
      /\ calls < MaxCalls /\ calls' = calls + 1
  BY DEF Ask, environment
<1> HIDE DEF n
<1>6. RunTypeOK'
  <2>1. step' \in [Id -> Step]
    BY <1>3, <1>4 DEF RunTypeOK
  <2>2. calls' \in 0 .. MaxCalls
    BY <1>5, PlanAssumption DEF RunTypeOK
  <2> QED
    BY <1>5, <2>1, <2>2 DEF RunTypeOK
<1>7. Frozen
  BY <1>3, <1>4 DEF Frozen, RunTypeOK
<1>8. StepShape' /\ CurrentIsFrame'
  BY <1>1, <1>3, <1>4, <1>5 DEF StepShape, CurrentIsFrame, RunTypeOK
<1>9. Future'
  BY <1>1, <1>4, <1>5, Ids DEF Future, RunTypeOK
<1>10. Lineage' /\ CallChain'
  BY <1>5, <1>7, Ids, FrozenLineage, FrozenCallChain
<1> QED
  BY <1>6, <1>8, <1>9, <1>10

LEMMA PrepareStep == ASSUME IInv, Prepare PROVE IInv'
<1> USE DEF IInv
<1> DEFINE new == NewStep(frame.node, frame.parent)
<1>1. /\ made + 1 \in Id /\ made \in Nat
      /\ made' = made + 1 /\ current' = made + 1 /\ step' = [step EXCEPT ![made + 1] = new]
      /\ UNCHANGED <<status, reason, calls, frame, deferred, todo, overdue, authorized, faults>>
  BY Ids, PlanAssumption DEF Prepare, Id, environment
<1>2. /\ new \in Step /\ Shape(new) /\ ~new.asked
      /\ new.node = frame.node /\ new.parent = frame.parent
  BY DEF NewStep, Step, Shape, RunTypeOK
<1> HIDE DEF new
<1>3. /\ step' \in [Id -> Step] /\ step'[made + 1] = new
      /\ \A s \in Id : s # made + 1 => step'[s] = step[s]
  BY <1>1, <1>2 DEF RunTypeOK
<1>4. RunTypeOK'
  BY <1>1, <1>3, PlanAssumption DEF RunTypeOK, Id
<1>5. StepShape' /\ CurrentIsFrame'
  BY <1>1, <1>2, <1>3 DEF StepShape, CurrentIsFrame
<1>6. Future'
  BY <1>1, <1>2, <1>3 DEF Future, Id
<1>7. ASSUME NEW t \in 1 .. made
      PROVE  t \in Id /\ t # made + 1 /\ step'[t] = step[t]
  BY <1>1, <1>3, Ids
<1>8. CallChain'
  <2>1. \A i \in DOMAIN frame.stack : frame.stack[i] \in 1 .. made
    BY DEF CallChain
  <2>2. \A i \in DOMAIN frame.stack : step'[frame.stack[i]] = step[frame.stack[i]]
    BY <1>7, <2>1
  <2>3. \A i \in DOMAIN frame.stack : frame.stack[i] \in 1 .. made'
    BY <1>1, <2>1
  <2>4. \A i \in DOMAIN frame.stack :
           /\ step'[frame.stack[i]].heard
           /\ <<step'[frame.stack[i]].node, step'[frame.stack[i]].answer>> \in Edge
           /\ step'[frame.stack[i]].parent = IF i = 1 THEN 0 ELSE frame.stack[i - 1]
    BY <2>2 DEF CallChain, Allowed
  <2>5. /\ frame.parent = IF Len(frame.stack) + 1 = 1 THEN 0
                          ELSE frame.stack[(Len(frame.stack) + 1) - 1]
        /\ frame.node = IF frame.stack = <<>> THEN Entry ELSE step'[Top(frame.stack)].answer
    BY <2>2, TopIndex DEF CallChain, Top
  <2> QED
    BY <1>1, <2>3, <2>4, <2>5 DEF CallChain, Top, Allowed
<1>9. Lineage'
  <2> SUFFICES ASSUME NEW s \in 1 .. made'
               PROVE  IF step'[s].parent = 0 THEN step'[s].node = Entry
                      ELSE /\ step'[s].parent < s /\ step'[step'[s].parent].heard
                           /\ Allowed(step[s].parent)'
                           /\ step'[s].node = step'[step'[s].parent].answer
    BY DEF Lineage, Allowed
  <2>1. CASE s = made + 1
    <3>1. CASE frame.stack = <<>>
      <4>1. frame.parent = 0 /\ frame.node = Entry
        BY <3>1, EmptySeq DEF CallChain
      <4> QED
        BY <1>2, <1>3, <2>1, <4>1
    <3>2. CASE frame.stack # <<>>
      <4> DEFINE p == Top(frame.stack)
      <4>1. Len(frame.stack) \in DOMAIN frame.stack /\ Len(frame.stack) + 1 # 1
        BY <3>2, TopIndex, LenProperties, EmptySeq DEF RunTypeOK
      <4>2. frame.parent = p
        BY <4>1, LenProperties DEF CallChain, Top, RunTypeOK
      <4>3. p \in 1 .. made /\ step[p].heard /\ <<step[p].node, step[p].answer>> \in Edge
        BY <4>1 DEF CallChain, Top, Allowed
      <4>4. frame.node = step[p].answer
        BY <3>2 DEF CallChain
      <4>5. step'[p] = step[p]
        BY <1>7, <4>3
      <4>6. step'[s].parent = p /\ step'[s].node = step[p].answer /\ p # 0 /\ p < s
        BY <1>1, <1>2, <1>3, <2>1, <4>2, <4>3, <4>4
      <4> QED
        BY <4>3, <4>5, <4>6 DEF Allowed
    <3> QED
      BY <3>1, <3>2
  <2>2. CASE s # made + 1
    <3> DEFINE p == step[s].parent
    <3>1. s \in 1 .. made
      BY <1>1, <2>2
    <3>2. step'[s] = step[s] /\ step[s] \in Step
      BY <1>7, <3>1, Ids DEF RunTypeOK
    <3>3. CASE p = 0
      BY <3>1, <3>2, <3>3 DEF Lineage
    <3>4. CASE p # 0
      <4>1. /\ p < s /\ step[p].heard /\ <<step[p].node, step[p].answer>> \in Edge
            /\ step[s].node = step[p].answer
        BY <3>1, <3>4 DEF Lineage, Allowed
      <4>2. p \in 1 .. made
        BY <1>1, <3>1, <3>2, <3>4, <4>1 DEF Step
      <4> QED
        BY <1>7, <3>2, <3>4, <4>1, <4>2 DEF Allowed
    <3> QED
      BY <3>3, <3>4
  <2> QED
    BY <2>1, <2>2
<1> QED
  BY <1>4, <1>5, <1>6, <1>8, <1>9

\* What both kinds of transition share.
LEMMA FollowStep ==
    ASSUME IInv, NEW s \in Id, HearDelegation(s) \/ HearReturn(s),
           frame' \in [node: Node, parent: 0 .. MaxSteps, stack: Seq(Id)]
    PROVE  /\ RunTypeOK' /\ StepShape' /\ CurrentIsFrame' /\ Future' /\ Lineage'
           /\ Frozen /\ step'[s].heard /\ step'[s].answer = step[s].answer
           /\ s \in 1 .. made /\ made' = made
           /\ step[s].node = frame.node /\ step[s].parent = frame.parent
<1> USE DEF IInv
<1>1. /\ UNCHANGED <<calls, made, todo, overdue, authorized, faults>>
      /\ s = current /\ s # 0 /\ ~step[s].heard /\ current' = 0
  BY DEF HearDelegation, HearReturn, Answered, Follow, Waits, environment
<1>2. step[s].answer # "none"
  BY PlanAssumption DEF HearDelegation, HearReturn, Answered
<1>3. Hear(s, "completed")
  BY DEF HearDelegation, HearReturn
<1>4. /\ step' \in [Id -> Step] /\ StepShape' /\ Future' /\ Frozen
      /\ step'[s].heard /\ step'[s].answer = step[s].answer
  BY <1>1, <1>2, <1>3, HeardOnly
<1>5. RunTypeOK'
  <2>1. status' \in {"call_limit", "running"} /\ reason' = "none" /\ deferred' = FALSE
    BY DEF HearDelegation, HearReturn, Follow, Settle
  <2>2. current' \in 0 .. made
    BY <1>1, Ids
  <2> QED
    BY <1>1, <1>4, <2>1, <2>2 DEF RunTypeOK, Active, Terminal
<1>6. s \in 1 .. made
  BY <1>1, Ids DEF RunTypeOK, Id
<1> QED
  BY <1>1, <1>4, <1>5, <1>6, FrozenLineage DEF CurrentIsFrame

LEMMA DelegationStep == ASSUME IInv, NEW s \in Id, HearDelegation(s) PROVE IInv'
<1> USE DEF IInv
<1> DEFINE stack == frame.stack
           new == Append(stack, s)
<1>1. /\ frame' = [node |-> step[s].answer, parent |-> s, stack |-> new]
      /\ step[s].answer \in Node /\ <<step[s].node, step[s].answer>> \in Edge
  BY DEF HearDelegation, Follow, Answered, Allowed
<1>2. stack \in Seq(Id) /\ new \in Seq(Id) /\ s \in 0 .. MaxSteps
  BY PlanAssumption, AppendProperties DEF RunTypeOK, Id
<1>3. frame' \in [node: Node, parent: 0 .. MaxSteps, stack: Seq(Id)]
  BY <1>1, <1>2
<1>4. /\ RunTypeOK' /\ StepShape' /\ CurrentIsFrame' /\ Future' /\ Lineage'
      /\ Frozen /\ step'[s].heard /\ step'[s].answer = step[s].answer
      /\ s \in 1 .. made /\ made' = made
      /\ step[s].node = frame.node /\ step[s].parent = frame.parent
  BY <1>3, FollowStep
<1>5. /\ Len(new) = Len(stack) + 1 /\ new[Len(stack) + 1] = s
      /\ \A i \in 1 .. Len(stack) : new[i] = stack[i]
      /\ DOMAIN stack = 1 .. Len(stack) /\ DOMAIN new = 1 .. Len(stack) + 1
      /\ Len(stack) \in Nat
  BY <1>2, AppendProperties, LenProperties
<1> HIDE DEF new
<1>6. ASSUME NEW i \in DOMAIN new
      PROVE  LET t == new[i] IN
             /\ t \in 1 .. made /\ step'[t].heard
             /\ <<step'[t].node, step'[t].answer>> \in Edge
             /\ step'[t].parent = IF i = 1 THEN 0 ELSE new[i - 1]
  <2>1. CASE i \in 1 .. Len(stack)
    <3>1. i # 1 => i - 1 \in 1 .. Len(stack)
      BY <1>5, <2>1
    <3>2. i \in DOMAIN stack /\ new[i] = stack[i] /\ (i # 1 => new[i - 1] = stack[i - 1])
      BY <1>5, <2>1, <3>1
    <3> QED
      BY <1>4, <3>2, FrozenFrames
  <2>2. CASE i = Len(stack) + 1
    <3>1. i # 1 => i - 1 \in 1 .. Len(stack) /\ i - 1 = Len(stack)
      BY <1>5, <2>2
    <3>2. step[s].parent = IF i = 1 THEN 0 ELSE new[i - 1]
      BY <1>4, <1>5, <2>2, <3>1 DEF CallChain
    <3>3. step'[s].node = step[s].node /\ step'[s].parent = step[s].parent
      BY <1>4 DEF Frozen
    <3> QED
      BY <1>1, <1>4, <1>5, <2>2, <3>2, <3>3
  <2> QED
    BY <1>5, <2>1, <2>2
<1>7. /\ s = IF (Len(stack) + 1) + 1 = 1 THEN 0 ELSE new[((Len(stack) + 1) + 1) - 1]
      /\ new # <<>>
  <2>1. (Len(stack) + 1) + 1 # 1 /\ ((Len(stack) + 1) + 1) - 1 = Len(stack) + 1
    BY <1>5
  <2>2. Len(stack) + 1 # 0
    BY <1>5
  <2> QED
    BY <1>5, <2>1, <2>2, EmptySeq
<1>8. CallChain'
  <2>1. frame'.stack = new /\ frame'.parent = s /\ frame'.node = step[s].answer
    BY <1>1
  <2>2. /\ s = IF Len(new) + 1 = 1 THEN 0 ELSE new[(Len(new) + 1) - 1]
        /\ new[Len(new)] = s
    BY <1>5, <1>7
  <2> HIDE DEF stack
  <2> QED
    BY <1>4, <1>6, <1>7, <2>1, <2>2 DEF CallChain, Top, Allowed
<1> QED
  BY <1>4, <1>8

LEMMA ReturnStep == ASSUME IInv, NEW s \in Id, HearReturn(s) PROVE IInv'
<1> USE DEF IInv
<1> DEFINE stack == frame.stack
           top == stack[Len(stack)]
           rest == SubSeq(stack, 1, Len(stack) - 1)
<1>1. /\ frame' = [node |-> step[top].node, parent |-> step[top].parent, stack |-> rest]
      /\ stack # <<>>
  BY DEF HearReturn, Follow, Top, Rest
<1>2. /\ stack \in Seq(Id) /\ Len(stack) \in Nat /\ DOMAIN stack = 1 .. Len(stack)
      /\ Len(stack) \in DOMAIN stack
  BY <1>1, TopIndex, LenProperties DEF RunTypeOK
<1>3. /\ rest \in Seq(Id) /\ Len(rest) = Len(stack) - 1 /\ DOMAIN rest = 1 .. Len(stack) - 1
      /\ \A i \in 1 .. Len(stack) - 1 : rest[i] = stack[i]
  BY <1>2, SubSeqProperties, LenProperties
<1>4. /\ top \in 1 .. made /\ top \in Id /\ step[top] \in Step /\ step[top].heard
      /\ step[top].parent = IF Len(stack) = 1 THEN 0 ELSE stack[Len(stack) - 1]
  BY <1>2, Ids DEF CallChain, RunTypeOK
<1>5. frame' \in [node: Node, parent: 0 .. MaxSteps, stack: Seq(Id)]
  BY <1>1, <1>3, <1>4 DEF Step
<1>6. /\ RunTypeOK' /\ StepShape' /\ CurrentIsFrame' /\ Future' /\ Lineage'
      /\ Frozen /\ made' = made
  BY <1>5, FollowStep
<1> HIDE DEF rest
<1>7. ASSUME NEW i \in DOMAIN rest
      PROVE  LET t == rest[i] IN
             /\ t \in 1 .. made /\ step'[t].heard
             /\ <<step'[t].node, step'[t].answer>> \in Edge
             /\ step'[t].parent = IF i = 1 THEN 0 ELSE rest[i - 1]
             /\ step'[t].answer = step[t].answer
  <2>1. i \in DOMAIN stack /\ rest[i] = stack[i] /\ (i # 1 => rest[i - 1] = stack[i - 1])
    BY <1>2, <1>3
  <2> QED
    BY <1>6, <2>1, FrozenFrames
<1>8. CASE Len(stack) = 1
  <2>1. rest = <<>>
    BY <1>3, <1>8, EmptySeq
  <2>2. step[top].parent = 0 /\ step[top].node = Entry
    BY <1>4, <1>8 DEF Lineage
  <2>3. frame'.stack = <<>> /\ frame'.parent = 0 /\ frame'.node = Entry
    BY <1>1, <2>1, <2>2
  <2>4. CallChain'
    BY <2>3, EmptySeq DEF CallChain
  <2> QED
    BY <1>6, <2>4
<1>9. CASE Len(stack) # 1
  <2> HIDE DEF stack
  <2>0. Len(stack) - 1 \in 1 .. Len(stack) - 1
    BY <1>2, <1>9
  <2>1. Len(stack) - 1 \in DOMAIN rest /\ rest # <<>> /\ Len(stack) - 1 # 0
    BY <1>3, <2>0, EmptySeq
  <2>2. rest[Len(rest)] = stack[Len(stack) - 1] /\ Len(rest) \in DOMAIN rest
    BY <1>3, <2>1
  <2>3. step[top].parent = rest[Len(rest)] /\ step[top].parent # 0
    <3>1. rest[Len(rest)] \in 1 .. made
      BY <1>7, <2>2
    <3> QED
      BY <1>4, <1>9, <2>2, <3>1
  <2>4. step[top].node = step'[rest[Len(rest)]].answer
    <3>1. step[top].node = step[step[top].parent].answer
      BY <1>4, <2>3 DEF Lineage
    <3> QED
      BY <1>7, <2>2, <2>3, <3>1
  <2>5. frame'.stack = rest /\ frame'.parent = rest[Len(rest)]
        /\ frame'.node = step'[rest[Len(rest)]].answer
    BY <1>1, <2>3, <2>4
  <2>6. Len(rest) + 1 # 1 /\ (Len(rest) + 1) - 1 = Len(rest)
    BY <1>3, <2>0
  <2> HIDE DEF stack, top, rest
  <2>7. CallChain'
    BY <1>6, <1>7, <2>1, <2>5, <2>6 DEF CallChain, Top, Allowed
  <2> QED
    BY <1>6, <2>7
<1> QED
  BY <1>8, <1>9
-----------------------------------------------------------------------------
(* The invariant, for every behaviour.                                     *)

LEMMA InitHolds == ASSUME Init PROVE IInv
<1>1. RunTypeOK
  <2>1. NewStep(Entry, 0) \in Step
    BY PlanAssumption DEF NewStep, Step
  <2>2. step \in [Id -> Step] /\ frame \in [node: Node, parent: 0 .. MaxSteps, stack: Seq(Id)]
    BY <2>1, PlanAssumption, EmptySeq DEF Init
  <2>3. /\ calls \in 0 .. MaxCalls /\ made \in 0 .. MaxSteps /\ current \in 0 .. made
        /\ faults \in 0 .. MaxFaults
    BY PlanAssumption DEF Init
  <2> QED
    BY <2>2, <2>3 DEF Init, RunTypeOK
<1>2. StepShape /\ Future
  BY DEF Init, StepShape, Shape, Future, NewStep
<1>3. CurrentIsFrame /\ Lineage /\ CallChain
  BY EmptySeq DEF Init, CurrentIsFrame, Lineage, CallChain
<1> QED
  BY <1>1, <1>2, <1>3 DEF IInv

\* Every step moves the plan on or leaves it where it is.
LEMMA Kinds ==
    ASSUME IInv, Next
    PROVE  \/ Quiet /\ ControlType'
           \/ Prepare \/ Ask
           \/ \E s \in Id : \/ HearFailure(s) \/ HearInvalid(s) \/ HearConflict(s) \/ HearLast(s)
                            \/ HearDelegation(s) \/ HearReturn(s)
<1> USE DEF IInv
<1>1. ASSUME \/ Start \/ Defer \/ Wake \/ Pause \/ Stop \/ Resume \/ Continue \/ Clarify
             \/ Deadline \/ ChangeAuthority
      PROVE  Quiet /\ ControlType'
  BY <1>1, QuietControls
<1>2. ASSUME EndOverdue \/ EndUnauthorized \/ Refuse
      PROVE  Quiet /\ ControlType'
  BY <1>2, QuietEnds
<1>3. ASSUME Cancel \/ Again
      PROVE  Quiet /\ ControlType'
  BY <1>3, QuietCancels
<1>4. ASSUME Proceed \/ Crash
      PROVE  Quiet /\ ControlType'
  BY <1>4, QuietProceed, QuietCrash
<1>5. ASSUME Forget \/ Erase \/ Hide
      PROVE  Quiet /\ ControlType'
  BY <1>5, QuietErasures
<1>6. ASSUME NEW s \in Id,
             Claim(s) \/ Answer(s) \/ TimeOut(s) \/ ServerEnds(s) \/ Retire(s)
      PROVE  Quiet /\ ControlType'
  BY <1>6, QuietExecutors
<1> QED
  BY <1>1, <1>2, <1>3, <1>4, <1>5, <1>6 DEF Next, Consume

LEMMA NextHolds == ASSUME IInv, [Next]_vars PROVE IInv'
<1>1. CASE Next
  BY <1>1, Kinds, QuietStep, PrepareStep, AskStep, HearsOnly, DelegationStep, ReturnStep
<1>2. CASE UNCHANGED vars
  BY <1>2 DEF vars, IInv, RunTypeOK, StepShape, CurrentIsFrame, Future, Lineage, CallChain, Allowed,
              Top
<1> QED
  BY <1>1, <1>2

LEMMA Invariance == Spec => []IInv
BY InitHolds, NextHolds, PTL DEF Spec

\* Whatever its plan, budget, crashes and controls, a run keeps its shape.
THEOREM TypeCorrect == Spec => []RunTypeOK
<1>1. IInv => RunTypeOK
  BY DEF IInv
<1> QED
  BY <1>1, Invariance, PTL

\* Nobody works for a run but its entry node and whom the author's edges let an
\* answer call, whatever was paused, dropped, repeated or lost in a crash.
THEOREM OnlyDelegated == Spec => []Lineage
<1>1. IInv => Lineage
  BY DEF IInv
<1> QED
  BY <1>1, Invariance, PTL

\* The stack the run returns along is the chain of calls that led to the node
\* it asks next.
THEOREM ReturnsToCaller == Spec => []CallChain
<1>1. IInv => CallChain
  BY DEF IInv
<1> QED
  BY <1>1, Invariance, PTL
-----------------------------------------------------------------------------
(* The budget.                                                             *)

LEMMA AskedFinite == ASSUME RunTypeOK PROVE IsFiniteSet(Asked)
<1>1. IsFiniteSet(1 .. made) /\ Asked \subseteq 1 .. made
  BY FS_Interval, Ids DEF Asked
<1> QED
  BY <1>1, FS_Subset

\* Only Ask spends, and it spends one call for one step.
LEMMA AskedKept ==
    ASSUME IInv, Next, ~Ask
    PROVE  Asked' = Asked /\ calls' = calls
<1> USE DEF IInv
<1>i. 1 .. made \subseteq Id /\ made \in Nat
  BY Ids
<1>1. CASE Quiet
  BY <1>1, <1>i DEF Quiet, Evolves, Asked
<1>2. CASE Prepare
  <2>1. made + 1 \in Id /\ made' = made + 1 /\ calls' = calls
        /\ step' = [step EXCEPT ![made + 1] = NewStep(frame.node, frame.parent)]
    BY <1>2, <1>i, PlanAssumption DEF Prepare, Id
  <2>2. ~step'[made + 1].asked /\ \A s \in 1 .. made : step'[s] = step[s]
    BY <1>i, <2>1 DEF NewStep, RunTypeOK
  <2> QED
    BY <1>i, <2>1, <2>2 DEF Asked
<1>3. ASSUME NEW s \in Id,
             \/ HearFailure(s) \/ HearInvalid(s) \/ HearConflict(s) \/ HearLast(s)
             \/ HearDelegation(s) \/ HearReturn(s)
      PROVE  Asked' = Asked /\ calls' = calls
  <2>1. made' = made /\ calls' = calls
    BY <1>3 DEF HearFailure, HearInvalid, HearConflict, HearLast, HearDelegation, HearReturn,
                Answered
  <2>2. PICK to \in {"completed", "failed", "timed_out"} : Hear(s, to)
    BY <1>3 DEF HearFailure, HearInvalid, HearConflict, HearLast, HearDelegation, HearReturn
  <2>3. \A t \in Id : step'[t].asked = step[t].asked
    BY <2>2 DEF Hear, RunTypeOK, Step
  <2> QED
    BY <1>i, <2>1, <2>3 DEF Asked
<1> QED
  BY <1>1, <1>2, <1>3, Kinds

LEMMA AskSpends ==
    ASSUME IInv, Ask
    PROVE  /\ current \notin Asked /\ Asked' = Asked \cup {current}
           /\ calls' = calls + 1 /\ calls < MaxCalls
<1> USE DEF IInv
<1>1. /\ current \in Id /\ current \in 1 .. made /\ step[current].status = "pending"
      /\ 1 .. made \subseteq Id
  BY Ids DEF Ask, Pending, RunTypeOK, Id
<1>2. /\ made' = made /\ calls' = calls + 1 /\ calls < MaxCalls
      /\ \A s \in Id : step'[s].asked = (step[s].asked \/ s = current)
  BY <1>1 DEF Ask, RunTypeOK, Step
<1> QED
  BY <1>1, <1>2 DEF Asked, StepShape, Shape

\* What a run asks for over its whole life is bounded by the author's limit.
THEOREM BudgetHolds == Spec => []BudgetKept
<1>1. Init => BudgetKept
  BY PlanAssumption, FS_EmptySet DEF Init, BudgetKept, Asked
<1>2. ASSUME IInv, BudgetKept, [Next]_vars PROVE BudgetKept'
  <2>1. CASE Ask
    <3>1. Cardinality(Asked') = Cardinality(Asked) + 1
      BY <1>2, <2>1, AskSpends, AskedFinite, FS_AddElement DEF IInv
    <3>2. calls \in Nat
      BY <1>2 DEF IInv, RunTypeOK
    <3> QED
      BY <1>2, <2>1, <3>1, <3>2, AskSpends, PlanAssumption DEF BudgetKept
  <2>2. CASE Next /\ ~Ask
    BY <1>2, <2>2, AskedKept DEF BudgetKept
  <2>3. CASE UNCHANGED vars
    BY <1>2, <2>3 DEF vars, BudgetKept, Asked
  <2> QED
    BY <1>2, <2>1, <2>2, <2>3
<1> QED
  BY <1>1, <1>2, Invariance, PTL DEF Spec
-----------------------------------------------------------------------------
(* One step after the other.                                               *)
(*                                                                         *)
(* What StepsInOrder says of a running run is prepared while it is halted: *)
(* which control may wake it again, what became of the step it waits for,  *)
(* and what a cancellation that failed has left behind.                    *)

\* The halves of a handler, and the only step a run can wait for.
Steering ==
    /\ status = "none" => made = 0 /\ calls = 0 /\ todo = "none"
    /\ status = "running" => reason = "none" /\ todo # "cancel"
    /\ todo \in Reason => status = "running" /\ authorized
    /\ todo = "cancel" /\ status = "paused" => authorized
    /\ current # 0 => current = made

\* A run that waits for its author has heard the step it waits about.
Explained ==
    /\ (reason = "agent_timeout" \/ todo = "agent_timeout") =>
           current # 0 /\ step[current].heard /\ step[current].answer = "timeout"
    /\ reason = "instruction_conflict" =>
           current # 0 /\ step[current].heard /\ step[current].answer = "clarify"
    /\ todo # "instruction_conflict"

\* Without calls to spend a run can only use an answer it already has.
CanPay ==
    status = "running" /\ ~(calls < MaxCalls) =>
        /\ current # 0 /\ step[current].status # "pending"
        /\ todo \in Reason => Unconsumed

\* Nothing is executing but what the run waits for; and a run whose
\* cancellations never failed does not even wait for that while it is halted.
LeftBehind == faults < 2 /\ status \in Active => \A s \in Id : s # current => step[s].exec # "busy"
Stilled ==
    faults = 0 /\ current # 0 /\ (todo \in Reason \/ (status = "paused" /\ todo = "none")) =>
        step[current].exec # "busy"

Ordered == Steering /\ Explained /\ CanPay /\ NoAnswerLost /\ LeftBehind /\ Stilled

LEMMA OrderedStart == ASSUME Init PROVE Ordered
BY PlanAssumption DEF Init, Ordered, Steering, Explained, CanPay, NoAnswerLost, LeftBehind,
   Stilled, Asked, Active, Reason

LEMMA OrderedIsInOrder == ASSUME IInv, Ordered PROVE StepsInOrder
BY DEF Ordered, CanPay, Steering, LeftBehind, StepsInOrder, RoomToAsk, OneAtATime, NoAnswerLost,
   Pending, Active, Reason

\* No new work, and no new directive.
Calm ==
    \A s \in Id : /\ step'[s].exec = "busy" => step[s].exec = "busy"
                  /\ step'[s].answer \in Success => step[s].answer \in Success

LEMMA DirectivesOnly ==
          /\ "none" \notin Success /\ "timeout" \notin Success /\ "cancelled" \notin Success
          /\ "ended" \notin Success /\ "fenced" \notin Success /\ "failed" \notin Success
          /\ "clarify" \in Success /\ "complete" \in Success
          /\ \A x \in Failure : x \notin Success
          /\ Node \subseteq Success
BY PlanAssumption DEF Success, Failure

-----------------------------------------------------------------------------
(* What a quiet step keeps.                                                *)

LEMMA CurrentId == ASSUME RunTypeOK, current # 0 PROVE current \in Id /\ current \in 1 .. made
BY Ids DEF RunTypeOK

LEMMA KeepsAnswers ==
    ASSUME IInv, NoAnswerLost, Quiet, current' = current,
           status' \in Active => status \in Active,
           \A s \in Id : step'[s].answer \in Success => step[s].answer \in Success \/ s = current
    PROVE  NoAnswerLost'
<1>1. made' = made /\ 1 .. made \subseteq Id
  BY Ids DEF Quiet, IInv
<1> QED
  BY <1>1 DEF NoAnswerLost, Asked, Quiet, Evolves

LEMMA KeepsLeft ==
    ASSUME IInv, LeftBehind, current' = current, faults \in Nat,
           status' \in Active => status \in Active, faults' = faults \/ faults' = faults + 1,
           \A s \in Id : step'[s].exec = "busy" => step[s].exec = "busy" \/ s = current
    PROVE  LeftBehind'
BY DEF LeftBehind

LEMMA KeepsExplained ==
    ASSUME IInv, Explained, Quiet, current' = current,
           reason' \in {reason, "none", "user_paused", "server_restart"},
           todo' \in {todo, "none", "cancel", "user_paused", "server_restart"}
    PROVE  Explained'
<1>1. current # 0 => current \in Id
  BY CurrentId DEF IInv
<1>2. current # 0 /\ step[current].heard =>
         step'[current].heard /\ (step[current].answer # "none" =>
                                      step'[current].answer = step[current].answer)
  BY <1>1 DEF Quiet, Evolves
<1> QED
  BY <1>1, <1>2 DEF Explained

\* An ending leaves little to say.
LEMMA EndedIsOrdered ==
    ASSUME IInv, Ordered, Quiet, Calm, current' = current, faults \in Nat,
           status' \in {"forgotten"} \cup Terminal, faults' = faults \/ faults' = faults + 1,
           reason' \in {reason, "none"}, todo' \in {"none", "cancel"}
    PROVE  Ordered'
<1>1. status' \notin Active /\ status' # "none"
  BY DEF Active, Terminal
<1>2. Steering' /\ CanPay' /\ Stilled'
  <2>1. made' = made
    BY DEF Quiet
  <2> QED
    BY <1>1, <2>1 DEF Ordered, Steering, CanPay, Stilled, Active, Reason
<1>3. NoAnswerLost' /\ LeftBehind' /\ Explained'
  <2>1. NoAnswerLost /\ LeftBehind /\ Explained
    BY DEF Ordered
  <2> QED
    BY <1>1, <2>1, KeepsAnswers, KeepsLeft, KeepsExplained DEF Calm
<1> QED
  BY <1>2, <1>3 DEF Ordered
-----------------------------------------------------------------------------
(* Which steps are calm.                                                   *)

LEMMA CalmSame == ASSUME UNCHANGED step PROVE Calm
BY DEF Calm

LEMMA CancelledCalm ==
    ASSUME RunTypeOK, StepShape, NEW c \in 0 .. made, NEW s \in Id
    PROVE  /\ Cancelled(c)[s].exec = "busy" => step[s].exec = "busy"
           /\ Cancelled(c)[s].answer \in Success => step[s].answer \in Success
           /\ s = c /\ authorized => Cancelled(c)[s].exec # "busy"
<1>1. step \in [Id -> Step] /\ step[s] \in Step /\ Shape(step[s])
  BY DEF RunTypeOK, StepShape
<1>2. CASE Cancelled(c) = step
  <2>1. s = c /\ authorized => step[s].exec # "busy"
    <3> SUFFICES ASSUME s = c, authorized PROVE step[s].exec # "busy"
      OBVIOUS
    <3>1. c # 0
      BY PlanAssumption DEF Id
    <3>2. CASE ~step[c].asked \/ step[c].exec = "over"
      BY <1>1, <3>2 DEF Shape
    <3>3. CASE ~(~step[c].asked \/ step[c].exec = "over")
      <4>1. Cancelled(c)[c].exec = "over"
        BY <1>1, <3>1, <3>3 DEF Cancelled, Step
      <4> QED
        BY <1>2, <4>1
    <3> QED
      BY <3>2, <3>3
  <2> QED
    BY <1>2, <2>1
<1>3. CASE Cancelled(c) # step
  <2>1. \/ Cancelled(c) = [step EXCEPT ![c].exec = "over", ![c].answer = "cancelled"]
        \/ Cancelled(c) = [step EXCEPT ![c].exec = "over"]
    BY <1>3 DEF Cancelled
  <2>2. s # c => Cancelled(c)[s] = step[s]
    BY <1>1, <2>1
  <2>3. s = c => /\ Cancelled(c)[s].exec = "over"
                 /\ Cancelled(c)[s].answer \in {"cancelled", step[s].answer}
    BY <1>1, <2>1 DEF Step
  <2> QED
    BY <2>2, <2>3, DirectivesOnly
<1> QED
  BY <1>2, <1>3

LEMMA CalmEnds ==
    ASSUME RunTypeOK, StepShape, EndOverdue \/ EndUnauthorized \/ Refuse
    PROVE  /\ Calm /\ current' = current /\ faults' = faults /\ status' \in Terminal
           /\ reason' = "none" /\ todo' = "cancel"
<1>1. PICK to \in {"timed_out", "failed"}, b \in BOOLEAN : EndAs(to, b)
  BY DEF EndOverdue, EndUnauthorized, Refuse
<1>2. /\ current' = current /\ faults' = faults /\ status' \in Terminal
      /\ reason' = "none" /\ todo' = "cancel"
  BY <1>1 DEF EndAs, Settle, environment, Terminal
<1>3. step' = [s \in Id |->
           IF s # current THEN step[s]
           ELSE [step[s] EXCEPT
                   !.status = IF @ \in {"pending", "running"} THEN "paused" ELSE @,
                   !.exec = IF b /\ @ = "busy" /\ Kind[step[s].node] = "local"
                            THEN "over" ELSE @]]
  BY <1>1 DEF EndAs
<1>4. Calm
  <2> SUFFICES ASSUME NEW s \in Id
               PROVE  /\ step'[s].exec = "busy" => step[s].exec = "busy"
                      /\ step'[s].answer = step[s].answer
    BY DEF Calm
  <2>1. step[s] \in Step
    BY DEF RunTypeOK
  <2> QED
    BY <1>3, <2>1 DEF Step
<1> QED
  BY <1>2, <1>4

LEMMA CalmErasures ==
    ASSUME RunTypeOK, StepShape, Forget \/ Erase \/ Hide
    PROVE  /\ Calm /\ current' = current /\ faults' = faults
           /\ status' \in {"forgotten"} \cup Terminal
           /\ reason' \in {reason, "none"} /\ todo' = "none"
<1>1. /\ current' = current /\ faults' = faults /\ status' \in {"forgotten"} \cup Terminal
      /\ reason' \in {reason, "none"} /\ todo' = "none"
  BY DEF Forget, Erase, Hide, environment, Settle, Terminal
<1>2. Calm
  <2> SUFFICES ASSUME NEW s \in Id
               PROVE  /\ step'[s].exec = "busy" => step[s].exec = "busy"
                      /\ step'[s].answer = step[s].answer
    BY DEF Calm
  <2>1. step[s] \in Step
    BY DEF RunTypeOK
  <2>2. CASE Forget
    BY <2>1, <2>2 DEF Forget, Step
  <2>3. CASE Erase
    BY <2>1, <2>3 DEF Erase, Step
  <2>4. CASE Hide
    <3>1. step' = [t \in Id |-> [step[t] EXCEPT
             !.status = IF t <= made /\ @ \in {"pending", "running"} THEN "paused" ELSE @,
             !.exec = IF @ = "busy" THEN "over" ELSE @]]
      BY <2>4 DEF Hide
    <3>2. step'[s].answer = step[s].answer /\ step'[s].exec # "busy"
      BY <2>1, <3>1 DEF Step
    <3> QED
      BY <3>2
  <2> QED
    BY <2>2, <2>3, <2>4
<1> QED
  BY <1>1, <1>2

LEMMA CalmCrash ==
    ASSUME RunTypeOK, StepShape, Crash
    PROVE  Calm
<1>1. PICK answers \in [Id -> {"ended", "fenced", "timeout"}] :
         step' = [s \in Id |->
             IF s = current /\ status \in Active /\ authorized /\ Interrupted(s, answers).asked
             THEN [Interrupted(s, answers) EXCEPT !.exec = "over"]
             ELSE Interrupted(s, answers)]
  BY DEF Crash
<1> SUFFICES ASSUME NEW s \in Id
             PROVE  /\ step'[s].exec = "busy" => step[s].exec = "busy"
                    /\ step'[s].answer \in Success => step[s].answer \in Success
  BY DEF Calm
<1>2. step[s] \in Step
  BY DEF RunTypeOK
<1>3. /\ Interrupted(s, answers) \in Step
      /\ Interrupted(s, answers).exec = "busy" => step[s].exec = "busy"
      /\ Interrupted(s, answers).answer \in Success => step[s].answer \in Success
  <2>1. CASE step[s].exec = "busy" /\ Kind[step[s].node] # "local"
    <3>1. Interrupted(s, answers) = [step[s] EXCEPT !.exec = "over", !.answer = answers[s]]
      BY <2>1 DEF Interrupted
    <3>2. answers[s] \in {"ended", "fenced", "timeout"}
      OBVIOUS
    <3>3. answers[s] \notin Success /\ answers[s] \in Failure
      BY <3>2, DirectivesOnly DEF Failure
    <3> QED
      BY <1>2, <3>1, <3>3 DEF Step
  <2>2. CASE ~(step[s].exec = "busy" /\ Kind[step[s].node] # "local")
    BY <1>2, <2>2 DEF Interrupted
  <2> QED
    BY <2>1, <2>2
<1>4. \/ step'[s] = Interrupted(s, answers)
      \/ step'[s] = [Interrupted(s, answers) EXCEPT !.exec = "over"]
  BY <1>1
<1> QED
  BY <1>3, <1>4 DEF Step
-----------------------------------------------------------------------------
(* Every action keeps the order.                                           *)

LEMMA FaultsNat == ASSUME RunTypeOK PROVE faults \in Nat
BY PlanAssumption DEF RunTypeOK

\* Controls that leave the steps alone.
LEMMA OrderedControls ==
    ASSUME IInv, Ordered,
           \/ Start \/ Defer \/ Wake \/ Pause \/ Stop \/ Resume \/ Continue \/ Clarify
           \/ Deadline \/ ChangeAuthority
    PROVE  Ordered'
<1> USE DEF IInv
<1>1. /\ UNCHANGED <<step, calls, made, frame, faults>> /\ current' \in {current, 0}
      /\ Quiet /\ Calm
  BY QuietControls, CalmSame
     DEF Start, Defer, Wake, Pause, Stop, Resume, Continue, Clarify, Deadline, ChangeAuthority,
         environment
<1>2. CASE Start
  <2>1. /\ status = "none" /\ made = 0 /\ calls = 0 /\ todo = "none" /\ current = 0
        /\ current' = 0 /\ status' = "running" /\ reason' = "none" /\ todo' = "none"
    BY <1>2 DEF Start, Settle, Ordered, Steering, RunTypeOK, environment
  <2>2. Asked' = {} /\ \A s \in Id : step[s].exec = "idle"
    BY <1>1, <2>1 DEF Asked, Future, StepShape, Shape, Id
  <2> QED
    BY <1>1, <2>1, <2>2, PlanAssumption
       DEF Ordered, Steering, Explained, CanPay, NoAnswerLost, LeftBehind, Stilled, Reason, Active
<1>3. CASE Defer \/ Wake \/ Deadline \/ ChangeAuthority
  <2>1. UNCHANGED <<status, reason, todo, current>>
        /\ (authorized' = authorized \/ todo = "none")
    BY <1>3 DEF Defer, Wake, Deadline, ChangeAuthority, environment
  <2> QED
    BY <1>1, <2>1 DEF Ordered, Steering, Explained, CanPay, NoAnswerLost, LeftBehind, Stilled,
                     Reason, Active, Asked, Unconsumed
<1>4. CASE Pause
  <2>1. /\ status = "running" /\ status' = "paused" /\ reason' = "user_paused" /\ todo' = "cancel"
        /\ authorized /\ authorized' = authorized /\ current' = current
    BY <1>4 DEF Pause, Settle, environment
  <2> QED
    BY <1>1, <2>1 DEF Ordered, Steering, Explained, CanPay, NoAnswerLost, LeftBehind, Stilled,
                     Reason, Active, Asked
<1>5. CASE Stop
  <2>1. /\ status' = "stopped" /\ reason' = "none" /\ todo' = "cancel" /\ current' = current
    BY <1>5 DEF Stop, Settle, environment
  <2> QED
    BY <1>1, <2>1, FaultsNat, EndedIsOrdered DEF Terminal
<1>6. CASE Resume \/ Continue
  <2>1. /\ status = "paused" /\ todo = "none" /\ authorized /\ authorized' = authorized
        /\ status' = "running" /\ reason' = "none" /\ current' = current
        /\ todo' = reason /\ reason \in {"user_paused", "server_restart", "agent_timeout"}
        /\ calls < MaxCalls \/ Unconsumed
    BY <1>6 DEF Resume, Continue, MayResume, Settle, environment
  <2>2. Unconsumed => current # 0 /\ step[current].status # "pending"
    <3> SUFFICES ASSUME Unconsumed PROVE current # 0 /\ step[current].status # "pending"
      OBVIOUS
    <3>1. current \in Id /\ step[current].answer # "none"
      BY CurrentId, DirectivesOnly DEF Unconsumed
    <3> QED
      BY <3>1 DEF StepShape, Shape, Unconsumed
  <2> QED
    BY <1>1, <2>1, <2>2
       DEF Ordered, Steering, Explained, CanPay, NoAnswerLost, LeftBehind, Stilled,
           Reason, Active, Asked, Unconsumed
<1>7. CASE Clarify
  <2>1. /\ status = "paused" /\ todo = "none" /\ authorized /\ authorized' = authorized
        /\ status' = "running" /\ reason' = "none" /\ current' = 0
        /\ todo' = "none" /\ reason = "instruction_conflict" /\ calls < MaxCalls
    BY <1>7 DEF Clarify, MayResume, Settle, environment
  <2>2. current # 0 /\ step[current].heard /\ current \in Id
    BY <2>1, CurrentId DEF Ordered, Explained
  <2>3. step[current].exec # "busy"
    BY <2>2 DEF StepShape, Shape
  <2> QED
    BY <1>1, <2>1, <2>2, <2>3
       DEF Ordered, Steering, Explained, CanPay, NoAnswerLost, LeftBehind, Stilled,
           Reason, Active, Asked
<1> QED
  BY <1>2, <1>3, <1>4, <1>5, <1>6, <1>7

LEMMA OrderedEnds ==
    ASSUME IInv, Ordered, EndOverdue \/ EndUnauthorized \/ Refuse \/ Forget \/ Erase \/ Hide
    PROVE  Ordered'
<1> USE DEF IInv
<1>1. CASE EndOverdue \/ EndUnauthorized \/ Refuse
  BY <1>1, QuietEnds, CalmEnds, FaultsNat, EndedIsOrdered
<1>2. CASE Forget \/ Erase \/ Hide
  BY <1>2, QuietErasures, CalmErasures, FaultsNat, EndedIsOrdered
<1> QED
  BY <1>1, <1>2

\* Cancelling hits the step in hand.
LEMMA OrderedCancels == ASSUME IInv, Ordered, Cancel \/ Again PROVE Ordered'
<1> USE DEF IInv
<1>1. /\ UNCHANGED <<status, reason, calls, made, current, frame, authorized>>
      /\ todo' = "none" /\ todo \in {"none", "cancel"} /\ Quiet
      /\ faults' = faults \/ faults' = faults + 1
      /\ step' = Cancelled(current) \/ (step' = step /\ faults' = faults + 1)
  BY QuietCancels DEF Cancel, Again, environment, Fault
<1>2. current \in 0 .. made /\ current \in Nat
  BY Ids DEF RunTypeOK
<1>3. Calm
  BY <1>1, <1>2, CancelledCalm, CalmSame DEF Calm
<1>4. status # "running"
  BY DEF Cancel, Again, Ordered, Steering
<1>5. NoAnswerLost' /\ LeftBehind' /\ Explained'
  <2>1. NoAnswerLost /\ LeftBehind /\ Explained
    BY DEF Ordered
  <2> QED
    BY <1>1, <1>3, <2>1, FaultsNat, KeepsAnswers, KeepsLeft, KeepsExplained DEF Calm
<1>6. Steering' /\ CanPay'
  BY <1>1, <1>4 DEF Ordered, Steering, CanPay, Reason
<1>7. Stilled'
  <2> SUFFICES ASSUME faults' = 0, current # 0, status = "paused" PROVE step'[current].exec # "busy"
    BY <1>1, <1>4 DEF Stilled, Reason
  <2>1. step' = Cancelled(current) /\ current \in Id
    BY <1>1, FaultsNat, CurrentId
  <2>2. CASE authorized
    BY <1>2, <2>1, <2>2, CancelledCalm
  <2>3. CASE ~authorized
    <3>1. todo = "none" /\ faults = 0
      BY <1>1, <2>3, FaultsNat DEF Ordered, Steering
    <3>2. step[current].exec # "busy"
      BY <3>1 DEF Ordered, Stilled
    <3> QED
      BY <1>3, <2>1, <3>2 DEF Calm
  <2> QED
    BY <2>2, <2>3
<1> QED
  BY <1>5, <1>6, <1>7 DEF Ordered

\* After a crash a run waits for its author, or is over.
LEMMA OrderedCrash == ASSUME IInv, Ordered, Crash PROVE Ordered'
<1> USE DEF IInv
<1>1. /\ UNCHANGED <<calls, made, current, frame, authorized>> /\ status # "none"
      /\ todo' = "none" /\ faults' = faults + 1 /\ Quiet /\ Calm
      /\ IF status = "running"
         THEN \/ status' = "timed_out" /\ reason' = "none"
              \/ status' = "paused" /\ reason' = "server_restart"
         ELSE UNCHANGED <<status, reason>>
  BY QuietCrash, CalmCrash DEF Crash, Fault, Settle
<1>2. NoAnswerLost' /\ LeftBehind' /\ Explained'
  <2>1. NoAnswerLost /\ LeftBehind /\ Explained
    BY DEF Ordered
  <2>2. /\ status' \in Active => status \in Active
        /\ reason' \in {reason, "none", "user_paused", "server_restart"}
    BY <1>1 DEF Active
  <2> QED
    BY <1>1, <2>1, <2>2, FaultsNat, KeepsAnswers, KeepsLeft, KeepsExplained DEF Calm
<1>3. Steering' /\ CanPay'
  BY <1>1 DEF Ordered, Steering, CanPay, Reason
<1>4. Stilled'
  BY <1>1, FaultsNat DEF Stilled
<1> QED
  BY <1>2, <1>3, <1>4 DEF Ordered

\* Resumed, the run gives up only what will not answer any more.
LEMMA OrderedProceed == ASSUME IInv, Ordered, Proceed PROVE Ordered'
<1> USE DEF IInv
<1>1. /\ UNCHANGED <<status, reason, calls, made, frame, authorized>> /\ Quiet
      /\ todo \in Reason /\ todo' = "none" /\ status = "running" /\ authorized
      /\ reason = "none"
  BY QuietProceed DEF Proceed, Ordered, Steering
<1>2. current # 0 => current \in Id /\ step[current] \in Step /\ Shape(step[current])
  BY CurrentId DEF RunTypeOK, StepShape
<1>3. CASE current # 0 /\ GivenUp
  <2>1. PICK to \in {"timed_out", "paused"} : DropStep(to)
    BY <1>1, <1>3 DEF Proceed
  <2>2. /\ current' = 0
        /\ \/ step' = [Cancelled(current) EXCEPT ![current].status = to] /\ faults' = faults
           \/ step' = [step EXCEPT ![current].status = to] /\ faults' = faults + 1
    BY <2>1 DEF DropStep, Fault
  <2>3. current \in 0 .. made /\ current \in Id
    BY <1>2, <1>3 DEF RunTypeOK
  <2>4. Cancelled(current) \in [Id -> Step] /\ step \in [Id -> Step]
    BY <2>3, CancelledEvolves DEF RunTypeOK
  <2>5. /\ \A s \in Id : s # current => step'[s] = Cancelled(current)[s] \/ step'[s] = step[s]
        /\ step'[current].answer \in {Cancelled(current)[current].answer, step[current].answer}
        /\ \/ step'[current].exec = Cancelled(current)[current].exec /\ faults' = faults
           \/ step'[current].exec = step[current].exec /\ faults' = faults + 1
    BY <2>2, <2>3, <2>4 DEF Step
  <2>6. Calm
    <3> SUFFICES ASSUME NEW s \in Id
                 PROVE  /\ step'[s].exec = "busy" => step[s].exec = "busy"
                        /\ step'[s].answer \in Success => step[s].answer \in Success
      BY DEF Calm
    <3> QED
      BY <2>3, <2>5, CancelledCalm
  <2>7. step[current].answer \in Success => step[current].heard
    <3>1. CASE step[current].answer = "none" \/ step[current].answer = "cancelled"
      BY <3>1, DirectivesOnly
    <3>2. CASE todo = "agent_timeout"
      BY <3>2 DEF Ordered, Explained
    <3>3. CASE step[current].answer \in Failure
      BY <3>3, DirectivesOnly
    <3> QED
      BY <1>3, <3>1, <3>2, <3>3 DEF GivenUp
  <2>8. faults' < 2 => step'[current].exec # "busy"
    <3> SUFFICES ASSUME faults' < 2 PROVE step'[current].exec # "busy"
      OBVIOUS
    <3>1. CASE step'[current].exec = Cancelled(current)[current].exec
      BY <1>1, <2>3, <3>1, CancelledCalm
    <3>2. CASE step'[current].exec = step[current].exec /\ faults' = faults + 1
      <4>1. faults = 0
        BY <3>2, FaultsNat
      <4> QED
        BY <1>1, <1>3, <3>2, <4>1 DEF Ordered, Stilled
    <3> QED
      BY <2>5, <3>1, <3>2
  <2>9. CanPay' /\ Steering' /\ Explained' /\ Stilled'
    <3>1. calls < MaxCalls
      <4> SUFFICES ASSUME ~(calls < MaxCalls) PROVE FALSE
        OBVIOUS
      <4>1. Unconsumed
        BY <1>1 DEF Ordered, CanPay
      <4>2. /\ ~step[current].heard /\ step[current].answer \in Success
        BY <4>1 DEF Unconsumed
      <4> QED
        BY <2>7, <4>2
    <3>2. made' = made
      BY <1>1
    <3> QED
      BY <1>1, <2>2, <3>1, <3>2 DEF Ordered, CanPay, Steering, Explained, Stilled, Reason
  <2>10. NoAnswerLost'
    <3>1. made' = made /\ 1 .. made \subseteq Id
      BY <1>1, Ids
    <3>2. \A s \in Id : step'[s].asked = step[s].asked /\ step'[s].heard = step[s].heard
      BY <1>1 DEF Quiet, Evolves
    <3> QED
      BY <1>1, <2>6, <2>7, <3>1, <3>2 DEF Ordered, NoAnswerLost, Asked, Calm, Active
  <2>11. LeftBehind'
    <3> SUFFICES ASSUME faults' < 2, NEW s \in Id PROVE step'[s].exec # "busy"
      BY DEF LeftBehind
    <3>1. faults < 2
      BY <2>2, FaultsNat
    <3> QED
      BY <1>1, <2>6, <2>8, <3>1 DEF Ordered, LeftBehind, Calm, Active
  <2> QED
    BY <2>9, <2>10, <2>11 DEF Ordered
<1>4. CASE ~(current # 0 /\ GivenUp)
  <2>1. UNCHANGED <<step, current, faults>>
    BY <1>4 DEF Proceed
  <2>2. CanPay'
    <3>1. ~(calls < MaxCalls) => current # 0 /\ step[current].status # "pending"
      BY <1>1 DEF Ordered, CanPay
    <3> QED
      BY <1>1, <2>1, <3>1 DEF CanPay, Reason, Quiet
  <2>3. Steering' /\ Explained' /\ NoAnswerLost' /\ LeftBehind' /\ Stilled'
    BY <1>1, <2>1 DEF Ordered, Steering, Explained, NoAnswerLost, LeftBehind, Stilled, Reason,
                     Active, Asked
  <2> QED
    BY <2>2, <2>3 DEF Ordered
<1> QED
  BY <1>3, <1>4

\* Work is begun and answered only for the step in hand, while it may execute.
LEMMA OrderedExecutors ==
    ASSUME IInv, Ordered, NEW s \in Id,
           Claim(s) \/ Answer(s) \/ TimeOut(s) \/ ServerEnds(s) \/ Retire(s)
    PROVE  Ordered'
<1> USE DEF IInv
<1>1. /\ UNCHANGED <<status, reason, calls, made, frame, current, authorized, todo, faults>>
      /\ todo = "none" \/ status # "paused"
      /\ Quiet
  BY QuietExecutors DEF Claim, Answer, TimeOut, ServerEnds, Retire, Publish, environment,
                        MayExecute, Runnable, Working
<1>2. step[s] \in Step /\ step \in [Id -> Step]
  BY DEF RunTypeOK
<1>3. /\ \A t \in Id : t # s => step'[t] = step[t]
      /\ step'[s].status = step[s].status /\ step'[s].heard = step[s].heard
      /\ step'[s].exec = "busy" => MayExecute(s)
      /\ step'[s].answer \in Success => step[s].answer \in Success \/ MayExecute(s)
  <2>1. CASE Claim(s)
    <3>1. step' = [step EXCEPT ![s].exec = "busy"] /\ MayExecute(s)
      BY <2>1 DEF Claim
    <3> QED
      BY <1>2, <3>1 DEF Step
  <2>2. CASE Answer(s) \/ TimeOut(s) \/ ServerEnds(s)
    <3>1. PICK a \in Success \cup Failure : Publish(s, a) /\ (a \in Success => MayExecute(s))
      <4>1. CASE Answer(s)
        BY <4>1 DEF Answer, Failure
      <4>2. CASE TimeOut(s)
        BY <4>2, DirectivesOnly DEF TimeOut, Failure
      <4>3. CASE ServerEnds(s)
        <5>1. PICK a \in EndedBy(s) : Publish(s, a)
          BY <4>3 DEF ServerEnds
        <5>2. a \in Failure
          BY DEF EndedBy, Failure
        <5> QED
          BY <5>1, <5>2, DirectivesOnly
      <4> QED
        BY <2>2, <4>1, <4>2, <4>3
    <3>2. step' = [step EXCEPT ![s].exec = "over", ![s].answer = a]
      BY <3>1 DEF Publish
    <3> QED
      BY <1>2, <3>1, <3>2 DEF Step
  <2>3. CASE Retire(s)
    <3>1. step' = [step EXCEPT ![s].exec = "over"]
      BY <2>3 DEF Retire
    <3> QED
      BY <1>2, <3>1 DEF Step
  <2> QED
    BY <2>1, <2>2, <2>3
<1>4. MayExecute(s) => s = current /\ status = "running" /\ todo = "none"
  BY DEF MayExecute, Runnable
<1>5. NoAnswerLost' /\ LeftBehind' /\ Explained'
  <2>1. NoAnswerLost /\ LeftBehind /\ Explained
    BY DEF Ordered
  <2>2. \A t \in Id : /\ step'[t].answer \in Success => step[t].answer \in Success \/ t = current
                      /\ step'[t].exec = "busy" => step[t].exec = "busy" \/ t = current
    BY <1>3, <1>4
  <2> QED
    BY <1>1, <2>1, <2>2, FaultsNat, KeepsAnswers, KeepsLeft, KeepsExplained
<1>6. Steering'
  BY <1>1 DEF Ordered, Steering
<1>7. todo = "none"
  BY DEF Claim, Answer, TimeOut, ServerEnds, Retire, Working, MayExecute, Runnable
<1>8. current # 0 => current \in Id
  BY CurrentId
<1>9. CanPay'
  BY <1>1, <1>3, <1>7, <1>8 DEF Ordered, CanPay, Reason
<1>10. Stilled'
  <2> SUFFICES ASSUME faults = 0, current # 0, status = "paused" PROVE step'[current].exec # "busy"
    BY <1>1, <1>7 DEF Stilled, Reason
  <2>1. step[current].exec # "busy"
    BY <1>7 DEF Ordered, Stilled
  <2> QED
    BY <1>3, <1>4, <1>8, <2>1
<1> QED
  BY <1>5, <1>6, <1>9, <1>10 DEF Ordered

\* The next step is asked when nothing else executes and every answer is used.
LEMMA OrderedAsks == ASSUME IInv, Ordered, Prepare \/ Ask PROVE Ordered'
<1> USE DEF IInv
<1>1. /\ status = "running" /\ todo = "none" /\ reason = "none" /\ calls < MaxCalls
      /\ UNCHANGED <<status, reason, todo, authorized, faults>>
  BY DEF Prepare, Ask, Due, Runnable, environment, Ordered, Steering
<1>2. CASE Prepare
  <2>1. /\ made' = made + 1 /\ current' = made + 1 /\ current = 0 /\ calls' = calls
        /\ step' = [step EXCEPT ![made + 1] = NewStep(frame.node, frame.parent)]
        /\ made + 1 \in Id /\ made \in Nat
    BY <1>2, Ids, PlanAssumption DEF Prepare, Id
  <2>2. /\ \A s \in Id : s # made + 1 => step'[s] = step[s]
        /\ ~step'[made + 1].asked
    BY <2>1 DEF RunTypeOK, NewStep
  <2>3. NoAnswerLost'
    <3>1. \A s \in Asked' : s \in Asked /\ step'[s] = step[s] /\ s # current
      BY <2>1, <2>2, Ids DEF Asked, Id
    <3> QED
      BY <1>1, <3>1 DEF Ordered, NoAnswerLost
  <2>4. LeftBehind'
    BY <1>1, <2>1, <2>2 DEF Ordered, LeftBehind, Id
  <2> QED
    BY <1>1, <2>1, <2>3, <2>4 DEF Ordered, Steering, Explained, CanPay, Stilled, Reason
<1>3. CASE Ask
  <2>1. current \in Id /\ step[current].status = "pending" /\ current # 0
    BY <1>3, CurrentId DEF Ask, Pending
  <2>2. /\ UNCHANGED <<made, current>> /\ calls' = calls + 1
        /\ step' = [step EXCEPT ![current].asked = TRUE, ![current].status = "running",
               ![current].exec = IF Kind[step[current].node] = "local" THEN "idle" ELSE "busy"]
    BY <1>3 DEF Ask
  <2>3. /\ \A s \in Id : s # current => step'[s] = step[s]
        /\ step'[current].status = "running"
    BY <2>1, <2>2 DEF RunTypeOK, Step
  <2>4. NoAnswerLost'
    BY <1>1, <2>2, <2>3, Ids DEF Ordered, NoAnswerLost, Asked
  <2>5. LeftBehind'
    BY <1>1, <2>2, <2>3 DEF Ordered, LeftBehind
  <2>6. Steering' /\ Explained' /\ CanPay' /\ Stilled'
    BY <1>1, <2>1, <2>2, <2>3 DEF Ordered, Steering, Explained, CanPay, Stilled, Reason
  <2> QED
    BY <2>4, <2>5, <2>6 DEF Ordered
<1> QED
  BY <1>2, <1>3

\* What is heard is over.
LEMMA OrderedHears ==
    ASSUME IInv, Ordered, NEW s \in Id, Consume(s)
    PROVE  Ordered'
<1> USE DEF IInv
<1>1. /\ status = "running" /\ todo = "none" /\ s = current /\ s # 0
      /\ UNCHANGED <<calls, made, todo, authorized, faults>>
      /\ step[s].answer # "none"
  BY PlanAssumption
     DEF Consume, HearFailure, HearInvalid, HearConflict, HearLast, HearDelegation, HearReturn,
         Answered, Due, Runnable, environment, Failure, Success
<1>2. PICK to \in {"completed", "failed", "timed_out"} : Hear(s, to)
  BY DEF Consume, HearFailure, HearInvalid, HearConflict, HearLast, HearDelegation, HearReturn
<1>3. /\ \A t \in Id : t # s => step'[t] = step[t]
      /\ \A t \in Id : step'[t].exec = step[t].exec /\ step'[t].asked = step[t].asked
      /\ step'[s].heard /\ step'[s].answer = step[s].answer /\ step'[s].exec = "over"
  <2>1. step \in [Id -> Step] /\ step[s].exec = "over"
    BY <1>1 DEF RunTypeOK, StepShape, Shape
  <2> QED
    BY <1>2, <2>1 DEF Hear, Step
<1>4. /\ current' \in {current, 0} /\ status' # "none"
      /\ status' = "running" => reason' = "none" /\ calls < MaxCalls
      /\ reason' = "agent_timeout" => step[s].answer = "timeout" /\ current' = current
      /\ reason' = "instruction_conflict" => step[s].answer = "clarify" /\ current' = current
  <2>1. CASE HearFailure(s)
    BY <2>1 DEF HearFailure, Settle
  <2>2. CASE HearInvalid(s) \/ HearLast(s)
    BY <2>2 DEF HearInvalid, HearLast, Settle
  <2>3. CASE HearConflict(s)
    BY <2>3 DEF HearConflict, Answered, Settle
  <2>4. CASE HearDelegation(s) \/ HearReturn(s)
    <3>1. current' = 0 /\ Settle(IF calls >= MaxCalls THEN "call_limit" ELSE "running", "none")
      BY <2>4 DEF HearDelegation, HearReturn, Follow
    <3>2. calls >= MaxCalls \/ calls < MaxCalls
      BY PlanAssumption DEF RunTypeOK
    <3> QED
      BY <3>1, <3>2 DEF Settle
  <2> QED
    BY <2>1, <2>2, <2>3, <2>4 DEF Consume
<1>5. NoAnswerLost'
  <2>1. Asked' = Asked
    BY <1>1, <1>3, Ids DEF Asked
  <2>2. \A t \in Asked : t \in Id
    BY Ids DEF Asked
  <2> QED
    BY <1>1, <1>3, <2>1, <2>2 DEF Ordered, NoAnswerLost, Active
<1>6. LeftBehind' /\ Stilled'
  BY <1>1, <1>3, <1>4 DEF Ordered, LeftBehind, Stilled, Active, Reason
<1>7. Steering' /\ Explained' /\ CanPay'
  BY <1>1, <1>3, <1>4 DEF Ordered, Steering, Explained, CanPay, Reason
<1> QED
  BY <1>5, <1>6, <1>7 DEF Ordered

LEMMA NextOrdered == ASSUME IInv, Ordered, [Next]_vars PROVE Ordered'
<1>1. ASSUME \/ Start \/ Defer \/ Wake \/ Pause \/ Stop \/ Resume \/ Continue \/ Clarify
             \/ Deadline \/ ChangeAuthority
      PROVE  Ordered'
  BY <1>1, OrderedControls
<1>2. ASSUME EndOverdue \/ EndUnauthorized \/ Refuse \/ Forget \/ Erase \/ Hide
      PROVE  Ordered'
  BY <1>2, OrderedEnds
<1>3. ASSUME Cancel \/ Again \/ Proceed \/ Crash
      PROVE  Ordered'
  BY <1>3, OrderedCancels, OrderedProceed, OrderedCrash
<1>4. ASSUME NEW s \in Id,
             Consume(s) \/ Claim(s) \/ Answer(s) \/ TimeOut(s) \/ ServerEnds(s) \/ Retire(s)
      PROVE  Ordered'
  BY <1>4, OrderedHears, OrderedExecutors
<1>5. ASSUME Prepare \/ Ask
      PROVE  Ordered'
  BY <1>5, OrderedAsks
<1>6. CASE UNCHANGED vars
  BY <1>6 DEF vars, Ordered, Steering, Explained, CanPay, NoAnswerLost, LeftBehind, Stilled,
              Asked, Unconsumed
<1> QED
  BY <1>1, <1>2, <1>3, <1>4, <1>5, <1>6 DEF Next

LEMMA OrderInvariance == Spec => []Ordered
BY OrderedStart, NextOrdered, Invariance, PTL DEF Spec

\* Between two steps a run can pay for the next, has used every answer it got,
\* and has nothing else executing, whatever was paused, dropped, cancelled in
\* vain or interrupted before.
THEOREM OneStepAtATime == Spec => []StepsInOrder
BY OrderInvariance, Invariance, OrderedIsInOrder, PTL
-----------------------------------------------------------------------------
(* What a run cuts off.                                                    *)

\* An action that ends the execution of s unanswered, while the run waits for it.
CutsOff(s) ==
    /\ MayExecute(s) /\ step[s].exec = "busy"
    /\ step'[s].exec = "over" /\ step'[s].answer = "none"

\* The action of NoSelfCancel.
OnlyHalted ==
    \A s \in Id : /\ MayExecute(s) /\ step[s].exec = "busy"
                  /\ step'[s].exec = "over" /\ step'[s].answer = "none"
                  => status' \in {"failed", "forgotten", "paused"}

LEMMA CutByHears ==
    ASSUME RunTypeOK, NEW s \in Id, NEW c \in Id, CutsOff(s),
           Consume(c) \/ Claim(c) \/ Answer(c) \/ TimeOut(c) \/ ServerEnds(c) \/ Retire(c)
    PROVE  FALSE
<1>1. step[c] \in Step /\ step[s] \in Step /\ current = s /\ todo = "none" /\ status = "running"
  BY DEF RunTypeOK, CutsOff, MayExecute, Runnable
<1>2. CASE Consume(c)
  <2>1. PICK to \in {"completed", "failed", "timed_out"} : Hear(c, to)
    BY <1>2 DEF Consume, HearFailure, HearInvalid, HearConflict, HearLast, HearDelegation, HearReturn
  <2> QED
    BY <1>1, <2>1 DEF Hear, RunTypeOK, CutsOff
<1>3. CASE Claim(c)
  BY <1>1, <1>3 DEF Claim, RunTypeOK, CutsOff
<1>4. CASE Answer(c) \/ TimeOut(c) \/ ServerEnds(c)
  <2>1. PICK a \in Success \cup Failure : Publish(c, a)
    BY <1>4 DEF Answer, TimeOut, ServerEnds, EndedBy, Failure
  <2>2. a # "none"
    BY DirectivesOnly DEF Failure
  <2> QED
    BY <1>1, <2>1, <2>2 DEF Publish, RunTypeOK, CutsOff
<1>5. CASE Retire(c)
  <2>1. c # s
    BY <1>1, <1>5 DEF Retire, Halted
  <2> QED
    BY <1>1, <1>5, <2>1 DEF Retire, RunTypeOK, CutsOff
<1> QED
  BY <1>2, <1>3, <1>4, <1>5

LEMMA CutByNext ==
    ASSUME RunTypeOK, Next, NEW s \in Id, CutsOff(s)
    PROVE  status' \in {"failed", "forgotten", "paused"}
<1>1. /\ status = "running" /\ todo = "none" /\ authorized /\ ~overdue
      /\ current = s /\ s # 0 /\ s \in Id /\ step[s].exec = "busy" /\ step'[s].exec = "over"
  BY DEF CutsOff, MayExecute, Runnable, Id
<1>2. step' # step
  BY <1>1
<1>3. ASSUME \/ Start \/ Defer \/ Wake \/ Pause \/ Stop \/ Resume \/ Continue \/ Clarify
             \/ Deadline \/ ChangeAuthority
      PROVE  FALSE
  BY <1>2, <1>3 DEF Start, Defer, Wake, Pause, Stop, Resume, Continue, Clarify, Deadline,
                    ChangeAuthority
<1>4. ASSUME \/ Prepare \/ EndOverdue \/ EndUnauthorized \/ Cancel \/ Proceed \/ Again \/ Forget
      PROVE  FALSE
  <2>1. /\ Prepare => current = 0
        /\ EndOverdue => overdue
        /\ EndUnauthorized => ~authorized
        /\ Cancel => todo = "cancel"
        /\ Proceed => todo \in Reason
        /\ Again => status \in {"paused", "stopped"}
        /\ Forget => status \in Terminal
    BY Zenon DEF Prepare, EndOverdue, EndUnauthorized, Cancel, Proceed, Again, Forget
  <2>2. todo # "cancel" /\ todo \notin Reason /\ status \notin {"paused", "stopped"} \cup Terminal
    BY <1>1 DEF Reason, Terminal
  <2> QED
    BY <1>1, <1>4, <2>1, <2>2
<1>5. ASSUME Ask
      PROVE  FALSE
  BY <1>1, <1>5 DEF Ask, RunTypeOK
<1>6. ASSUME Refuse \/ Crash \/ Erase \/ Hide
      PROVE  status' \in {"failed", "forgotten", "paused"}
  <2>1. (Refuse \/ Hide => status' = "failed") /\ (Erase => status' = "forgotten")
    BY Zenon DEF Refuse, EndAs, Erase, Hide, Settle
  <2>2. Crash /\ status = "running" /\ ~overdue => status' = "paused"
    BY Zenon DEF Crash, Settle
  <2> QED
    BY <1>1, <1>6, <2>1, <2>2
<1>7. ASSUME NEW c \in Id,
             Consume(c) \/ Claim(c) \/ Answer(c) \/ TimeOut(c) \/ ServerEnds(c) \/ Retire(c)
      PROVE  FALSE
  BY <1>7, CutByHears
<1> QED
  BY <1>3, <1>4, <1>5, <1>6, <1>7 DEF Next

\* The execution a run waits for is cut off only by what halts the run in the
\* same step: a refusal, the hiding of its author, an erasure or the restart that
\* pauses it.  No repeated control, retried cancellation or late receipt does.
THEOREM NothingElseCutOff == Spec => NoSelfCancel
<1>1. RunTypeOK /\ [Next]_vars => [OnlyHalted]_vars
  BY CutByNext DEF OnlyHalted, CutsOff
<1>2. Spec => [][OnlyHalted]_vars
  BY <1>1, TypeCorrect, PTL DEF Spec
<1> QED
  BY <1>2, PTL DEF NoSelfCancel, OnlyHalted
-----------------------------------------------------------------------------
(* What the room sees of a run: TeamRun implements TeamControl.            *)

\* The substitutions of Control, by name.
Phase == IF Asked = {} THEN "none"
         ELSE IF todo \in Reason THEN "paused"
         ELSE IF status \in Terminal THEN "ended" ELSE status
Hand == IF current \in Asked THEN current ELSE LastHeard
Used == {s \in Asked : step[s].answer \in Success}
Closed == {s \in Asked : step[s].answer # "none"}

\* The requests of a run have a last one.
HasLast == Asked # {} => \E s \in Asked : \A t \in Asked : t <= s

Seen == IInv /\ Ordered /\ HasLast

LEMMA LastAsked ==
    ASSUME Seen, Asked # {}
    PROVE  Last \in Asked /\ Last \in Id /\ Last # 0 /\ \A t \in Asked : t <= Last
<1>1. Last \in Asked /\ \A t \in Asked : t <= Last
  BY DEF Last, Seen, HasLast
<1>2. Last \in 1 .. made /\ 1 .. made \subseteq Id
  BY <1>1, Ids DEF Asked, Seen, IInv
<1> QED
  BY <1>1, <1>2

LEMMA LastIsCurrent == ASSUME Seen, current \in Asked PROVE Last = current
<1>1. current = made /\ made \in Nat
  BY Ids DEF Seen, Ordered, Steering, IInv, Asked
<1>2. Last \in Asked /\ current <= Last
  BY LastAsked
<1> QED
  BY <1>1, <1>2 DEF Asked

LEMMA HasLastStart == ASSUME Init PROVE HasLast
BY DEF Init, HasLast, Asked

LEMMA HasLastNext == ASSUME Seen, [Next]_vars PROVE HasLast'
<1> USE DEF Seen
<1>1. CASE Ask
  <2>1. Asked' = Asked \cup {current} /\ current = made /\ current # 0
    BY <1>1, AskSpends DEF Ask, Pending, Ordered, Steering
  <2>2. \A t \in Asked : t <= made
    BY Ids DEF Asked, IInv
  <2>3. made <= made
    BY Ids DEF IInv
  <2> QED
    BY <2>1, <2>2, <2>3 DEF HasLast
<1>2. CASE Next /\ ~Ask
  BY <1>2, AskedKept DEF HasLast
<1>3. CASE UNCHANGED vars
  BY <1>3 DEF vars, HasLast, Asked
<1> QED
  BY <1>1, <1>2, <1>3

LEMMA SeenNext == ASSUME Seen, [Next]_vars PROVE Seen'
BY NextHolds, NextOrdered, HasLastNext DEF Seen

LEMMA SeenInvariance == Spec => []Seen
<1>1. Init => Seen
  BY InitHolds, OrderedStart, HasLastStart DEF Seen
<1> QED
  BY <1>1, SeenNext, PTL DEF Spec

\* A step heard with a directive is the last one, or none is.
LEMMA HandSays ==
    ASSUME Seen, Hand # 0
    PROVE  Hand \in Asked /\ Hand \in Id /\ (Hand # current => Hand \in Used)
<1>1. CASE current \in Asked
  BY <1>1, Ids DEF Hand, Asked, Seen, IInv
<1>2. CASE current \notin Asked
  <2>1. /\ Hand = LastHeard /\ LastHeard = Last /\ Last # 0
        /\ step[Last].answer \in Success
    BY <1>2 DEF Hand, LastHeard
  <2>2. Asked # {}
    BY <2>1 DEF Last
  <2> QED
    BY <2>1, <2>2, LastAsked DEF Used
<1> QED
  BY <1>1, <1>2

\* Nothing is unheard, and nothing heard is changed.
HeardKept ==
    \A s \in Id : /\ step'[s].heard = step[s].heard
                  /\ step[s].heard => step'[s].answer = step[s].answer

LEMMA QuietKeepsHeard == ASSUME IInv, Quiet PROVE HeardKept
BY DEF HeardKept, Quiet, Evolves, IInv, StepShape, Shape

\* The hand stays.
LEMMA HandKept ==
    ASSUME Seen, Asked' = Asked,
           \/ current \in Asked /\ current' = current
           \/ current \notin Asked /\ current' \notin Asked /\ HeardKept
    PROVE  Hand' = Hand
<1>1. Last' = Last
  BY DEF Last
<1>2. CASE current \in Asked /\ current' = current
  BY <1>2 DEF Hand
<1>3. CASE current \notin Asked /\ current' \notin Asked /\ HeardKept
  <2>1. CASE Asked = {}
    BY <1>1, <1>3, <2>1 DEF Hand, LastHeard, Last
  <2>2. CASE Asked # {}
    <3>1. /\ step'[Last].heard = step[Last].heard
          /\ step[Last].heard => step'[Last].answer = step[Last].answer
      BY <1>3, <2>2, LastAsked DEF HeardKept
    <3> QED
      BY <1>1, <1>3, <3>1 DEF Hand, LastHeard
  <2> QED
    BY <2>1, <2>2
<1> QED
  BY <1>2, <1>3

\* The step in hand is put down, heard or not.
LEMMA HandDown ==
    ASSUME Seen, Asked' = Asked, current \in Asked, current' = 0
    PROVE  /\ step'[current].heard /\ step'[current].answer \in Success => Hand' = Hand
           /\ ~(step'[current].heard /\ step'[current].answer \in Success) => Hand' = 0
<1>1. Last = current /\ Last' = Last /\ Last # 0
  BY LastIsCurrent, LastAsked DEF Last
<1>2. 0 \notin Asked
  BY DEF Asked
<1>3. Hand = current /\ Hand' = LastHeard'
  BY <1>2 DEF Hand
<1> QED
  BY <1>1, <1>3 DEF LastHeard

\* Answers stay, and directives come from nowhere.
LEMMA ClosedKept ==
    ASSUME RunTypeOK, Asked' = Asked,
           \A s \in Id : step[s].answer # "none" => step'[s].answer = step[s].answer
    PROVE  /\ Closed \subseteq Closed' /\ Closed' \subseteq Asked'
           /\ Used \subseteq Used'
           /\ (\A s \in Id : step'[s].answer \in Success => step[s].answer \in Success)
                => Used' = Used
<1>1. \A s \in Asked : s \in Id
  BY Ids DEF Asked
<1>2. "none" \notin Success
  BY DirectivesOnly
<1> QED
  BY <1>1, <1>2 DEF Closed, Used

LEMMA QuietAnswers ==
    ASSUME Quiet, Next, IInv
    PROVE  /\ Asked' = Asked
           /\ \A s \in Id : step[s].answer # "none" => step'[s].answer = step[s].answer
<1>1. 1 .. made \subseteq Id /\ made' = made
  BY Ids DEF IInv, Quiet
<1> QED
  BY <1>1 DEF Quiet, Evolves, Asked

-----------------------------------------------------------------------------
(* A step of the run is a step of its control.                             *)

Room == \/ Control!Next \/ UNCHANGED <<Phase, Hand, Asked, Used, Closed>>

\* Before anything is asked, nothing is seen.
LEMMA RoomBlank == ASSUME Asked = {}, Asked' = {} PROVE UNCHANGED <<Phase, Hand, Asked, Used, Closed>>
BY DEF Phase, Hand, LastHeard, Last, Used, Closed

LEMMA RoomFails ==
    ASSUME Phase' = Phase, Hand' = Hand, Asked' = Asked, Used' = Used,
           Closed \subseteq Closed', Closed' \subseteq Asked
    PROVE  Control!Next
BY DEF Control!Next, Control!Fail, Control!Breaks, Phase, Hand, Used, Closed

LEMMA RoomHalts ==
    ASSUME Phase \in {"running", "paused"}, Phase' \in {"paused", "ended"},
           Hand' = Hand, Asked' = Asked, Used' = Used,
           Closed \subseteq Closed', Closed' \subseteq Asked
    PROVE  Control!Next
BY DEF Control!Next, Control!Halt, Control!Breaks, Phase, Hand, Used, Closed

LEMMA RoomResumes ==
    ASSUME Phase = "paused", Phase' = "running",
           Hand' = 0 \/ (Hand' = Hand /\ Hand \in Closed), Asked' = Asked, Used' = Used,
           Closed \subseteq Closed', Closed' \subseteq Asked
    PROVE  Control!Next
BY DEF Control!Next, Control!Resume, Control!Breaks, Phase, Hand, Used, Closed

LEMMA RoomForgets ==
    ASSUME Phase # "none", Phase' = "forgotten",
           Hand' = Hand, Asked' = Asked, Used' = Used,
           Closed \subseteq Closed', Closed' \subseteq Asked
    PROVE  Control!Next
BY DEF Control!Next, Control!Forget, Control!Breaks, Phase, Hand, Used, Closed

LEMMA RoomAsks ==
    ASSUME NEW s \in Id, Phase \in {"none", "running"}, s \notin Asked,
           Hand # 0 => Hand \in Used, Phase' = "running", Hand' = s, Asked' = Asked \cup {s},
           Used' = Used, Closed' = Closed
    PROVE  Control!Next
BY DEF Control!Next, Control!Ask, Phase, Hand, Used, Closed

LEMMA RoomAnswers ==
    ASSUME NEW s \in Id, Phase = "running", Hand = s, s \notin Closed,
           Used' = Used \cup {s}, Closed' = Closed \cup {s},
           Phase' = Phase, Hand' = Hand, Asked' = Asked
    PROVE  Control!Next
BY DEF Control!Next, Control!Answer, Phase, Hand, Used, Closed

\* What a quiet and calm step shows the room.
LEMMA CalmRoom ==
    ASSUME Seen, Next, Quiet, Calm, current' = current
    PROVE  /\ Hand' = Hand /\ Asked' = Asked /\ Used' = Used
           /\ Closed \subseteq Closed' /\ Closed' \subseteq Asked
<1> USE DEF Seen
<1>1. /\ Asked' = Asked
      /\ \A s \in Id : step[s].answer # "none" => step'[s].answer = step[s].answer
  BY QuietAnswers
<1>2. Hand' = Hand
  <2>1. HeardKept
    BY QuietKeepsHeard
  <2> QED
    BY <1>1, <2>1, HandKept
<1>3. RunTypeOK
  BY DEF IInv
<1>4. \A s \in Id : step'[s].answer \in Success => step[s].answer \in Success
  BY DEF Calm
<1> QED
  BY <1>1, <1>2, <1>3, <1>4, ClosedKept

LEMMA PhaseNow ==
    ASSUME Seen, Asked # {}
    PROVE  /\ status # "none"
           /\ todo = "none" \/ todo = "cancel" =>
                /\ status = "running" => Phase = "running"
                /\ status = "paused" => Phase = "paused"
                /\ status \in Terminal => Phase = "ended"
                /\ status = "forgotten" => Phase = "forgotten"
           /\ todo \in Reason => Phase = "paused"
<1>1. status # "none"
  BY Ids DEF Seen, Ordered, Steering, Asked, IInv
<1> QED
  BY <1>1 DEF Phase, Reason, Terminal

LEMMA RoomControls ==
    ASSUME Seen, Next,
           \/ Start \/ Defer \/ Wake \/ Pause \/ Stop \/ Resume \/ Continue \/ Clarify
           \/ Deadline \/ ChangeAuthority
    PROVE  Room
<1> USE DEF Seen
<1>i. RunTypeOK /\ StepShape
  BY DEF IInv
<1>1. /\ UNCHANGED <<step, calls, made, frame, faults>> /\ Quiet /\ Calm
  BY <1>i, QuietControls, CalmSame
     DEF Start, Defer, Wake, Pause, Stop, Resume, Continue, Clarify, Deadline, ChangeAuthority,
         environment
<1>2. Asked' = Asked /\ Seen'
  BY <1>1, SeenNext DEF Asked
<1>3. CASE Asked = {}
  BY <1>2, <1>3, RoomBlank DEF Room
<1>4. CASE Asked # {}
  <2>1. status # "none"
    BY <1>4, PhaseNow
  <2>2. CASE Defer \/ Wake \/ Deadline \/ ChangeAuthority
    <3>1. UNCHANGED <<status, todo, current>>
      BY <2>2 DEF Defer, Wake, Deadline, ChangeAuthority, environment
    <3>2. Phase' = Phase
      BY <1>2, <3>1 DEF Phase
    <3> QED
      BY <1>1, <3>1, <3>2, CalmRoom, RoomFails DEF Room
  <2>3. CASE Pause \/ Stop
    <3>1. /\ current' = current /\ status \in Active /\ todo = "none"
          /\ status' \in {"paused", "stopped"} /\ todo' = "cancel"
      BY <2>3 DEF Pause, Stop, Settle, Active
    <3>2. Phase \in {"running", "paused"} /\ Phase' \in {"paused", "ended"}
      BY <1>2, <1>4, <3>1 DEF Phase, Active, Terminal, Reason
    <3> QED
      BY <1>1, <3>1, <3>2, CalmRoom, RoomHalts DEF Room
  <2>4. CASE Resume \/ Continue
    <3>1. /\ current' = current /\ status = "paused" /\ todo = "none" /\ todo' \in Reason
      BY <2>4 DEF Resume, Continue, Settle, MayResume, Reason
    <3>2. Phase' = Phase
      BY <1>2, <1>4, <3>1 DEF Phase, Reason, Terminal
    <3> QED
      BY <1>1, <3>1, <3>2, CalmRoom, RoomFails DEF Room
  <2>5. CASE Clarify
    <3>1. /\ current' = 0 /\ status = "paused" /\ status' = "running" /\ todo = "none"
          /\ todo' = "none" /\ reason = "instruction_conflict"
      BY <2>5 DEF Clarify, Settle, MayResume, environment
    <3>2. /\ current # 0 /\ step[current].heard /\ step[current].answer = "clarify"
          /\ current \in Id /\ current \in 1 .. made
      BY <1>i, <3>1, CurrentId DEF Ordered, Explained
    <3>3. current \in Asked
      BY <1>i, <3>2 DEF Asked, StepShape, Shape
    <3>4. Hand' = Hand /\ Hand \in Closed
      <4>1. Hand' = Hand
        BY <1>1, <1>2, <3>1, <3>2, <3>3, HandDown, DirectivesOnly
      <4> QED
        BY <3>2, <3>3, <4>1 DEF Hand, Closed
    <3>5. Phase = "paused" /\ Phase' = "running"
      BY <1>2, <1>4, <3>1 DEF Phase, Reason, Terminal
    <3>6. Used' = Used /\ Closed' = Closed /\ Closed \subseteq Asked
      BY <1>1, <1>2 DEF Used, Closed
    <3> QED
      BY <1>2, <3>4, <3>5, <3>6, RoomResumes DEF Room
  <2>6. ~Start
    BY <2>1 DEF Start
  <2> QED
    BY <2>2, <2>3, <2>4, <2>5, <2>6
<1> QED
  BY <1>3, <1>4

LEMMA RoomEnds ==
    ASSUME Seen, Next, EndOverdue \/ EndUnauthorized \/ Refuse \/ Forget \/ Erase \/ Hide
    PROVE  Room
<1> USE DEF Seen
<1>i. RunTypeOK /\ StepShape
  BY DEF IInv
<1>1. Quiet /\ Calm /\ current' = current
  BY <1>i, QuietEnds, CalmEnds, QuietErasures, CalmErasures
<1>2. /\ Hand' = Hand /\ Asked' = Asked /\ Used' = Used
      /\ Closed \subseteq Closed' /\ Closed' \subseteq Asked
  BY <1>1, CalmRoom
<1>3. CASE Asked = {}
  BY <1>2, <1>3, RoomBlank DEF Room
<1>4. CASE Asked # {} /\ (EndOverdue \/ EndUnauthorized \/ Refuse \/ Hide)
  <2>1. /\ status \in Active /\ todo = "none" /\ status' \in Terminal /\ todo' \in {"none", "cancel"}
    BY <1>4 DEF EndOverdue, EndUnauthorized, Refuse, Hide, EndAs, Settle, environment, Terminal
  <2>2. Phase \in {"running", "paused"} /\ Phase' \in {"paused", "ended"}
    BY <1>2, <1>4, <2>1 DEF Phase, Active, Terminal, Reason
  <2> QED
    BY <1>2, <2>2, RoomHalts DEF Room
<1>5. CASE Asked # {} /\ (Forget \/ Erase)
  <2>1. status \notin {"none"} /\ todo = "none" /\ status' = "forgotten" /\ todo' = "none"
    BY <1>5 DEF Forget, Erase, environment, Terminal
  <2>2. Phase # "none" /\ Phase' = "forgotten"
    BY <1>2, <1>5, <2>1 DEF Phase, Terminal, Reason
  <2> QED
    BY <1>2, <2>2, RoomForgets DEF Room
<1> QED
  BY <1>3, <1>4, <1>5

LEMMA RoomCancels == ASSUME Seen, Next, Cancel \/ Again PROVE Room
<1> USE DEF Seen
<1>i. RunTypeOK /\ StepShape /\ current \in 0 .. made
  BY DEF IInv, RunTypeOK
<1>1. /\ UNCHANGED <<status, current>> /\ todo' = "none" /\ todo \in {"none", "cancel"}
      /\ step' \in {step, Cancelled(current)} /\ Quiet
  BY <1>i, QuietCancels DEF Cancel, Again, environment
<1>2. Calm
  BY <1>i, <1>1, CancelledCalm, CalmSame DEF Calm
<1>3. /\ Hand' = Hand /\ Asked' = Asked /\ Used' = Used
      /\ Closed \subseteq Closed' /\ Closed' \subseteq Asked
  BY <1>1, <1>2, CalmRoom
<1>4. Phase' = Phase
  BY <1>1, <1>3 DEF Phase, Reason
<1> QED
  BY <1>3, <1>4, RoomFails DEF Room

LEMMA RoomCrash == ASSUME Seen, Next, Crash PROVE Room
<1> USE DEF Seen
<1>i. RunTypeOK /\ StepShape
  BY DEF IInv
<1>1. /\ UNCHANGED current /\ todo' = "none" /\ Quiet /\ Calm
      /\ IF status = "running" THEN status' \in {"timed_out", "paused"} ELSE status' = status
  BY <1>i, QuietCrash, CalmCrash DEF Crash, Settle
<1>2. /\ Hand' = Hand /\ Asked' = Asked /\ Used' = Used
      /\ Closed \subseteq Closed' /\ Closed' \subseteq Asked
  BY <1>1, CalmRoom
<1>3. CASE Asked = {}
  BY <1>2, <1>3, RoomBlank DEF Room
<1>4. CASE Asked # {} /\ status = "running"
  <2>1. Phase \in {"running", "paused"} /\ Phase' \in {"paused", "ended"}
    BY <1>1, <1>2, <1>4 DEF Phase, Terminal, Reason
  <2> QED
    BY <1>2, <2>1, RoomHalts DEF Room
<1>5. CASE Asked # {} /\ status # "running"
  <2>1. todo \notin Reason
    BY <1>5 DEF Ordered, Steering
  <2>2. Phase' = Phase
    BY <1>1, <1>2, <1>5, <2>1 DEF Phase, Reason
  <2> QED
    BY <1>2, <2>2, RoomFails DEF Room
<1> QED
  BY <1>3, <1>4, <1>5

\* Resumed, a run keeps a step that was answered or lets it go.
LEMMA RoomProceeds == ASSUME Seen, Next, Proceed PROVE Room
<1> USE DEF Seen
<1>i. RunTypeOK /\ StepShape
  BY DEF IInv
<1>1. /\ UNCHANGED status /\ Quiet /\ todo \in Reason /\ todo' = "none" /\ status = "running"
  BY <1>i, QuietProceed DEF Proceed, Ordered, Steering
<1>2. /\ Asked' = Asked
      /\ \A s \in Id : step[s].answer # "none" => step'[s].answer = step[s].answer
  BY <1>1, QuietAnswers
<1>3. CASE Asked = {}
  BY <1>2, <1>3, RoomBlank DEF Room
<1>4. CASE Asked # {}
  <2>1. Phase = "paused" /\ Phase' = "running"
    BY <1>1, <1>2, <1>4 DEF Phase, Terminal, Reason
  <2>2. current # 0 => current \in Id /\ current \in 1 .. made
    BY <1>i, CurrentId
  <2>3. CASE current # 0 /\ GivenUp
    <3>1. PICK to \in {"timed_out", "paused"} : DropStep(to)
      BY <1>1, <2>3 DEF Proceed
    <3>2. current' = 0
      BY <3>1 DEF DropStep
    <3>3. PICK before \in {step, Cancelled(current)} :
             step' = [before EXCEPT ![current].status = to]
      BY <3>1 DEF DropStep
    <3>4. current \in 0 .. made /\ before \in [Id -> Step]
      BY <1>i, <3>3, CancelledEvolves DEF RunTypeOK
    <3>5. \A s \in Id : step'[s].answer = before[s].answer
      BY <3>3, <3>4 DEF Step
    <3>6. \A s \in Id : step'[s].answer \in Success => step[s].answer \in Success
      BY <1>i, <3>3, <3>4, <3>5, CancelledCalm
    <3>7. /\ Used' = Used /\ Closed \subseteq Closed' /\ Closed' \subseteq Asked
      BY <1>i, <1>2, <3>6, ClosedKept
    <3>8. HeardKept
      BY <1>1, QuietKeepsHeard
    <3>9. CASE current \in Asked
      <4>1. ~(step[current].answer \in Success /\ ~step[current].heard)
        <5>1. CASE todo = "agent_timeout"
          BY <5>1 DEF Ordered, Explained
        <5>2. CASE todo # "agent_timeout"
          BY <2>3, <5>2, DirectivesOnly DEF GivenUp
        <5> QED
          BY <5>1, <5>2
      <4>2. CASE step'[current].heard /\ step'[current].answer \in Success
        <5>1. Hand' = Hand
          BY <1>2, <3>2, <3>9, <4>2, HandDown
        <5>2. current \in Closed /\ Hand = current
          BY <2>2, <2>3, <3>6, <3>9, <4>2, DirectivesOnly DEF Closed, Hand
        <5> QED
          BY <1>2, <2>1, <3>7, <5>1, <5>2, RoomResumes DEF Room
      <4>3. CASE ~(step'[current].heard /\ step'[current].answer \in Success)
        <5>1. Hand' = 0
          BY <1>2, <3>2, <3>9, <4>3, HandDown
        <5> QED
          BY <1>2, <2>1, <3>7, <5>1, RoomResumes DEF Room
      <4> QED
        BY <4>2, <4>3
    <3>10. CASE current \notin Asked
      <4>1. current' \notin Asked
        BY <3>2 DEF Asked
      <4>2. Hand' = Hand
        BY <1>2, <3>8, <3>10, <4>1, HandKept
      <4>3. Hand # 0 => Hand \in Closed
        BY <3>10, HandSays, DirectivesOnly DEF Used, Closed
      <4> QED
        BY <1>2, <2>1, <3>7, <4>2, <4>3, RoomResumes DEF Room
    <3> QED
      BY <3>9, <3>10
  <2>4. CASE ~(current # 0 /\ GivenUp)
    <3>1. UNCHANGED <<step, current>>
      BY <2>4 DEF Proceed
    <3>2. Hand' = Hand /\ Used' = Used /\ Closed' = Closed /\ Closed \subseteq Asked
      BY <1>2, <3>1 DEF Hand, LastHeard, Last, Used, Closed
    <3>3. Hand # 0 => Hand \in Closed
      <4>1. CASE Hand # current
        BY <4>1, HandSays, DirectivesOnly DEF Used, Closed
      <4>2. CASE Hand = current
        BY <2>4, <4>2, HandSays DEF GivenUp, Closed
      <4> QED
        BY <4>1, <4>2
    <3> QED
      BY <1>2, <2>1, <3>2, <3>3, RoomResumes DEF Room
  <2> QED
    BY <2>3, <2>4
<1> QED
  BY <1>3, <1>4

\* Executors answer the step in hand, or fail.
LEMMA RoomExecutes ==
    ASSUME Seen, Next, NEW s \in Id,
           Claim(s) \/ Answer(s) \/ TimeOut(s) \/ ServerEnds(s) \/ Retire(s)
    PROVE  Room
<1> USE DEF Seen
<1>i. RunTypeOK /\ StepShape /\ step[s] \in Step /\ step \in [Id -> Step] /\ Shape(step[s])
  BY DEF IInv, RunTypeOK, StepShape
<1>1. UNCHANGED <<status, current, todo>> /\ Quiet
  BY <1>i, QuietExecutors DEF Claim, Answer, TimeOut, ServerEnds, Retire, Publish, environment
<1>2. /\ Asked' = Asked
      /\ \A t \in Id : step[t].answer # "none" => step'[t].answer = step[t].answer
      /\ HeardKept
  BY <1>1, QuietAnswers, QuietKeepsHeard
<1>3. Phase' = Phase
  BY <1>1, <1>2 DEF Phase
<1>4. Hand' = Hand
  BY <1>1, <1>2, HandKept
<1>5. CASE \E a \in Success : Publish(s, a) /\ Working(s) /\ MayExecute(s)
  <2>1. PICK a \in Success : Publish(s, a) /\ Working(s) /\ MayExecute(s)
    BY <1>5
  <2>2. /\ s = current /\ status = "running" /\ todo = "none"
        /\ step[s].exec = "busy" /\ step[s].asked /\ step[s].answer = "none"
    BY <1>i, <2>1 DEF MayExecute, Runnable, Working, Shape
  <2>3. s \in Asked
    BY <1>i, <2>2, CurrentId, PlanAssumption DEF Asked, Id
  <2>4. Phase = "running" /\ Hand = s
    BY <2>2, <2>3 DEF Phase, Hand, Reason, Terminal
  <2>5. /\ step'[s].answer = a /\ \A t \in Id : t # s => step'[t] = step[t]
    BY <1>i, <2>1 DEF Publish, Step
  <2>6. \A t \in Asked : t \in Id
    BY <1>i, Ids DEF Asked
  <2>7. s \notin Closed /\ Used' = Used \cup {s} /\ Closed' = Closed \cup {s}
    <3>1. s \notin Closed
      BY <2>2 DEF Closed
    <3>2. Used' = Used \cup {s}
      BY <1>2, <2>3, <2>5, <2>6 DEF Used
    <3>3. Closed' = Closed \cup {s}
      BY <1>2, <2>3, <2>5, <2>6, DirectivesOnly DEF Closed
    <3> QED
      BY <3>1, <3>2, <3>3
  <2> QED
    BY <1>2, <1>3, <1>4, <2>4, <2>7, RoomAnswers DEF Room
<1>6. CASE ~\E a \in Success : Publish(s, a) /\ Working(s) /\ MayExecute(s)
  <2>1. \A t \in Id : step'[t].answer \in Success => step[t].answer \in Success
    <3>1. CASE Claim(s) \/ Retire(s)
      <4>1. \/ step' = [step EXCEPT ![s].exec = "busy"]
            \/ step' = [step EXCEPT ![s].exec = "over"]
        BY <3>1 DEF Claim, Retire
      <4> QED
        BY <1>i, <4>1 DEF Step
    <3>2. CASE Answer(s) \/ TimeOut(s) \/ ServerEnds(s)
      <4>1. PICK a \in Failure : Publish(s, a)
        BY <1>6, <3>2 DEF Answer, TimeOut, ServerEnds, EndedBy, Failure
      <4>2. step' = [step EXCEPT ![s].exec = "over", ![s].answer = a]
        BY <4>1 DEF Publish
      <4> QED
        BY <1>i, <4>2, DirectivesOnly DEF Step
    <3> QED
      BY <3>1, <3>2
  <2>2. Used' = Used /\ Closed \subseteq Closed' /\ Closed' \subseteq Asked
    BY <1>i, <1>2, <2>1, ClosedKept
  <2> QED
    BY <1>2, <1>3, <1>4, <2>2, RoomFails DEF Room
<1> QED
  BY <1>5, <1>6

LEMMA RoomAsked == ASSUME Seen, Next, Prepare \/ Ask PROVE Room
<1> USE DEF Seen
<1>i. RunTypeOK /\ step \in [Id -> Step] /\ 1 .. made \subseteq Id /\ made \in Nat
  BY Ids DEF IInv, RunTypeOK
<1>1. status = "running" /\ todo = "none" /\ UNCHANGED <<status, todo>>
  BY DEF Prepare, Ask, Due, Runnable, environment
<1>2. CASE Prepare
  <2>1. /\ made' = made + 1 /\ current' = made + 1 /\ current = 0
        /\ step' = [step EXCEPT ![made + 1] = NewStep(frame.node, frame.parent)]
        /\ made + 1 \in Id
    BY <1>2, <1>i, PlanAssumption DEF Prepare, Id
  <2>2. \A t \in 1 .. made : step'[t] = step[t]
    BY <1>i, <2>1
  <2>3. ~step'[made + 1].asked
    BY <1>i, <2>1 DEF NewStep
  <2>4. Asked' = Asked /\ current \notin Asked /\ current' \notin Asked
    BY <1>i, <2>1, <2>2, <2>3 DEF Asked
  <2>5. Last' = Last /\ (Asked # {} => Last \in 1 .. made)
    BY <2>4, LastAsked DEF Last, Asked
  <2>6. Hand' = Hand
    <3>1. CASE Asked = {}
      BY <2>4, <3>1 DEF Hand, LastHeard, Last
    <3>2. CASE Asked # {}
      <4>1. step'[Last] = step[Last]
        BY <2>2, <2>5, <3>2
      <4> QED
        BY <2>4, <2>5, <4>1 DEF Hand, LastHeard
    <3> QED
      BY <3>1, <3>2
  <2>7. Used' = Used /\ Closed' = Closed /\ Closed \subseteq Asked
    <3>1. \A t \in Asked : step'[t] = step[t]
      BY <2>2 DEF Asked
    <3> QED
      BY <2>4, <3>1 DEF Used, Closed
  <2>8. Phase' = Phase
    BY <1>1, <2>4 DEF Phase
  <2> QED
    BY <2>4, <2>6, <2>7, <2>8, RoomFails DEF Room
<1>3. CASE Ask
  <2>1. /\ current \notin Asked /\ Asked' = Asked \cup {current} /\ current # 0
        /\ step[current].status = "pending" /\ current' = current /\ current \in Id
    BY <1>3, <1>i, AskSpends, CurrentId DEF Ask, Pending
  <2>2. step[current].answer = "none"
    BY <2>1 DEF IInv, StepShape, Shape
  <2>3. Phase \in {"none", "running"} /\ Phase' = "running"
    BY <1>1, <2>1 DEF Phase, Reason, Terminal
  <2>4. Hand' = current
    BY <2>1 DEF Hand
  <2>5. Hand # 0 => Hand \in Used
    BY <2>1, HandSays
  <2>6. \A t \in Id : step'[t].answer = step[t].answer
    BY <1>3, <1>i, <2>1 DEF Ask, Step
  <2>7. \A t \in Asked' : t \in Id
    BY <1>i, <2>1 DEF Asked
  <2>8. Used' = Used
    BY <2>1, <2>2, <2>6, <2>7, DirectivesOnly DEF Used
  <2>9. Closed' = Closed
    BY <2>1, <2>2, <2>6, <2>7 DEF Closed
  <2> QED
    BY <2>1, <2>3, <2>4, <2>5, <2>8, <2>9, RoomAsks DEF Room
<1> QED
  BY <1>2, <1>3

LEMMA RoomHears == ASSUME Seen, Next, NEW s \in Id, Consume(s) PROVE Room
<1> USE DEF Seen
<1>i. RunTypeOK /\ step \in [Id -> Step] /\ 1 .. made \subseteq Id /\ StepShape
  BY Ids DEF IInv, RunTypeOK
<1>1. /\ status = "running" /\ todo = "none" /\ s = current /\ s # 0
      /\ todo' = "none" /\ made' = made /\ step[s].answer # "none"
  BY PlanAssumption
     DEF Consume, HearFailure, HearInvalid, HearConflict, HearLast, HearDelegation, HearReturn,
         Answered, Due, Runnable, environment, Failure, Success
<1>2. PICK to \in {"completed", "failed", "timed_out"} : Hear(s, to)
  BY DEF Consume, HearFailure, HearInvalid, HearConflict, HearLast, HearDelegation, HearReturn
<1>3. /\ \A t \in Id : step'[t].asked = step[t].asked /\ step'[t].answer = step[t].answer
      /\ step'[s].heard
  BY <1>2, <1>i DEF Hear, Step
<1>4. s \in Asked /\ Asked' = Asked
  BY <1>1, <1>3, <1>i, CurrentId DEF Asked, StepShape, Shape
<1>5. Used' = Used /\ Closed' = Closed /\ Closed \subseteq Asked
  <2>1. \A t \in Asked : t \in Id
    BY <1>i DEF Asked
  <2> QED
    BY <1>3, <1>4, <2>1 DEF Used, Closed
<1>6. Phase = "running"
  BY <1>1, <1>4 DEF Phase, Reason, Terminal
<1>7. CASE HearFailure(s) \/ HearInvalid(s) \/ HearConflict(s) \/ HearLast(s)
  <2>1. current' = current /\ status' \in {"paused", "failed", "completed"}
    BY <1>7 DEF HearFailure, HearInvalid, HearConflict, HearLast, Settle
  <2>2. Hand' = Hand /\ Phase' \in {"paused", "ended"}
    <3>1. Hand' = Hand
      BY <1>1, <1>4, <2>1, HandKept
    <3> QED
      BY <1>1, <1>4, <2>1, <3>1 DEF Phase, Reason, Terminal
  <2> QED
    BY <1>4, <1>5, <1>6, <2>2, RoomHalts DEF Room
<1>8. CASE HearDelegation(s) \/ HearReturn(s)
  <2>1. current' = 0 /\ status' \in {"call_limit", "running"}
    BY <1>8 DEF HearDelegation, HearReturn, Follow, Settle
  <2>2. step'[s].answer \in Success
    BY <1>3, <1>8, DirectivesOnly DEF HearDelegation, HearReturn, Answered
  <2>3. Hand' = Hand
    BY <1>1, <1>3, <1>4, <2>1, <2>2, HandDown
  <2>4. Phase' \in {"ended", "running"}
    BY <1>1, <1>4, <2>1 DEF Phase, Reason, Terminal
  <2> QED
    BY <1>4, <1>5, <1>6, <2>3, <2>4, RoomHalts, RoomFails DEF Room
<1> QED
  BY <1>7, <1>8 DEF Consume

LEMMA RoomNext == ASSUME Seen, [Next]_vars PROVE Room
<1>1. CASE Next
  <2>1. ASSUME \/ Start \/ Defer \/ Wake \/ Pause \/ Stop \/ Resume \/ Continue \/ Clarify
               \/ Deadline \/ ChangeAuthority
        PROVE  Room
    BY <1>1, <2>1, RoomControls
  <2>2. ASSUME EndOverdue \/ EndUnauthorized \/ Refuse \/ Forget \/ Erase \/ Hide
        PROVE  Room
    BY <1>1, <2>2, RoomEnds
  <2>3. ASSUME Cancel \/ Again \/ Proceed \/ Crash
        PROVE  Room
    BY <1>1, <2>3, RoomCancels, RoomProceeds, RoomCrash
  <2>4. ASSUME NEW s \in Id,
               Consume(s) \/ Claim(s) \/ Answer(s) \/ TimeOut(s) \/ ServerEnds(s) \/ Retire(s)
        PROVE  Room
    BY <1>1, <2>4, RoomHears, RoomExecutes
  <2>5. ASSUME Prepare \/ Ask
        PROVE  Room
    BY <1>1, <2>5, RoomAsked
  <2> QED
    BY <1>1, <2>1, <2>2, <2>3, <2>4, <2>5 DEF Next
<1>2. CASE UNCHANGED vars
  BY <1>2 DEF vars, Room, Phase, Hand, LastHeard, Last, Used, Closed, Asked
<1> QED
  BY <1>1, <1>2

\* Budgets, stacks, half-done handlers and crashes leave the room one thing:
\* one request at a time, answered only while the run waits for it.
THEOREM RunImplementsControl == Spec => ImplementsTeamControl
<1>1. Init => Control!Init
  BY DEF Init, Control!Init, Asked, LastHeard, Last
<1>2. Seen /\ [Next]_vars => [Control!Next]_(Control!vars)
  BY RoomNext DEF Room, Control!vars, Phase, Hand, Used, Closed
<1> QED
  BY <1>1, <1>2, SeenInvariance, PTL DEF Spec, ImplementsTeamControl, Control!Spec
=============================================================================
