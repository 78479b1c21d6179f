------------------------- MODULE DesktopThreadProofs -------------------------
(***************************************************************************)
(* Theorems of DesktopThread, for every value of its constants: its types, *)
(* that what is typed into the mirrored task reaches the session once, in  *)
(* the context it was written in, and when that is reported, and that what *)
(* reaches the task is new to it, in order and complete.                   *)
(***************************************************************************)
EXTENDS DesktopThread, FiniteSetTheorems, SequenceTheorems, WellFoundedInduction, TLAPS

-----------------------------------------------------------------------------
(* The inductive invariant.                                                *)

\* A turn that was not typed is in no task, and only a finished one has read; what the
\* state file knows of a turn belongs to the current task.
TurnsLive ==
  \A t \in Turns :
    /\ task[t].status = "new" => task[t].gen < st.gen
    /\ task[t].status # "completed" => task[t].read = {}
    /\ st.bind[t] # "none" => task[t].gen = st.gen
    /\ st.drafts[t] # NoDraft => /\ st.bind[t] = "pending" /\ ~Outboxed(st, t)
                                 /\ st.drafts[t].rev = st.rev
    /\ st.bind[t] = "acked" => commits[t] # NoBody

\* What a hook tells of its turn has happened.
Told(name, t) ==
  /\ name = "prompt" => task[t].status # "new"
  /\ name = "stop"   => task[t].status = "completed"
  /\ name = "cancel" => task[t].status = "interrupted"

HooksTold ==
  /\ hook.at = "none" <=> hook = NoHook
  /\ hook # NoHook => /\ hook.turn \in Turns /\ Told(hook.name, hook.turn)
                      /\ hook.name # "none"
                      /\ hook.name = "prompt" => task[hook.turn].status = "active"
  /\ hook.at = "reply" => hook.name = "prompt"
  /\ \A i \in DOMAIN spool : Told(spool[i].name, spool[i].turn)

\* The outbox: each turn once, finished, with its binding, and only the first
\* entry may have reached the server.
OutboxTrue ==
  /\ \A i \in DOMAIN st.pending :
       LET e == st.pending[i]
       IN  /\ st.bind[e.turn] \in {"pending", "unknown"}
           /\ st.bind[e.turn] = "unknown" => i = 1
           /\ task[e.turn].status = "completed" /\ e.rev = st.rev
  /\ \A i, j \in DOMAIN st.pending : st.pending[i].turn = st.pending[j].turn => i = j

\* The operation that holds the lock.
OpShape ==
  /\ op.kind = "none" <=> op = NoOp
  /\ op.kind = "hook" => hook.at = "sent"
  /\ op.kind # "none" => op.step # "none"
  /\ op.kind = "drain" => op.size <= Len(spool)
  /\ op.step = "rebuild" => op.kind # "import"
  /\ op.step = "send" => op.kind = "upload"
  /\ op.step \in {"commit", "ack"} =>
       /\ op.kind \in {"sync", "upload"} /\ st.pending # <<>>
       /\ st.bind[Head(st.pending).turn] = "unknown"
  /\ op.step = "ack" => commits[Head(st.pending).turn] # NoBody
  /\ op.step = "report" => op.kind = "import"
  /\ op.step \in {"inject", "save"} => op.kind = "project"
  /\ op.step = "save" => st.journal # NoPiece

\* The log holds what was committed, and the events of a turn follow its request.
LogTrue ==
  /\ \A n \in DOMAIN log : log[n].turn = NoTurn <=> log[n].kind \in {"chat", "long", "control"}
  /\ \A t \in Turns : /\ commits[t] # NoBody => task[t].status = "completed"
                      /\ commits[t] = NoBody => \A n \in DOMAIN log : log[n].turn # t
  /\ \A m, n \in DOMAIN log :
       log[m].turn = log[n].turn /\ log[m].kind = log[n].kind /\ log[m].kind \in {"request", "response"}
         => m = n
  /\ \A n \in DOMAIN log : log[n].turn # NoTurn =>
       \E m \in 1..n : log[m].turn = log[n].turn /\ log[m].kind = "request"

\* What a turn has read precedes it; if it was erased, the task is behind.
ReadsTrue ==
  \A t \in Turns : \A n \in task[t].read :
    /\ \A m \in DOMAIN log : log[m].turn = t => n < m
    /\ task[t].gen = st.gen /\ log[n].gone => st.rev # revision

\* What the task has got, or gets with the answer on its way.
Promised == Delivered \cup IF hook.at = "reply" /\ task[hook.turn].gen = st.gen
                           THEN hook.pieces ELSE {}

\* A task that is not behind the session's revision holds nothing erased, and
\* gets nothing erased from where its cursors stand.
StateFresh ==
  /\ st.reset => st.rev # revision
  /\ st.rev = revision =>
       /\ \A n \in DOMAIN log : log[n].gone => n <= st.delivery /\ n <= st.projection
       /\ \A p \in Promised : ~log[p[1]].gone
       /\ \A t \in Turns : \A p \in st.drafts[t].pieces : ~log[p[1]].gone
       /\ st.journal # NoPiece => ~log[st.journal[1]].gone

\* The same of a task that is being built.
Building == op.step = "rebuild" \/ Working("import")
OpFresh ==
  Building =>
    /\ \A n \in 1..op.upto : log[n].gone \/ \A k \in Chunks(n) : <<n, k>> \in op.text
    /\ op.rev = revision => /\ \A p \in op.text : ~log[p[1]].gone
                            /\ \A n \in DOMAIN log : log[n].gone => n <= op.upto
JobFresh ==
  job.status \in {"pending", "claimed"} =>
    \A n \in DOMAIN log : log[n].gone => n <= job.through

\* What a job owes.
JobTrue ==
  /\ job.kind # "upload" => job.due = {}
  /\ op.kind = "import" => job.status # "claimed" \/ job.kind # "upload"
  /\ op.kind = "upload" => job.status # "claimed" \/ job.kind = "upload"
  /\ op.kind = "upload" /\ op.step # "rebuild" /\ op.step # "work" /\ job.status = "claimed" =>
       \A t \in job.due : commits[t] # NoBody \/ Outboxed(st, t)

UploadInv ==
  /\ TypeOK /\ TurnsLive /\ HooksTold /\ OutboxTrue /\ OpShape /\ LogTrue /\ ReadsTrue
  /\ StateFresh /\ OpFresh /\ JobFresh /\ JobTrue /\ ErasedStaysOut /\ CompletedUploadIsDone

-----------------------------------------------------------------------------
(* What a clause of the invariant speaks of.                               *)

Conn == [up: BOOLEAN, managed: BOOLEAN, nativeOff: BOOLEAN,
         phase: {"sync", "project", "job", "drain"}]
Jobs == [kind: JobKinds \cup {"none"}, through: Nat, rev: Nat, due: SUBSET Turns,
         status: {"none", "pending", "claimed", "completed", "failed"}]
Hooks == [turn: Turns \cup {NoTurn}, name: {"none", "prompt", "stop", "cancel"},
          at: {"none", "sent", "reply"}, pieces: SUBSET Piece]
Spool == Seq([turn: Turns, name: {"prompt", "stop", "cancel"}])

LEMMA TurnsFrame ==
    ASSUME TurnsLive, UNCHANGED <<task, commits>>, st'.gen = st.gen, st'.rev = st.rev,
           st'.bind = st.bind, st'.drafts = st.drafts, st'.pending = st.pending
    PROVE  TurnsLive'
BY DEF TurnsLive, Outboxed

LEMMA HooksFrame == ASSUME HooksTold, UNCHANGED <<hook, spool, task>> PROVE HooksTold'
BY DEF HooksTold, Told

LEMMA OutboxFrame ==
    ASSUME OutboxTrue, UNCHANGED task, st'.rev = st.rev, st'.bind = st.bind,
           st'.pending = st.pending
    PROVE  OutboxTrue'
BY DEF OutboxTrue

LEMMA OpFrame ==
    ASSUME OpShape, UNCHANGED <<op, hook, spool, commits>>, st'.bind = st.bind,
           st'.pending = st.pending, st'.journal = st.journal
    PROVE  OpShape'
BY DEF OpShape

LEMMA LogFrame == ASSUME LogTrue, UNCHANGED <<log, commits, task>> PROVE LogTrue'
BY DEF LogTrue

LEMMA ReadsFrame ==
    ASSUME ReadsTrue, UNCHANGED <<log, task, revision>>, st'.gen = st.gen, st'.rev = st.rev
    PROVE  ReadsTrue'
BY DEF ReadsTrue

LEMMA FreshFrame ==
    ASSUME StateFresh, UNCHANGED <<log, task, revision, shown, injected, hook>>,
           st'.gen = st.gen, st'.rev = st.rev, st'.reset = st.reset, st'.journal = st.journal,
           st'.delivery = st.delivery, st'.projection = st.projection, st'.drafts = st.drafts
    PROVE  StateFresh'
BY DEF StateFresh, Promised, Delivered

LEMMA BuildFrame == ASSUME OpFresh, UNCHANGED <<op, log, revision>> PROVE OpFresh'
BY DEF OpFresh, Building, Working, Chunks

LEMMA JobFrame == ASSUME JobFresh, UNCHANGED <<job, log>> PROVE JobFresh'
BY DEF JobFresh

LEMMA DueFrame ==
    ASSUME JobTrue, UNCHANGED <<job, op, commits>>, st'.pending = st.pending
    PROVE  JobTrue'
BY DEF JobTrue, Outboxed

LEMMA ErasedFrame == ASSUME ErasedStaysOut, UNCHANGED <<task, log>> PROVE ErasedStaysOut'
BY DEF ErasedStaysOut

LEMMA DoneFrame ==
    ASSUME CompletedUploadIsDone, UNCHANGED <<job, commits>> PROVE CompletedUploadIsDone'
BY DEF CompletedUploadIsDone

LEMMA PlacedFrame ==
    ASSUME Placed, UNCHANGED <<log, revision, job, task, shown, injected, hook, op>>,
           st'.gen = st.gen, st'.rev = st.rev, st'.drafts = st.drafts, st'.chk = st.chk,
           st'.delivery = st.delivery, st'.projection = st.projection, st'.journal = st.journal
    PROVE  Placed'
BY DEF Placed, Places

-----------------------------------------------------------------------------
(* Steps that leave the log, the tasks and the state file alone.            *)

Core == <<log, revision, commits, task, shown, injected, carried, st>>

\* A hook is spooled or forgotten, a drain keeps the rest.
HookMoves ==
  \/ UNCHANGED <<hook, spool>>
  \/ hook' = hook /\ \E k \in Nat \ {0} : spool' = SubSeq(spool, k, Len(spool))
  \/ hook # NoHook /\ hook' = NoHook /\ spool' = Spooled

JobMoves ==
  \/ job' = job
  \/ job' = [job EXCEPT !.status = "failed"]
  \/ job' = [job EXCEPT !.status = "completed"] /\ \A t \in job.due : commits[t] # NoBody
  \/ \E kind \in JobKinds :
       job' = [kind |-> kind, status |-> "pending", through |-> Len(log), rev |-> revision, due |-> {}]

OpMoves ==
  \/ op' = NoOp
  \/ op' = op /\ (op.kind = "hook" => hook' = hook) /\ spool' \in {spool, Spooled}

LEMMA HookTypes ==
    ASSUME Typed, HooksTold, HookMoves
    PROVE  /\ hook' \in Hooks /\ spool' \in Spool /\ hook'.pieces \subseteq hook.pieces
           /\ hook' = hook \/ hook' = NoHook
<1>1. CASE UNCHANGED <<hook, spool>>
  BY <1>1 DEF Typed, Hooks, Spool
<1>2. ASSUME hook' = hook, NEW k \in Nat \ {0}, spool' = SubSeq(spool, k, Len(spool))
      PROVE  hook' \in Hooks /\ spool' \in Spool
  <2>1. hook \in Hooks /\ spool \in Spool
    BY DEF Typed, Hooks, Spool
  <2> DEFINE S == [turn: Turns, name: {"prompt", "stop", "cancel"}]
  <2>2. spool \in Seq(S)
    BY <2>1 DEF Spool
  <2> HIDE DEF S
  <2>3. SubSeq(spool, k, Len(spool)) \in Seq(S)
    BY <1>2, <2>2, SubSeqProperties
  <2>4. spool' \in Spool
    BY <1>2, <2>3 DEF Spool, S
  <2> QED
    BY <1>2, <2>1, <2>4
<1>3. CASE hook # NoHook /\ hook' = NoHook /\ spool' = Spooled
  <2>1. [turn |-> hook.turn, name |-> hook.name] \in [turn: Turns, name: {"prompt", "stop", "cancel"}]
    BY <1>3 DEF Typed, HooksTold
  <2>2. spool' \in Spool
    BY <1>3, <2>1 DEF Spooled, Spool, Typed
  <2> QED
    BY <1>3, <2>2 DEF NoHook, Hooks
<1> QED
  BY <1>1, <1>2, <1>3 DEF HookMoves

LEMMA HookTold ==
    ASSUME Typed, HooksTold, HookMoves, UNCHANGED task
    PROVE  HooksTold'
<1>1. CASE UNCHANGED <<hook, spool>>
  BY <1>1, HooksFrame
<1>2. ASSUME hook' = hook, NEW k \in Nat \ {0}, spool' = SubSeq(spool, k, Len(spool))
      PROVE  HooksTold'
  <2>1. \A i \in DOMAIN spool' : \E j \in DOMAIN spool : spool'[i] = spool[j]
    <3>1. spool \in Spool
      BY DEF Typed, Spool
    <3> SUFFICES ASSUME NEW i \in DOMAIN spool' PROVE \E j \in DOMAIN spool : spool'[i] = spool[j]
      OBVIOUS
    <3>2. i \in 1..(Len(spool) - k + 1) /\ spool'[i] = spool[k + i - 1] /\ k + i - 1 \in DOMAIN spool
      BY <1>2, <3>1 DEF Spool
    <3> QED
      BY <3>2
  <2>2. \A i \in DOMAIN spool' : Told(spool'[i].name, spool'[i].turn)
    BY <2>1 DEF HooksTold, Told
  <2> QED
    BY <1>2, <2>2 DEF HooksTold, Told
<1>3. CASE hook # NoHook /\ hook' = NoHook /\ spool' = Spooled
  <2>1. spool \in Spool /\ hook.turn \in Turns
    BY <1>3 DEF Typed, Spool, HooksTold
  <2>2. \A i \in DOMAIN spool' : (spool'[i].name = hook.name /\ spool'[i].turn = hook.turn)
                                 \/ \E j \in DOMAIN spool : spool'[i] = spool[j]
    BY <1>3, <2>1 DEF Spooled, Spool
  <2>3. \A i \in DOMAIN spool' : Told(spool'[i].name, spool'[i].turn)
    BY <1>3, <2>2 DEF HooksTold, Told
  <2> QED
    BY <1>3, <2>3 DEF HooksTold, Told, NoHook
<1> QED
  BY <1>1, <1>2, <1>3 DEF HookMoves


LEMMA IdleTypes ==
    ASSUME UploadInv, UNCHANGED Core, HookMoves, JobMoves, OpMoves, writer' \in BOOLEAN,
           conn' \in Conn, unsure' \subseteq Turns, spent' \in [posts: 0..MaxPosts, upsets: 0..MaxUpsets]
    PROVE  TypeOK' /\ JobFresh' /\ CompletedUploadIsDone'
<1>0. Typed /\ Placed /\ HooksTold /\ JobFresh /\ CompletedUploadIsDone
  BY DEF UploadInv, TypeOK
<1>1. hook' \in Hooks /\ spool' \in Spool /\ hook'.pieces \subseteq hook.pieces
  BY <1>0, HookTypes
<1>2. /\ job' \in Jobs /\ job'.through <= Len(log)
      /\ job'.status \in {"pending", "claimed"} =>
            \/ job.status \in {"pending", "claimed"} /\ job'.through = job.through
            \/ job'.through = Len(log)
      /\ job'.status = "completed" => \A t \in job'.due : commits[t] # NoBody
  <2>1. job \in Jobs /\ job.through <= Len(log) /\ revision \in Nat /\ Len(log) \in Nat
    BY <1>0 DEF Typed, Placed, Jobs
  <2>2. CASE job' = job
    BY <1>0, <2>1, <2>2 DEF CompletedUploadIsDone, Jobs
  <2>3. CASE job' = [job EXCEPT !.status = "failed"]
    BY <2>1, <2>3 DEF Jobs
  <2>4. CASE job' = [job EXCEPT !.status = "completed"] /\ \A t \in job.due : commits[t] # NoBody
    BY <2>1, <2>4 DEF Jobs
  <2>5. ASSUME NEW kind \in JobKinds,
               job' = [kind |-> kind, status |-> "pending", through |-> Len(log),
                       rev |-> revision, due |-> {}]
        PROVE  /\ job' \in Jobs /\ job'.through = Len(log) /\ job'.status = "pending"
    BY <2>1, <2>5 DEF Jobs
  <2> QED
    BY <2>1, <2>2, <2>3, <2>4, <2>5 DEF JobMoves
<1>3. op' \in Operation /\ op'.rev <= revision /\ op'.upto <= Len(log) /\ op'.text \subseteq op.text
  <2>1. op \in Operation /\ op.rev <= revision /\ op.upto <= Len(log)
    BY <1>0 DEF Typed, Placed
  <2>2. NoOp \in Operation /\ NoOp.rev = 0 /\ NoOp.upto = 0 /\ NoOp.text = {}
    BY DEF NoOp, Operation
  <2>3. 0 <= revision /\ 0 <= Len(log)
    BY <1>0 DEF Typed
  <2> QED
    BY <2>1, <2>2, <2>3 DEF OpMoves
<1>4. Typed'
  BY <1>0, <1>1, <1>2, <1>3 DEF Typed, Core, Conn, Jobs, Hooks, Spool
<1>5. Placed'
  BY <1>0, <1>1, <1>2, <1>3 DEF Placed, Places, Core
<1>6. JobFresh'
  <2>1. \A n \in DOMAIN log : n <= Len(log)
    BY <1>0 DEF Typed
  <2> QED
    BY <1>0, <1>2, <2>1 DEF JobFresh, Core
<1>7. CompletedUploadIsDone'
  BY <1>2 DEF CompletedUploadIsDone, Core
<1> QED
  BY <1>4, <1>5, <1>6, <1>7 DEF TypeOK

LEMMA IdleStep ==
    ASSUME UploadInv, UNCHANGED Core, HookMoves, JobMoves, OpMoves, writer' \in BOOLEAN,
           conn' \in Conn, unsure' \subseteq Turns, spent' \in [posts: 0..MaxPosts, upsets: 0..MaxUpsets]
    PROVE  UploadInv'
<1>0. /\ Typed /\ Placed /\ TurnsLive /\ HooksTold /\ OutboxTrue /\ OpShape /\ LogTrue /\ ReadsTrue
      /\ StateFresh /\ OpFresh /\ JobTrue /\ ErasedStaysOut
  BY DEF UploadInv, TypeOK
<1>1. TypeOK' /\ JobFresh' /\ CompletedUploadIsDone'
  BY IdleTypes
<1>2. TurnsLive' /\ OutboxTrue' /\ LogTrue' /\ ReadsTrue' /\ ErasedStaysOut'
  BY <1>0, TurnsFrame, OutboxFrame, LogFrame, ReadsFrame, ErasedFrame DEF Core
<1>3. HooksTold' /\ hook' \in Hooks /\ (hook' = hook \/ hook' = NoHook)
  BY <1>0, HookTold, HookTypes DEF Core
<1>4. OpShape'
  <2>1. CASE op' = NoOp
    BY <2>1 DEF OpShape, NoOp
  <2>2. CASE op' = op /\ (op.kind = "hook" => hook' = hook) /\ spool' \in {spool, Spooled}
    <3>1. op.kind = "drain" => op.size <= Len(spool')
      <4>1. Len(spool) \in Nat /\ op.size \in Nat /\ Len(Spooled) = Len(spool) + 1
        BY <1>0 DEF Typed, Operation, Spooled
      <4> QED
        BY <1>0, <2>2, <4>1 DEF OpShape
    <3> QED
      BY <1>0, <2>2, <3>1 DEF OpShape, Core
  <2> QED
    BY <2>1, <2>2 DEF OpMoves
<1>5. StateFresh'
  <2>1. Promised' \subseteq Promised
    BY <1>3 DEF Promised, Delivered, Core, NoHook
  <2> QED
    BY <1>0, <2>1 DEF StateFresh, Core
<1>6. OpFresh'
  <2>1. CASE op' = NoOp
    BY <2>1 DEF OpFresh, Building, Working, NoOp
  <2>2. CASE op' = op
    BY <1>0, <2>2, BuildFrame DEF Core
  <2> QED
    BY <2>1, <2>2 DEF OpMoves
<1>7. JobTrue'
  <2>1. job \in Jobs
    BY <1>0 DEF Typed, Jobs
  <2>2. /\ job'.kind # "upload" => job'.due = {}
        /\ job'.status = "claimed" => job' = job
    BY <1>0, <2>1 DEF JobMoves, JobTrue, Jobs
  <2>3. CASE op' = NoOp
    BY <2>2, <2>3 DEF JobTrue, NoOp
  <2>4. CASE op' = op
    BY <1>0, <2>2, <2>4 DEF JobTrue, Outboxed, Core
  <2> QED
    BY <2>3, <2>4 DEF OpMoves
<1> QED
  BY <1>0, <1>1, <1>2, <1>3, <1>4, <1>5, <1>6, <1>7 DEF UploadInv

\* How an operation ends with an error.
LEMMA Abandons ==
    ASSUME UploadInv, Abandon, op.kind # "none"
    PROVE  /\ op' = NoOp /\ HookMoves /\ conn' \in Conn
           /\ job' = job \/ job' = [job EXCEPT !.status = "failed"]
<1>0. Typed /\ HooksTold /\ OpShape
  BY DEF UploadInv, TypeOK
<1>1. HookMoves
  <2>1. CASE op.kind = "hook"
    BY <1>0, <2>1 DEF Abandon, HookMoves, OpShape, HooksTold, NoHook
  <2>2. CASE op.kind = "drain"
    <3>1. op.done + 1 \in Nat \ {0}
      BY <1>0, <2>2 DEF Typed, Operation
    <3> QED
      BY <2>2, <3>1 DEF Abandon, HookMoves
  <2>3. CASE op.kind \notin {"hook", "drain"}
    BY <2>3 DEF Abandon, HookMoves
  <2> QED
    BY <2>1, <2>2, <2>3
<1>2. conn' \in Conn
  <2>1. conn \in Conn
    BY <1>0 DEF Typed, Conn
  <2>2. Following \in {"sync", "project", "job", "drain"}
    BY <2>1 DEF Following, AfterProject, AfterJob, Conn
  <2> QED
    BY <2>1, <2>2 DEF Abandon, Conn
<1> QED
  BY <1>1, <1>2 DEF Abandon, JobFailed


Free == [posts: 0..MaxPosts, upsets: 0..MaxUpsets]

LEMMA Spends == ASSUME Typed, Upsetting \/ UNCHANGED spent PROVE spent' \in Free
BY DesktopAssumption DEF Typed, Upsetting, Free

\* An operation that ends with an error and has saved nothing.
LEMMA AbandonStep ==
    ASSUME UploadInv, Abandon, op.kind # "none", UNCHANGED Core, UNCHANGED writer,
           unsure' \subseteq Turns, spent' \in Free
    PROVE  UploadInv'
<1>1. Typed
  BY DEF UploadInv, TypeOK
<1>2. OpMoves /\ HookMoves /\ JobMoves /\ conn' \in Conn
  BY Abandons DEF OpMoves, JobMoves
<1> QED
  BY <1>1, <1>2, IdleStep DEF Typed, Free

LEMMA ReportIdle ==
    ASSUME UploadInv, Report PROVE UploadInv'
<1>0. Typed /\ OpShape /\ JobTrue
  BY DEF UploadInv, TypeOK
<1>1. JobMoves
  <2>1. CASE job.status # "claimed"
    BY <2>1 DEF Report, JobMoves
  <2>2. CASE job.status = "claimed" /\ op.step = "report"
    <3>1. job.due = {}
      BY <1>0, <2>2 DEF OpShape, JobTrue
    <3> QED
      BY <2>2, <3>1 DEF Report, JobMoves
  <2>3. CASE job.status = "claimed" /\ op.step = "send" /\ ~ToSend
    <3>1. st.pending = <<>> /\ op.kind = "upload"
      BY <1>0, <2>3 DEF ToSend, Forced, OpShape
    <3>2. \A t \in Turns : ~Outboxed(st, t)
      BY <3>1 DEF Outboxed
    <3>3. \A t \in job.due : commits[t] # NoBody
      BY <1>0, <2>3, <3>1, <3>2 DEF JobTrue, Typed
    <3> QED
      BY <2>3, <3>3 DEF Report, JobMoves
  <2> QED
    BY <2>1, <2>2, <2>3 DEF Report
<1>2. conn' \in Conn
  BY <1>0 DEF Report, Typed, Conn, AfterJob
<1> QED
  BY <1>0, <1>1, <1>2, IdleStep DEF Report, HookMoves, OpMoves, Core, server, native, Typed

LEMMA IdleActions ==
    ASSUME UploadInv,
           \/ \E b \in BOOLEAN : SetWriter(b)
           \/ \E kind \in JobKinds : CreateJob(kind)
           \/ HookSpools \/ CycleFails \/ Start \/ RebuildFails \/ AnswerLost \/ ResumeTimesOut
           \/ InjectUnanswered \/ Crash \/ SyncEnds \/ Report \/ DrainEnds \/ UNCHANGED vars
    PROVE  UploadInv'
<1>0. Typed /\ HooksTold /\ OpShape
  BY DEF UploadInv, TypeOK
<1>c. /\ conn \in Conn /\ writer \in BOOLEAN /\ unsure \subseteq Turns /\ spent \in Free
      /\ op.kind = "none" <=> op = NoOp
  BY <1>0 DEF Typed, Conn, Free, OpShape
<1>u. st.pending # <<>> => Head(st.pending).turn \in Turns
  <2>1. st.pending \in Seq(Entry)
    BY <1>0 DEF Typed, StateFile
  <2>2. st.pending # <<>> => Head(st.pending) \in Entry
    BY <2>1
  <2> QED
    BY <2>2 DEF Entry
<1>w. UNCHANGED server => writer' \in BOOLEAN
  BY <1>c, Zenon DEF server
<1> DEFINE Idle == /\ UNCHANGED Core /\ HookMoves /\ JobMoves /\ OpMoves /\ writer' \in BOOLEAN
                   /\ conn' \in Conn /\ unsure' \subseteq Turns /\ spent' \in Free
<1>i. ASSUME Idle PROVE UploadInv'
  BY <1>i, IdleStep DEF Free
<1>1. ASSUME NEW b \in BOOLEAN, SetWriter(b) PROVE Idle
  BY <1>0, <1>1, <1>c, <1>w, Spends DEF SetWriter, HookMoves, JobMoves, OpMoves, Core, native
<1>2. ASSUME NEW kind \in JobKinds, CreateJob(kind) PROVE Idle
  BY <1>0, <1>2, <1>c, <1>w, Spends DEF CreateJob, HookMoves, JobMoves, OpMoves, Core, native, server
<1>3. CASE HookSpools
  <2>1. hook # NoHook /\ op.kind # "hook"
    BY <1>3 DEF HookSpools, NoHook
  <2> QED
    BY <1>i, <1>3, <1>c, <1>w, <2>1 DEF HookSpools, HookMoves, JobMoves, OpMoves, Core, native, server
<1>4. CASE CycleFails
  <2>1. conn' \in Conn
    BY <1>i, <1>4, <1>c DEF CycleFails, Conn, Following, AfterProject, AfterJob
  <2> QED
    BY <1>i, <1>4, <1>c, <1>w, <2>1 DEF CycleFails, HookMoves, JobMoves, OpMoves, Core, native, server
<1>5. CASE Start
  BY <1>i, <1>5, <1>c, <1>w DEF Start, HookMoves, JobMoves, OpMoves, Core, native, server, Conn
<1>6. CASE RebuildFails
  <2>1. spent' \in Free /\ op.kind # "none"
    BY <1>0, <1>6, <1>c, <1>w, Spends DEF RebuildFails, Failing, NoOp
  <2> QED
    BY <1>6, <1>c, <1>w, <2>1, AbandonStep DEF RebuildFails, Core, native, server
<1>7. CASE AnswerLost
  <2>1. spent' \in Free /\ op.kind # "none" /\ unsure' \subseteq Turns
    BY <1>0, <1>7, <1>c, <1>w, <1>u, Spends DEF AnswerLost, Failing, NoOp, OpShape
  <2> QED
    BY <1>7, <1>c, <1>w, <2>1, AbandonStep DEF AnswerLost, Core, native, server
<1>8. CASE ResumeTimesOut
  <2>1. spent' \in Free /\ conn' \in Conn
    BY <1>0, <1>8, <1>c, <1>w, Spends DEF ResumeTimesOut, Failing, Conn, AfterProject, AfterJob
  <2> QED
    BY <1>i, <1>8, <1>c, <1>w, <2>1 DEF ResumeTimesOut, HookMoves, JobMoves, OpMoves, Core, native, server
<1>9. CASE InjectUnanswered
  <2>1. spent' \in Free /\ op.kind # "none"
    BY <1>0, <1>9, <1>c, <1>w, Spends DEF InjectUnanswered, Failing, NoOp
  <2> QED
    BY <1>9, <1>c, <1>w, <2>1, AbandonStep DEF InjectUnanswered, Core, native, server
<1>10. CASE Crash
  <2>1. spent' \in Free /\ conn' \in Conn /\ unsure' \subseteq Turns
    BY <1>0, <1>10, <1>c, <1>w, <1>u, Spends DEF Crash, Failing, Conn, OpShape
  <2>2. HookMoves
    BY <1>0, <1>10 DEF Crash, HookMoves, OpShape, NoHook
  <2> QED
    BY <1>i, <1>10, <1>c, <1>w, <2>1, <2>2 DEF Crash, JobMoves, OpMoves, Core, native, server
<1>11. CASE SyncEnds
  <2>1. conn' \in Conn
    BY <1>i, <1>11, <1>c DEF SyncEnds, Conn, AfterSync, AfterProject, AfterJob
  <2> QED
    BY <1>i, <1>11, <1>c, <1>w, <2>1 DEF SyncEnds, HookMoves, JobMoves, OpMoves, Core, native, server
<1>12. CASE DrainEnds
  <2>1. conn' \in Conn
    BY <1>i, <1>12, <1>c DEF DrainEnds, Conn
  <2>2. op.size + 1 \in Nat \ {0}
    BY <1>0 DEF Typed, Operation
  <2> QED
    BY <1>i, <1>12, <1>c, <1>w, <2>1, <2>2 DEF DrainEnds, HookMoves, JobMoves, OpMoves, Core, native, server
<1>13. CASE UNCHANGED vars
  BY <1>i, <1>13, <1>c DEF vars, HookMoves, JobMoves, OpMoves, Core
<1> QED
  BY <1>i, <1>1, <1>2, <1>3, <1>4, <1>5, <1>6, <1>7, <1>8, <1>9, <1>10, <1>11, <1>12, <1>13,
     ReportIdle

-----------------------------------------------------------------------------
(* Beginnings and retirements.                                             *)

\* What an operation that ends, and has saved something before, leaves to show.
LEMMA EndClauses ==
    ASSUME UploadInv, op' = NoOp, HookMoves, conn' \in Conn, st' \in StateFile,
           job' = job \/ job' = [job EXCEPT !.status = "failed"],
           UNCHANGED <<log, revision, commits, writer, task, shown, injected, carried, unsure, spent>>
    PROVE  /\ Typed' /\ HooksTold' /\ OpShape' /\ LogTrue' /\ OpFresh' /\ JobFresh' /\ JobTrue'
           /\ ErasedStaysOut' /\ CompletedUploadIsDone'
           /\ hook'.pieces \subseteq hook.pieces /\ (hook' = hook \/ hook' = NoHook)
           /\ job'.through = job.through
<1>0. /\ Typed /\ HooksTold /\ LogTrue /\ JobFresh /\ JobTrue /\ ErasedStaysOut
      /\ CompletedUploadIsDone /\ job \in Jobs
  BY DEF UploadInv, TypeOK, Typed, Jobs
<1>1. hook' \in Hooks /\ spool' \in Spool /\ hook'.pieces \subseteq hook.pieces
      /\ (hook' = hook \/ hook' = NoHook)
  BY <1>0, HookTypes
<1>2. /\ job' \in Jobs /\ job'.through = job.through /\ job'.due = job.due /\ job'.kind = job.kind
      /\ job'.status = job.status \/ job'.status = "failed"
  BY <1>0 DEF Jobs
<1>3. NoOp \in Operation
  BY DEF NoOp, Operation
<1>4. Typed'
  BY <1>0, <1>1, <1>2, <1>3 DEF Typed, Conn, Jobs, Hooks, Spool
<1>5. HooksTold' /\ LogTrue' /\ ErasedStaysOut'
  BY <1>0, HookTold, LogFrame, ErasedFrame
<1>6. OpShape' /\ OpFresh'
  BY DEF OpShape, OpFresh, Building, Working, NoOp
<1>7. JobFresh' /\ JobTrue' /\ CompletedUploadIsDone'
  BY <1>0, <1>2 DEF JobFresh, JobTrue, CompletedUploadIsDone, NoOp
<1> QED
  BY <1>1, <1>2, <1>4, <1>5, <1>6, <1>7

\* What a retirement leaves of the state file.
LEMMA RetiredClauses ==
    ASSUME UploadInv, ~Current, st' = Retired(st), UNCHANGED <<log, revision, commits, task>>
    PROVE  /\ st' \in StateFile /\ st'.rev = st.rev /\ st'.gen = st.gen /\ st'.pending = <<>>
           /\ st'.delivery = st.delivery /\ st'.projection = st.projection
           /\ st'.chk = NoPiece /\ st'.journal = NoPiece /\ st'.drafts = NoDrafts
           /\ st'.bind = Unbound /\ st'.reset
           /\ TurnsLive' /\ OutboxTrue' /\ ReadsTrue' /\ StateFresh'
<1>0. Typed /\ TurnsLive /\ ReadsTrue /\ StateFresh /\ st \in StateFile
  BY DEF UploadInv, TypeOK, Typed
<1>1. NoPiece \in Piece /\ NoDraft \in Draft /\ NoDrafts \in [Turns -> Draft]
      /\ Unbound \in [Turns -> {"none", "pending", "unknown", "acked"}] /\ <<>> \in Seq(Entry)
  BY DEF NoPiece, Piece, NoDraft, Draft, NoDrafts, Unbound
<1>2. /\ st' \in StateFile /\ st'.rev = st.rev /\ st'.gen = st.gen /\ st'.pending = <<>>
      /\ st'.delivery = st.delivery /\ st'.projection = st.projection
      /\ st'.chk = NoPiece /\ st'.journal = NoPiece /\ st'.drafts = NoDrafts
      /\ st'.bind = Unbound /\ st'.reset
  BY <1>0, <1>1 DEF Retired, StateFile
<1>3. TurnsLive'
  BY <1>0, <1>2 DEF TurnsLive, NoDrafts, Unbound
<1>4. OutboxTrue'
  BY <1>2 DEF OutboxTrue
<1>5. ReadsTrue'
  BY <1>0, <1>2, ReadsFrame
<1>6. st.rev # revision
  BY <1>0 DEF Current, StateFresh
<1>7. StateFresh'
  BY <1>2, <1>6 DEF StateFresh
<1> QED
  BY <1>2, <1>3, <1>4, <1>5, <1>7

LEMMA ReadableIs ==
    ASSUME Typed, NEW upto \in Nat, upto <= Len(log)
    PROVE  /\ Readable(upto) \subseteq Places
           /\ \A p \in Readable(upto) : p[1] \in 1..upto /\ ~log[p[1]].gone /\ p[2] \in Chunks(p[1])
           /\ \A n \in 1..upto : log[n].gone \/ \A k \in Chunks(n) : <<n, k>> \in Readable(upto)
<1>1. \A n \in 1..upto : n \in DOMAIN log
  BY DEF Typed
<1>2. \A n : Chunks(n) \subseteq {1, 2}
  BY DEF Chunks
<1>3. \A p \in Readable(upto) : \E n \in 1..upto : ~log[n].gone /\ p \in {n} \X Chunks(n)
  BY DEF Readable
<1>4. Readable(upto) \subseteq Places
  BY <1>1, <1>2, <1>3 DEF Places
<1>5. \A n \in 1..upto : ~log[n].gone => \A k \in Chunks(n) : <<n, k>> \in Readable(upto)
  BY DEF Readable
<1> QED
  BY <1>3, <1>4, <1>5

Beginning(kind) ==
  /\ kind \in {"hook", "sync", "project", "drain", "upload"}
  /\ kind = "hook" => hook.at = "sent"
  /\ kind = "drain" => op'.size <= Len(spool)
  /\ kind = "upload" => job.kind = "upload"
  /\ op' \in Operation /\ op'.kind = kind /\ op'.rev = revision /\ op'.upto = Len(log)
  /\ op'.text = Readable(Len(log))
  /\ \/ op'.step = "work" /\ Current /\ UNCHANGED st
     \/ op'.step = "rebuild" /\ ~Current /\ st' = Retired(st)

LEMMA EnsuringIs ==
    ASSUME Typed, NEW kind \in {"hook", "sync", "project", "drain", "upload"},
           op' = Ensuring(kind)
    PROVE  /\ op' \in Operation /\ op'.kind = kind /\ op'.rev = revision /\ op'.upto = Len(log)
           /\ op'.text = Readable(Len(log))
           /\ op'.step = IF Current THEN "work" ELSE "rebuild"
<1>1. Len(log) \in Nat /\ Len(spool) \in Nat /\ revision \in Nat
  BY DEF Typed
<1>2. Readable(Len(log)) \subseteq Piece
  <2>1. Len(log) <= Len(log) /\ DOMAIN log \subseteq Nat
    BY <1>1 DEF Typed
  <2>2. Readable(Len(log)) \subseteq Places
    BY <1>1, <2>1, ReadableIs
  <2> QED
    BY <2>1, <2>2 DEF Places, Piece
<1> QED
  BY <1>1, <1>2 DEF Ensuring, NoOp, Operation

LEMMA BeginStep ==
    ASSUME UploadInv, NEW kind, Beginning(kind), conn' \in Conn,
           UNCHANGED <<log, revision, commits, writer, task, shown, injected, carried, hook, spool,
                       unsure, spent>>,
           \/ job' = job
           \/ job' = [job EXCEPT !.status = "claimed"] /\ job.status \in {"pending", "claimed"}
    PROVE  UploadInv'
<1>0. /\ Typed /\ Placed /\ TurnsLive /\ HooksTold /\ OutboxTrue /\ OpShape /\ LogTrue /\ ReadsTrue
      /\ StateFresh /\ JobFresh /\ JobTrue /\ ErasedStaysOut /\ CompletedUploadIsDone
      /\ job \in Jobs /\ st \in StateFile
  BY DEF UploadInv, TypeOK, Typed, Jobs
<1>1. /\ job' \in Jobs /\ job'.through = job.through /\ job'.due = job.due /\ job'.kind = job.kind
      /\ job'.status \in {"pending", "claimed"} => job.status \in {"pending", "claimed"}
      /\ job'.status = "completed" => job.status = "completed"
  BY <1>0 DEF Jobs
<1>2. /\ st' \in StateFile /\ TurnsLive' /\ OutboxTrue' /\ ReadsTrue' /\ StateFresh'
      /\ st'.rev = st.rev /\ st'.gen = st.gen
      /\ st'.delivery = st.delivery /\ st'.projection = st.projection
      /\ st'.chk \in {st.chk, NoPiece} /\ st'.journal \in {st.journal, NoPiece}
      /\ st'.drafts = st.drafts \/ st'.drafts = NoDrafts
  <2>1. CASE UNCHANGED st
    BY <1>0, <2>1, TurnsFrame, OutboxFrame, ReadsFrame, FreshFrame
  <2>2. CASE ~Current /\ st' = Retired(st)
    BY <2>2, RetiredClauses
  <2> QED
    BY <2>1, <2>2 DEF Beginning
<1>3. Typed'
  BY <1>0, <1>1, <1>2 DEF Typed, Beginning, Jobs, Conn
<1>4. Len(log) \in Nat /\ Len(log) <= Len(log) /\ revision <= revision
  BY <1>0 DEF Typed
<1>5. /\ Readable(Len(log)) \subseteq Places
      /\ \A p \in Readable(Len(log)) : ~log[p[1]].gone
      /\ \A n \in 1..Len(log) : log[n].gone \/ \A k \in Chunks(n) : <<n, k>> \in Readable(Len(log))
  BY <1>0, <1>4, ReadableIs
<1>6. Placed'
  <2>1. \A t \in Turns : NoDrafts[t].pieces = {} /\ NoDrafts[t].through = 0 /\ NoDrafts[t].chk = NoPiece
    BY DEF NoDrafts, NoDraft
  <2>2. /\ st'.rev <= revision' /\ op'.rev <= revision'
        /\ st'.delivery <= Len(log)' /\ st'.projection <= Len(log)'
        /\ op'.upto <= Len(log)' /\ job'.through <= Len(log)'
        /\ st'.chk \in Places \cup {NoPiece} /\ st'.journal \in Places \cup {NoPiece}
        /\ op'.text \subseteq Places
    BY <1>0, <1>1, <1>2, <1>4, <1>5 DEF Placed, Beginning
  <2>3. \A t \in Turns : /\ st'.drafts[t].through <= Len(log)
                         /\ st'.drafts[t].pieces \subseteq Places
                         /\ st'.drafts[t].chk \in Places \cup {NoPiece}
    BY <1>0, <1>2, <1>4, <2>1 DEF Placed
  <2> QED
    BY <1>0, <1>2, <2>2, <2>3 DEF Placed, Places
<1>7. HooksTold' /\ LogTrue' /\ ErasedStaysOut'
  BY <1>0, HooksFrame, LogFrame, ErasedFrame
<1>8. OpShape'
  BY DEF OpShape, Beginning, NoOp
<1>9. OpFresh'
  <2>1. \A n \in DOMAIN log : n <= Len(log)
    BY <1>0 DEF Typed
  <2> QED
    BY <1>5, <2>1 DEF OpFresh, Beginning, Chunks, Building, Working
<1>10. JobFresh' /\ JobTrue' /\ CompletedUploadIsDone'
  BY <1>0, <1>1 DEF JobFresh, JobTrue, CompletedUploadIsDone, Beginning
<1> QED
  BY <1>2, <1>3, <1>6, <1>7, <1>8, <1>9, <1>10 DEF UploadInv, TypeOK


\* A step of the loop that only takes the lock, or moves the operation on.
LEMMA OpStep ==
    ASSUME UploadInv, UNCHANGED Core, UNCHANGED <<hook, spool, writer, unsure, spent>>,
           conn' \in Conn, op' \in Operation, op'.rev <= revision, op'.upto <= Len(log),
           op'.text \subseteq Places, op'.kind # "none",
           op'.step = "work" \/ (op'.step = "inject" /\ op'.kind = "project"),
           op'.kind # "upload", op'.kind = "hook" => hook.at = "sent", op'.kind = "drain" => op'.size <= Len(spool),
           op'.kind = "import" => OpFresh' /\ job.kind # "upload",
           \/ job' = job
           \/ job' = [job EXCEPT !.status = "claimed"] /\ job.status \in {"pending", "claimed"}
    PROVE  UploadInv'
<1>0. /\ Typed /\ Placed /\ TurnsLive /\ HooksTold /\ OutboxTrue /\ OpShape /\ LogTrue /\ ReadsTrue
      /\ StateFresh /\ JobFresh /\ JobTrue /\ ErasedStaysOut /\ CompletedUploadIsDone /\ job \in Jobs
  BY DEF UploadInv, TypeOK, Typed, Jobs
<1>1. /\ job' \in Jobs /\ job'.through = job.through /\ job'.due = job.due /\ job'.kind = job.kind
      /\ job'.status \in {"pending", "claimed"} => job.status \in {"pending", "claimed"}
      /\ job'.status = "completed" => job.status = "completed"
  BY <1>0 DEF Jobs
<1>2. Typed'
  BY <1>0, <1>1 DEF Typed, Jobs, Conn, Core
<1>3. Placed'
  BY <1>0, <1>1 DEF Placed, Places, Core
<1>4. /\ TurnsLive' /\ OutboxTrue' /\ LogTrue' /\ ReadsTrue' /\ ErasedStaysOut' /\ HooksTold'
      /\ StateFresh'
  BY <1>0, TurnsFrame, OutboxFrame, LogFrame, ReadsFrame, ErasedFrame, HooksFrame, FreshFrame DEF Core
<1>5. OpShape'
  BY DEF OpShape, NoOp
<1>6. OpFresh'
  BY DEF OpFresh, Building, Working
<1>7. JobFresh' /\ JobTrue' /\ CompletedUploadIsDone'
  BY <1>0, <1>1 DEF JobFresh, JobTrue, CompletedUploadIsDone, Core
<1> QED
  BY <1>2, <1>3, <1>4, <1>5, <1>6, <1>7 DEF UploadInv, TypeOK

LEMMA HookBegins == ASSUME UploadInv, BeginHook PROVE UploadInv'
<1>0. Typed /\ op' = Ensuring("hook")
  BY DEF UploadInv, TypeOK, BeginHook
<1>1. Beginning("hook")
  BY <1>0, EnsuringIs DEF BeginHook, Beginning
<1> QED
  BY <1>0, <1>1, BeginStep DEF BeginHook, server, native, Typed, Conn

LEMMA CycleBegins ==
    ASSUME UploadInv, NEW kind \in {"sync", "project"}, BeginCycle(kind) PROVE UploadInv'
<1>0. Typed /\ op' = Ensuring(kind)
  BY DEF UploadInv, TypeOK, BeginCycle
<1>1. Beginning(kind)
  BY <1>0, EnsuringIs DEF BeginCycle, Beginning
<1> QED
  BY <1>0, <1>1, BeginStep DEF BeginCycle, server, native, Typed, Conn

LEMMA DrainBegins == ASSUME UploadInv, BeginDrain PROVE UploadInv'
<1>0. Typed /\ Placed
  BY DEF UploadInv, TypeOK
<1>1. /\ op' \in Operation /\ op'.kind = "drain" /\ op'.step = "work" /\ op'.rev = 0
      /\ op'.upto = 0 /\ op'.text = {} /\ op'.size <= Len(spool)
  <2>1. op' = [kind |-> "drain", step |-> "work", rev |-> 0, text |-> {}, upto |-> 0, done |-> 0,
               size |-> Len(spool), resumed |-> FALSE]
    BY DEF BeginDrain, NoOp
  <2>2. Len(spool) \in Nat
    BY <1>0 DEF Typed
  <2> QED
    BY <2>1, <2>2 DEF Operation
<1> QED
  BY <1>0, <1>1, OpStep DEF BeginDrain, server, native, Core, Typed, Conn

LEMMA JobBegins == ASSUME UploadInv, ClaimJob PROVE UploadInv'
<1>0. Typed /\ Placed /\ OpShape /\ JobFresh
  BY DEF UploadInv, TypeOK
<1>c. /\ conn \in Conn /\ job \in Jobs /\ JobKinds \subseteq {"upload", "import"}
      /\ AfterJob \in {"sync", "project", "job", "drain"}
  BY <1>0, DesktopAssumption DEF Typed, Conn, Jobs, AfterJob
<1>1. CASE ~(writer /\ job.status \in {"pending", "claimed"})
  <2>1. /\ UNCHANGED Core /\ HookMoves /\ JobMoves /\ OpMoves /\ conn' \in Conn
        /\ UNCHANGED <<writer, unsure, spent>>
    BY <1>1, <1>c DEF ClaimJob, Core, HookMoves, JobMoves, OpMoves, server, native, Conn
  <2> QED
    BY <1>0, <2>1, IdleStep DEF Typed
<1>2. CASE /\ writer /\ job.status \in {"pending", "claimed"} /\ job.kind = "upload"
  <2>1. Beginning("upload")
    BY <1>0, <1>2, EnsuringIs DEF ClaimJob, Beginning
  <2> QED
    BY <1>2, <1>c, <2>1, BeginStep DEF ClaimJob, server, native
<1>3. CASE /\ writer /\ job.status \in {"pending", "claimed"} /\ job.kind # "upload"
  <2>1. job.through \in Nat /\ job.through <= Len(log) /\ revision \in Nat /\ revision <= revision
    BY <1>0 DEF Typed, Placed
  <2>2. /\ Readable(job.through) \subseteq Places
        /\ \A p \in Readable(job.through) : ~log[p[1]].gone
        /\ \A n \in 1..job.through :
             log[n].gone \/ \A k \in Chunks(n) : <<n, k>> \in Readable(job.through)
    BY <1>0, <2>1, ReadableIs
  <2>3. Places \subseteq Piece
    BY <1>0 DEF Typed, Places, Piece
  <2>4. /\ op' \in Operation /\ op'.kind = "import" /\ op'.step = "work" /\ op'.rev = revision
        /\ op'.upto = job.through /\ op'.text = Readable(job.through)
    <3>1. op' = [kind |-> "import", step |-> "work", rev |-> revision, text |-> Readable(job.through),
                 upto |-> job.through, done |-> 0, size |-> 0, resumed |-> FALSE]
      BY <1>3 DEF ClaimJob, NoOp
    <3>2. Readable(job.through) \subseteq Piece
      BY <2>2, <2>3
    <3> QED
      BY <2>1, <3>1, <3>2 DEF Operation
  <2>5. UNCHANGED <<log, revision>>
    BY DEF ClaimJob, server
  <2>6. OpFresh'
    BY <1>0, <1>3, <2>2, <2>4, <2>5 DEF OpFresh, Building, Working, JobFresh, Chunks
  <2>7. /\ UNCHANGED Core /\ UNCHANGED <<hook, spool, writer, unsure, spent>>
        /\ job' = [job EXCEPT !.status = "claimed"] /\ conn' = conn
    BY <1>3 DEF ClaimJob, server, native, Core
  <2> QED
    BY <1>3, <1>c, <2>1, <2>2, <2>4, <2>6, <2>7, OpStep
<1> QED
  BY <1>1, <1>2, <1>3

-----------------------------------------------------------------------------
(* The server's log.                                                       *)

Event == [turn: Turns \cup {NoTurn}, kind: Kind, gone: BOOLEAN]

\* The log as it was, with events behind it that are not erased.
Extended ==
  /\ log' \in Seq(Event) /\ Len(log) <= Len(log')
  /\ \A n \in DOMAIN log : n \in DOMAIN log' /\ log'[n] = log[n]
  /\ \A n \in DOMAIN log' : n \notin DOMAIN log => n > Len(log) /\ ~log'[n].gone

LEMMA ExtendedClauses ==
    ASSUME UploadInv, Extended,
           UNCHANGED <<revision, task, shown, injected, carried, hook, st, job>>
    PROVE  /\ StateFresh' /\ JobFresh' /\ Len(log) \in Nat /\ Len(log') \in Nat
           /\ Places \subseteq Places'
           /\ op' = op => OpFresh'
           /\ (/\ op' \in Operation /\ op'.rev <= revision /\ op'.upto <= Len(log)
               /\ op'.text \subseteq Places) => Placed'
<1>0. Typed /\ Placed /\ StateFresh /\ OpFresh /\ JobFresh
  BY DEF UploadInv, TypeOK
<1>1. /\ Len(log) \in Nat /\ Len(log') \in Nat /\ DOMAIN log = 1..Len(log)
      /\ DOMAIN log' = 1..Len(log') /\ DOMAIN log \subseteq DOMAIN log'
  BY <1>0 DEF Extended, Typed
<1>2. Places \subseteq Places'
  BY <1>1 DEF Places
<1>3. \A n \in DOMAIN log' : log'[n].gone => n \in DOMAIN log /\ log[n].gone
  BY DEF Extended
<1>4. Promised' = Promised /\ Promised \subseteq Places
  BY <1>0 DEF Promised, Delivered, Placed
<1>5. \A p \in Places : log'[p[1]] = log[p[1]]
  BY DEF Places, Extended
<1>6. StateFresh'
  <2>1. \A t \in Turns : \A p \in st.drafts[t].pieces : p \in Places
    BY <1>0 DEF Placed
  <2>2. st.journal # NoPiece => st.journal \in Places
    BY <1>0 DEF Placed
  <2> QED
    BY <1>0, <1>3, <1>4, <1>5, <2>1, <2>2 DEF StateFresh
<1>7. JobFresh'
  BY <1>0, <1>3 DEF JobFresh
<1>8. ASSUME op' = op PROVE OpFresh'
  <2>1. \A n \in 1..op.upto : n \in DOMAIN log
    BY <1>0, <1>1 DEF Placed, Typed, Operation
  <2>2. op.text \subseteq Places
    BY <1>0 DEF Placed
  <2>3. \A n \in 1..op.upto : log'[n] = log[n]
    BY <2>1 DEF Extended
  <2> QED
    BY <1>0, <1>3, <1>5, <1>8, <2>2, <2>3 DEF OpFresh, Building, Working, Chunks
<1>9. ASSUME op' \in Operation, op'.rev <= revision, op'.upto <= Len(log), op'.text \subseteq Places PROVE Placed'
  <2>1. \A n : n \in Int /\ n <= Len(log) => n <= Len(log')
    BY <1>1 DEF Extended
  <2>2. /\ st.delivery \in Int /\ st.projection \in Int /\ op'.upto \in Int /\ job.through \in Int
        /\ \A t \in Turns : st.drafts[t].through \in Int
    BY <1>0, <1>9 DEF Typed, StateFile, Draft, Jobs, Operation
  <2> QED
    BY <1>0, <1>1, <1>2, <1>9, <2>1, <2>2 DEF Placed
<1> QED
  BY <1>1, <1>2, <1>6, <1>7, <1>8, <1>9

LEMMA PostStep == ASSUME UploadInv, NEW kind \in Kinds, Post(kind) PROVE UploadInv'
<1>0. /\ Typed /\ Placed /\ TurnsLive /\ HooksTold /\ OutboxTrue /\ OpShape /\ LogTrue /\ ReadsTrue
      /\ JobTrue /\ ErasedStaysOut /\ CompletedUploadIsDone
  BY DEF UploadInv, TypeOK
<1> DEFINE e == [turn |-> NoTurn, kind |-> kind, gone |-> FALSE]
<1>1. e \in Event /\ kind \in {"chat", "long"} /\ NoTurn \notin Turns
  BY DesktopAssumption DEF Event, Kind
<1>2. log \in Seq(Event) /\ log' = Append(log, e)
  BY <1>0 DEF Typed, Event, Post
<1> HIDE DEF e
<1>3. /\ log' \in Seq(Event) /\ Len(log') = Len(log) + 1 /\ Len(log) \in Nat
      /\ DOMAIN log = 1..Len(log) /\ DOMAIN log' = 1..(Len(log) + 1)
      /\ \A n \in DOMAIN log : log'[n] = log[n]
      /\ log'[Len(log) + 1] = e
  BY <1>1, <1>2
<1>4. Extended
  BY <1>3 DEF Extended, e
<1>5. /\ StateFresh' /\ JobFresh' /\ OpFresh' /\ Placed'
  BY <1>0, <1>4, ExtendedClauses DEF Post, native, Placed, Typed
<1>6. \A n \in DOMAIN log' : n \in DOMAIN log \/ (log'[n].turn = NoTurn /\ log'[n].kind = kind)
  BY <1>3 DEF e
<1>7. Typed'
  <2>1. spent' \in Free
    <3>1. MaxPosts \in Nat /\ spent \in Free
      BY <1>0, DesktopAssumption DEF Typed, Free
    <3> QED
      BY <3>1 DEF Post, Free
  <2> QED
    BY <1>0, <1>3, <2>1 DEF Typed, Post, native, Free, Event
<1>8. TurnsLive' /\ HooksTold' /\ OutboxTrue' /\ OpShape' /\ JobTrue' /\ CompletedUploadIsDone'
  BY <1>0, TurnsFrame, HooksFrame, OutboxFrame, OpFrame, DueFrame, DoneFrame DEF Post
<1>9. LogTrue'
  <2>1. \A n \in DOMAIN log' : log'[n].turn = NoTurn <=> log'[n].kind \in {"chat", "long", "control"}
    BY <1>0, <1>1, <1>3, <1>6 DEF LogTrue
  <2>2. \A t \in Turns : /\ commits[t] # NoBody => task[t].status = "completed"
                         /\ commits[t] = NoBody => \A n \in DOMAIN log' : log'[n].turn # t
    BY <1>0, <1>1, <1>3, <1>6 DEF LogTrue
  <2>3. \A m, n \in DOMAIN log' :
           log'[m].turn = log'[n].turn /\ log'[m].kind = log'[n].kind
             /\ log'[m].kind \in {"request", "response"} => m = n
    BY <1>0, <1>1, <1>3, <1>6 DEF LogTrue
  <2>4. \A n \in DOMAIN log' : log'[n].turn # NoTurn =>
           \E m \in 1..n : log'[m].turn = log'[n].turn /\ log'[m].kind = "request"
    <3> SUFFICES ASSUME NEW n \in DOMAIN log', log'[n].turn # NoTurn
                 PROVE  \E m \in 1..n : log'[m].turn = log'[n].turn /\ log'[m].kind = "request"
      OBVIOUS
    <3>1. n \in DOMAIN log
      BY <1>6
    <3>2. PICK m \in 1..n : log[m].turn = log[n].turn /\ log[m].kind = "request"
      BY <1>0, <1>3, <3>1 DEF LogTrue
    <3> QED
      BY <1>3, <3>1, <3>2
  <2> QED
    BY <2>1, <2>2, <2>3, <2>4 DEF LogTrue, Post
<1>10. ReadsTrue' /\ ErasedStaysOut'
  <2>1. \A t \in Turns : task[t].read \subseteq DOMAIN log
    BY <1>0 DEF Placed
  <2> QED
    BY <1>0, <1>1, <1>3, <1>6, <2>1 DEF ReadsTrue, ErasedStaysOut, Post
<1> QED
  BY <1>5, <1>7, <1>8, <1>9, <1>10 DEF UploadInv, TypeOK


\* What an erasure marks, and what it appends.
Hit(x, m) == m = x \/ (log[m].kind \in {"tool", "response"} /\ RequestOf(log[m].turn) >= x)

LEMMA ErasureIs ==
    ASSUME Typed, NEW x \in DOMAIN log, Erase(x)
    PROVE  /\ log' \in Seq(Event) /\ Len(log') = Len(log) + 1
           /\ DOMAIN log' = 1..(Len(log) + 1) /\ DOMAIN log \subseteq DOMAIN log'
           /\ \A n \in DOMAIN log : /\ log'[n].turn = log[n].turn /\ log'[n].kind = log[n].kind
                                    /\ log'[n].gone <=> log[n].gone \/ Hit(x, n)
           /\ \A n \in DOMAIN log' : n \in DOMAIN log
                \/ (n = Len(log) + 1 /\ log'[n].turn = NoTurn /\ log'[n].kind = "control" /\ ~log'[n].gone)
<1> DEFINE old == [m \in DOMAIN log |-> IF Hit(x, m) THEN [log[m] EXCEPT !.gone = TRUE] ELSE log[m]]
           e == [turn |-> NoTurn, kind |-> "control", gone |-> FALSE]
<1>1. e \in Event /\ NoTurn \notin Turns /\ log \in Seq(Event) /\ log' = Append(old, e)
  BY DesktopAssumption DEF Event, Kind, Typed, Erase, Hit
<1>e. \A m \in DOMAIN log : log[m] \in Event /\ [log[m] EXCEPT !.gone = TRUE] \in Event
  <2>1. \A m \in DOMAIN log : log[m] \in Event
    BY <1>1
  <2>2. \A r \in Event : [r EXCEPT !.gone = TRUE] \in Event
    BY DEF Event
  <2> QED
    BY <2>1, <2>2, Zenon
<1>2. /\ old \in Seq(Event) /\ DOMAIN old = DOMAIN log /\ Len(old) = Len(log) /\ Len(log) \in Nat
      /\ DOMAIN log = 1..Len(log)
  <2>1. \A m \in DOMAIN log : old[m] = log[m] \/ old[m] = [log[m] EXCEPT !.gone = TRUE]
    OBVIOUS
  <2>2. \A m \in DOMAIN log : old[m] \in Event
    BY <1>e, <2>1, Zenon
  <2>3. DOMAIN log = 1..Len(log) /\ Len(log) \in Nat
    BY <1>1
  <2>4. DOMAIN old = DOMAIN log /\ old = [m \in DOMAIN old |-> old[m]]
    BY Zenon
  <2> HIDE DEF old
  <2>5. old \in [1..Len(log) -> Event]
    BY <2>2, <2>3, <2>4
  <2> QED
    BY <2>3, <2>4, <2>5, SeqDef
<1>3. \A m \in DOMAIN log : /\ old[m].turn = log[m].turn /\ old[m].kind = log[m].kind
                            /\ old[m].gone <=> log[m].gone \/ Hit(x, m)
  <2>1. \A m \in DOMAIN log : log[m] \in Event
    BY <1>1
  <2> SUFFICES ASSUME NEW m \in DOMAIN log
               PROVE  /\ old[m].turn = log[m].turn /\ old[m].kind = log[m].kind
                      /\ old[m].gone <=> log[m].gone \/ Hit(x, m)
    OBVIOUS
  <2>2. CASE Hit(x, m)
    <3>1. old[m] = [log[m] EXCEPT !.gone = TRUE]
      BY <2>2
    <3> QED
      BY <2>1, <2>2, <3>1 DEF Event
  <2>3. CASE ~Hit(x, m)
    <3>1. old[m] = log[m]
      BY <2>3
    <3> QED
      BY <2>3, <3>1
  <2> QED
    BY <2>2, <2>3
<1> HIDE DEF old, e
<1>4. /\ log' \in Seq(Event) /\ Len(log') = Len(log) + 1
      /\ DOMAIN log' = 1..(Len(log) + 1) /\ DOMAIN log \subseteq DOMAIN log'
      /\ \A n \in DOMAIN log : log'[n] = old[n]
      /\ log'[Len(log) + 1] = e
  BY <1>1, <1>2
<1>5. /\ e.turn = NoTurn /\ e.kind = "control" /\ ~e.gone
      /\ \A n \in DOMAIN log' : n \in DOMAIN log \/ n = Len(log) + 1
  BY <1>2, <1>4 DEF e
<1> QED
  BY <1>3, <1>4, <1>5, Zenon


LEMMA EraseStep == ASSUME UploadInv, NEW x \in DOMAIN log, Erase(x) PROVE UploadInv'
<1>0. /\ Typed /\ Placed /\ TurnsLive /\ HooksTold /\ OutboxTrue /\ OpShape /\ LogTrue /\ ReadsTrue
      /\ StateFresh /\ OpFresh /\ JobFresh /\ JobTrue /\ ErasedStaysOut /\ CompletedUploadIsDone
  BY DEF UploadInv, TypeOK
<1>1. NoTurn \notin Turns /\ log \in Seq(Event)
  BY <1>0, DesktopAssumption DEF Event, Typed
<1>2. Len(log) \in Nat /\ DOMAIN log = 1..Len(log)
  BY <1>1
<1>4. /\ log' \in Seq(Event) /\ Len(log') = Len(log) + 1
      /\ DOMAIN log' = 1..(Len(log) + 1) /\ DOMAIN log \subseteq DOMAIN log'
  BY <1>0, ErasureIs
<1>5. /\ \A n \in DOMAIN log : /\ log'[n].turn = log[n].turn /\ log'[n].kind = log[n].kind
                               /\ log'[n].gone <=> log[n].gone \/ Hit(x, n)
      /\ \A n \in DOMAIN log' : n \in DOMAIN log
                                \/ (log'[n].turn = NoTurn /\ log'[n].kind = "control" /\ ~log'[n].gone)
  BY <1>0, ErasureIs
<1>6. revision' = revision + 1 /\ revision \in Nat
  BY <1>0 DEF Typed, Erase
<1>7. UNCHANGED <<commits, writer, task, shown, injected, carried, hook, spool, st, conn, op, unsure>>
  BY DEF Erase, native
<1>8. job' \in Jobs /\ job'.status \in {"none", "failed"} /\ job'.due = {} /\ job'.through = job.through
  <2>1. job \in Jobs
    BY <1>0 DEF Typed, Jobs
  <2>2. CASE job = NoJob
    BY <2>1, <2>2 DEF Erase, NoJob
  <2>3. CASE job # NoJob
    BY <2>1, <2>3 DEF Erase, Jobs
  <2> QED
    BY <2>2, <2>3
<1>9. Typed'
  <2>1. spent' \in Free
    BY <1>0, Spends DEF Erase
  <2> QED
    BY <1>0, <1>4, <1>6, <1>7, <1>8, <2>1 DEF Typed, Free, Event, Jobs
<1>10. Placed'
  <2>1. Places \subseteq Places'
    BY <1>4 DEF Places
  <2>2. /\ st.rev \in Nat /\ op.rev \in Nat /\ st.delivery \in Nat /\ st.projection \in Nat
        /\ op.upto \in Nat /\ job.through \in Nat /\ \A t \in Turns : st.drafts[t].through \in Nat
    BY <1>0 DEF Typed, StateFile, Draft, Jobs, Operation
  <2>3. Len(log)' = Len(log) + 1 /\ DOMAIN log \subseteq (DOMAIN log)'
    BY <1>4
  <2>4. /\ st.rev <= revision /\ op.rev <= revision
        /\ st.delivery <= Len(log) /\ st.projection <= Len(log)
        /\ op.upto <= Len(log) /\ job.through <= Len(log)
        /\ \A t \in Turns : st.drafts[t].through <= Len(log)
    BY <1>0 DEF Placed
  <2>5. /\ st.rev <= revision' /\ op.rev <= revision'
        /\ st.delivery <= Len(log)' /\ st.projection <= Len(log)'
        /\ op.upto <= Len(log)' /\ job.through <= Len(log)'
        /\ \A t \in Turns : st.drafts[t].through <= Len(log)'
    <3>1. /\ Len(log) \in Nat /\ Len(log)' = Len(log) + 1 /\ revision' = revision + 1
          /\ revision \in Nat
      BY <1>2, <1>6, <2>3
    <3>2. \A k \in Nat : /\ k <= Len(log) => k <= Len(log)'
                         /\ k <= revision => k <= revision'
      BY <3>1
    <3> QED
      BY <2>2, <2>4, <3>2
  <2>6. /\ st'.rev <= revision' /\ op'.rev <= revision'
        /\ st'.delivery <= Len(log)' /\ st'.projection <= Len(log)'
        /\ op'.upto <= Len(log)' /\ job'.through <= Len(log)'
        /\ \A t \in Turns : st'.drafts[t].through <= Len(log)'
    BY <1>7, <1>8, <2>5, Zenon
  <2>7. /\ st.chk \in Places' \cup {NoPiece} /\ st.journal \in Places' \cup {NoPiece}
        /\ shown \subseteq Places' /\ Range(injected) \subseteq Places'
        /\ hook.pieces \subseteq Places' /\ op.text \subseteq Places'
        /\ \A t \in Turns : /\ task[t].gen <= st.gen /\ task[t].read \subseteq (DOMAIN log)'
                            /\ st.drafts[t].pieces \subseteq Places'
                            /\ st.drafts[t].chk \in Places' \cup {NoPiece}
    BY <1>0, <2>1, <2>3 DEF Placed
  <2>8. /\ st'.chk \in Places' \cup {NoPiece} /\ st'.journal \in Places' \cup {NoPiece}
        /\ shown' \subseteq Places' /\ Range(injected') \subseteq Places'
        /\ hook'.pieces \subseteq Places' /\ op'.text \subseteq Places'
        /\ \A t \in Turns : /\ task'[t].gen <= st'.gen /\ task'[t].read \subseteq (DOMAIN log)'
                            /\ st'.drafts[t].pieces \subseteq Places'
                            /\ st'.drafts[t].chk \in Places' \cup {NoPiece}
    BY <1>7, <2>7
  <2> QED
    BY <2>6, <2>8 DEF Placed
<1>11. TurnsLive' /\ HooksTold' /\ OutboxTrue' /\ OpShape'
  BY <1>0, <1>7, TurnsFrame, HooksFrame, OutboxFrame, OpFrame
<1>12. JobTrue' /\ CompletedUploadIsDone' /\ JobFresh'
  BY <1>8 DEF JobTrue, CompletedUploadIsDone, JobFresh
<1>13. LogTrue'
  <2>1. \A n \in DOMAIN log' : log'[n].turn = NoTurn <=> log'[n].kind \in {"chat", "long", "control"}
    BY <1>0, <1>5 DEF LogTrue
  <2>2. \A t \in Turns : /\ commits[t] # NoBody => task[t].status = "completed"
                         /\ commits[t] = NoBody => \A n \in DOMAIN log' : log'[n].turn # t
    BY <1>0, <1>1, <1>5 DEF LogTrue
  <2>3. \A m, n \in DOMAIN log' :
           log'[m].turn = log'[n].turn /\ log'[m].kind = log'[n].kind
             /\ log'[m].kind \in {"request", "response"} => m = n
    BY <1>0, <1>5 DEF LogTrue
  <2>4. \A n \in DOMAIN log' : log'[n].turn # NoTurn =>
           \E m \in 1..n : log'[m].turn = log'[n].turn /\ log'[m].kind = "request"
    <3> SUFFICES ASSUME NEW n \in DOMAIN log', log'[n].turn # NoTurn
                 PROVE  \E m \in 1..n : log'[m].turn = log'[n].turn /\ log'[m].kind = "request"
      OBVIOUS
    <3>1. n \in DOMAIN log /\ log[n].turn # NoTurn
      BY <1>5
    <3>2. PICK m \in 1..n : log[m].turn = log[n].turn /\ log[m].kind = "request"
      BY <1>0, <3>1 DEF LogTrue
    <3>3. m \in DOMAIN log
      BY <1>2, <3>1
    <3> QED
      BY <1>5, <3>1, <3>2, <3>3
  <2> QED
    BY <1>7, <2>1, <2>2, <2>3, <2>4 DEF LogTrue
<1>14. st.rev # revision' /\ op.rev # revision'
  <2>1. st.rev \in Nat /\ op.rev \in Nat /\ st.rev <= revision /\ op.rev <= revision
    BY <1>0 DEF Placed, Typed, StateFile, Operation
  <2> QED
    BY <1>6, <2>1
<1>15. StateFresh'
  BY <1>0, <1>7, <1>14 DEF StateFresh
<1>16. OpFresh'
  <2>1. \A n \in 1..op.upto : n \in DOMAIN log
    BY <1>0, <1>2 DEF Placed, Typed, Operation
  <2> QED
    BY <1>0, <1>5, <1>7, <1>14, <2>1 DEF OpFresh, Building, Working, Chunks
<1>17. \A t \in Turns : task[t].read \subseteq DOMAIN log
  BY <1>0 DEF Placed
<1>18. ReadsTrue'
  <2>1. \A t \in Turns : \A n \in task[t].read : \A m \in DOMAIN log' : log'[m].turn = t => n < m
    BY <1>0, <1>1, <1>5 DEF ReadsTrue
  <2> QED
    BY <1>7, <1>14, <2>1 DEF ReadsTrue
<1>19. ErasedStaysOut'
  <2> SUFFICES ASSUME NEW t \in Turns, NEW n \in task[t].read, log'[n].gone,
                      log'[n].kind \in {"chat", "long"},
                      NEW m \in DOMAIN log', log'[m].turn = t, log'[m].kind # "request"
               PROVE  log'[m].gone
    BY <1>7 DEF ErasedStaysOut
  <2>1. /\ n \in DOMAIN log /\ m \in DOMAIN log /\ log[m].turn = t /\ log[m].kind # "request"
        /\ log[n].kind \in {"chat", "long"}
    BY <1>1, <1>5, <1>17
  <2>2. CASE log[n].gone
    BY <1>0, <1>5, <2>1, <2>2 DEF ErasedStaysOut
  <2>3. CASE ~log[n].gone
    <3>1. n = x
      BY <1>5, <2>1, <2>3 DEF Hit
    <3>2. log[m].kind \in {"tool", "response"}
      <4>1. log[m] \in Event /\ log[m].turn # NoTurn
        BY <1>1, <2>1
      <4> QED
        BY <1>0, <2>1, <4>1 DEF LogTrue, Event, Kind
    <3>3. PICK k \in 1..m : log[k].turn = t /\ log[k].kind = "request"
      BY <1>0, <1>1, <2>1 DEF LogTrue
    <3>4. k \in DOMAIN log
      BY <1>2, <2>1
    <3>5. RequestOf(t) \in DOMAIN log /\ log[RequestOf(t)].turn = t
      BY <3>3, <3>4 DEF RequestOf
    <3>6. n < RequestOf(t)
      BY <1>0, <3>5 DEF ReadsTrue
    <3>7. RequestOf(t) >= x
      BY <1>2, <2>1, <3>1, <3>5, <3>6
    <3> QED
      BY <1>5, <2>1, <3>2, <3>7 DEF Hit
  <2> QED
    BY <2>2, <2>3
<1> QED
  BY <1>9, <1>10, <1>11, <1>12, <1>13, <1>15, <1>16, <1>18, <1>19 DEF UploadInv, TypeOK

\* A commit puts the request, its tool events and its response behind the log.
LEMMA AppendedIs ==
    ASSUME log \in Seq(Event), NEW e \in Entry
    PROVE  /\ Appended(e) \in Seq(Event)
           /\ Len(Appended(e)) = Len(log) + (IF e.tools THEN 3 ELSE 2)
           /\ \A n \in DOMAIN log : Appended(e)[n] = log[n]
           /\ \A n \in DOMAIN Appended(e) : n \notin DOMAIN log =>
                /\ Appended(e)[n].turn = e.turn /\ ~Appended(e)[n].gone
                /\ Appended(e)[n].kind = IF n = Len(log) + 1 THEN "request"
                                         ELSE IF n = Len(Appended(e)) THEN "response" ELSE "tool"
<1> DEFINE event(kind) == [turn |-> e.turn, kind |-> kind, gone |-> FALSE]
<1>1. event("request") \in Event /\ event("tool") \in Event /\ event("response") \in Event
  BY DEF Event, Kind, Entry
<1>2. /\ event("request").kind = "request" /\ event("tool").kind = "tool"
      /\ event("response").kind = "response"
      /\ event("request").turn = e.turn /\ event("tool").turn = e.turn
      /\ event("response").turn = e.turn
      /\ ~event("request").gone /\ ~event("tool").gone /\ ~event("response").gone
  OBVIOUS
<1>3. e.tools \in BOOLEAN
  BY DEF Entry
<1>4. Appended(e) = IF e.tools
                    THEN log \o <<event("request")>> \o <<event("tool")>> \o <<event("response")>>
                    ELSE log \o <<event("request")>> \o <<>> \o <<event("response")>>
  BY <1>3 DEF Appended
<1> DEFINE req == event("request")
           tool == event("tool")
           resp == event("response")
<1>5. req \in Event /\ tool \in Event /\ resp \in Event
  BY <1>1
<1>6. /\ req.kind = "request" /\ tool.kind = "tool" /\ resp.kind = "response"
      /\ req.turn = e.turn /\ tool.turn = e.turn /\ resp.turn = e.turn
      /\ ~req.gone /\ ~tool.gone /\ ~resp.gone
  BY <1>2
<1>7. Appended(e) = IF e.tools THEN log \o <<req>> \o <<tool>> \o <<resp>>
                    ELSE log \o <<req>> \o <<>> \o <<resp>>
  BY <1>4
<1> HIDE DEF req, tool, resp
<1>s. /\ <<req>> \in Seq(Event) /\ <<tool>> \in Seq(Event) /\ <<resp>> \in Seq(Event)
      /\ Len(<<req>>) = 1 /\ Len(<<tool>>) = 1 /\ Len(<<resp>>) = 1
      /\ <<req>>[1] = req /\ <<tool>>[1] = tool /\ <<resp>>[1] = resp
  BY <1>5
<1> DEFINE one == log \o <<req>>
           two == one \o <<tool>>
<1>a. /\ one \in Seq(Event) /\ Len(one) = Len(log) + 1 /\ one[Len(log) + 1] = req
      /\ \A n \in DOMAIN log : one[n] = log[n]
      /\ Len(log) \in Nat /\ DOMAIN log = 1..Len(log) /\ DOMAIN one = 1..(Len(log) + 1)
  BY <1>s
<1> HIDE DEF one
<1>b. /\ two \in Seq(Event) /\ Len(two) = Len(log) + 2 /\ two[Len(log) + 2] = tool
      /\ \A n \in DOMAIN one : two[n] = one[n]
      /\ DOMAIN two = 1..(Len(log) + 2)
  BY <1>a, <1>s
<1> HIDE DEF two
<1>8. CASE e.tools
  <2>1. Appended(e) = two \o <<resp>>
    BY <1>7, <1>8 DEF two, one
  <2>2. /\ Appended(e) \in Seq(Event) /\ Len(Appended(e)) = Len(log) + 3
        /\ Appended(e)[Len(log) + 3] = resp
        /\ \A n \in DOMAIN two : Appended(e)[n] = two[n]
        /\ DOMAIN Appended(e) = 1..(Len(log) + 3)
    BY <1>a, <1>b, <1>s, <2>1
  <2>3. /\ \A n \in DOMAIN log : Appended(e)[n] = log[n]
        /\ Appended(e)[Len(log) + 1] = req /\ Appended(e)[Len(log) + 2] = tool
    <3>1. /\ \A n \in DOMAIN log : n \in DOMAIN one /\ n \in DOMAIN two
          /\ Len(log) + 1 \in DOMAIN one /\ Len(log) + 1 \in DOMAIN two /\ Len(log) + 2 \in DOMAIN two
      BY <1>a, <1>b
    <3> QED
      BY <1>a, <1>b, <2>2, <3>1
  <2>4. \A n \in DOMAIN Appended(e) : n \notin DOMAIN log =>
            n = Len(log) + 1 \/ n = Len(log) + 2 \/ n = Len(log) + 3
    BY <1>a, <2>2
  <2>5. Len(log) + 1 # Len(log) + 2 /\ Len(log) + 1 # Len(log) + 3 /\ Len(log) + 2 # Len(log) + 3
    BY <1>a
  <2> QED
    BY <1>6, <1>8, <2>2, <2>3, <2>4, <2>5
<1>9. CASE ~e.tools
  <2>0. one \o <<>> = one
    BY <1>a
  <2>1. Appended(e) = one \o <<resp>>
    BY <1>7, <1>9, <2>0 DEF one
  <2>2. /\ Appended(e) \in Seq(Event) /\ Len(Appended(e)) = Len(log) + 2
        /\ Appended(e)[Len(log) + 2] = resp
        /\ \A n \in DOMAIN one : Appended(e)[n] = one[n]
        /\ DOMAIN Appended(e) = 1..(Len(log) + 2)
    BY <1>a, <1>s, <2>1
  <2>3. /\ \A n \in DOMAIN log : Appended(e)[n] = log[n]
        /\ Appended(e)[Len(log) + 1] = req
    BY <1>a, <2>2
  <2>4. \A n \in DOMAIN Appended(e) : n \notin DOMAIN log => n = Len(log) + 1 \/ n = Len(log) + 2
    BY <1>a, <2>2
  <2>5. Len(log) + 1 # Len(log) + 2
    BY <1>a
  <2> QED
    BY <1>6, <1>9, <2>2, <2>3, <2>4, <2>5
<1> QED
  BY <1>3, <1>8, <1>9


\* The first entry of the outbox.
LEMMA FirstEntry ==
    ASSUME UploadInv, st.pending # <<>>
    PROVE  /\ Head(st.pending) \in Entry /\ Head(st.pending) = st.pending[1]
           /\ Head(st.pending).turn \in Turns /\ 1 \in DOMAIN st.pending
           /\ task[Head(st.pending).turn].status = "completed"
           /\ task[Head(st.pending).turn].gen = st.gen
           /\ Head(st.pending).rev = st.rev
<1>0. st.pending \in Seq(Entry) /\ OutboxTrue /\ TurnsLive
  BY DEF UploadInv, TypeOK, Typed, StateFile
<1>1. Head(st.pending) \in Entry /\ Head(st.pending) = st.pending[1] /\ 1 \in DOMAIN st.pending
  BY <1>0
<1>2. Head(st.pending).turn \in Turns
  BY <1>1 DEF Entry
<1>3. /\ st.bind[Head(st.pending).turn] \in {"pending", "unknown"}
      /\ task[Head(st.pending).turn].status = "completed" /\ Head(st.pending).rev = st.rev
  BY <1>0, <1>1 DEF OutboxTrue
<1> QED
  BY <1>0, <1>1, <1>2, <1>3 DEF TurnsLive

\* A commit the server takes: the turn's events are behind the log, or were there.
Taken(t) ==
  /\ Extended
  /\ \/ log' = log
     \/ /\ commits[t] = NoBody /\ st.rev = revision /\ Len(log) + 1 \in DOMAIN log'
        /\ \A n \in DOMAIN log' : n \notin DOMAIN log =>
             /\ log'[n].turn = t /\ log'[n].kind \in {"request", "tool", "response"}
             /\ log'[n].kind = "request" <=> n = Len(log) + 1
             /\ log'[n].kind = "response" <=> n = Len(log')

LEMMA CommitIsTaken ==
    ASSUME UploadInv, Commit, ~Refused(Head(st.pending))
    PROVE  /\ Taken(Head(st.pending).turn)
           /\ commits' = [commits EXCEPT ![Head(st.pending).turn] = Body(Head(st.pending))]
<1> DEFINE e == Head(st.pending)
<1>0. Typed /\ OpShape
  BY DEF UploadInv, TypeOK
<1>1. st.pending # <<>>
  BY <1>0 DEF OpShape, Commit
<1>2. e \in Entry /\ e.turn \in Turns /\ e.rev = st.rev
  BY <1>1, FirstEntry
<1> HIDE DEF e
<1>3. /\ log' = IF Retry(e) THEN log ELSE Appended(e)
      /\ commits' = [commits EXCEPT ![e.turn] = Body(e)]
  BY DEF Commit, e
<1>4. log \in Seq(Event) /\ Len(log) \in Nat /\ DOMAIN log = 1..Len(log)
  BY <1>0 DEF Typed, Event
<1>5. CASE Retry(e)
  <2>1. log' = log
    BY <1>3, <1>5
  <2>2. Extended
    BY <1>4, <2>1 DEF Extended
  <2> QED
    BY <1>3, <2>1, <2>2 DEF Taken, e
<1>6. CASE ~Retry(e)
  <2>1. commits[e.turn] = NoBody /\ st.rev = revision
    BY <1>2, <1>6 DEF Retry, Refused, e
  <2>2. log' = Appended(e) /\ e.tools \in BOOLEAN
    BY <1>2, <1>3, <1>6 DEF Entry
  <2>3. /\ log' \in Seq(Event)
        /\ Len(log') = Len(log) + (IF e.tools THEN 3 ELSE 2)
        /\ \A n \in DOMAIN log : log'[n] = log[n]
        /\ \A n \in DOMAIN log' : n \notin DOMAIN log =>
                /\ log'[n].turn = e.turn /\ ~log'[n].gone
                /\ log'[n].kind = IF n = Len(log) + 1 THEN "request"
                                   ELSE IF n = Len(log') THEN "response" ELSE "tool"
    BY <1>2, <1>4, <2>2, AppendedIs
  <2>4. Len(log') \in Nat /\ Len(log') >= Len(log) + 2 /\ DOMAIN log' = 1..Len(log')
    BY <1>4, <2>3
  <2>5. /\ Len(log) <= Len(log') /\ Len(log) + 1 \in DOMAIN log' /\ Len(log) + 1 # Len(log')
        /\ \A n \in DOMAIN log : n \in DOMAIN log'
        /\ \A n \in DOMAIN log' : n \notin DOMAIN log => n > Len(log)
    <3>1. \A a, b \in Nat : b >= a + 2 => /\ a <= b /\ a + 1 \in 1..b /\ a + 1 # b
                                           /\ 1..a \subseteq 1..b
                                           /\ \A n \in 1..b : n \notin 1..a => n > a
      OBVIOUS
    <3> QED
      BY <1>4, <2>4, <3>1
  <2>6. Extended
    BY <2>3, <2>5 DEF Extended
  <2> QED
    BY <1>3, <2>1, <2>3, <2>5, <2>6 DEF Taken, e
<1> QED
  BY <1>5, <1>6

LEMMA TakenLog ==
    ASSUME UploadInv, NEW t \in Turns, Taken(t), task[t].status = "completed", UNCHANGED task,
           \A u \in Turns : u # t => commits'[u] = commits[u], commits'[t] # NoBody
    PROVE  LogTrue'
<1>0. /\ Typed /\ LogTrue /\ log \in Seq(Event) /\ Len(log) \in Nat /\ DOMAIN log = 1..Len(log)
      /\ NoTurn \notin Turns
  BY DesktopAssumption DEF UploadInv, TypeOK, Typed, Event
<1>1. CASE log' = log
  <2>1. \A u \in Turns : /\ commits'[u] # NoBody => task[u].status = "completed"
                         /\ commits'[u] = NoBody => \A n \in DOMAIN log : log[n].turn # u
    BY <1>0 DEF LogTrue
  <2> QED
    BY <1>0, <1>1, <2>1 DEF LogTrue
<1>2. CASE log' # log
  <2>1. /\ commits[t] = NoBody /\ Len(log) + 1 \in DOMAIN log'
        /\ \A n \in DOMAIN log' : n \notin DOMAIN log =>
             /\ log'[n].turn = t /\ log'[n].kind \in {"request", "tool", "response"}
             /\ log'[n].kind = "request" <=> n = Len(log) + 1
             /\ log'[n].kind = "response" <=> n = Len(log')
    BY <1>2 DEF Taken
  <2>2. /\ \A n \in DOMAIN log : n \in DOMAIN log' /\ log'[n] = log[n]
        /\ \A n \in DOMAIN log' : n \notin DOMAIN log => n > Len(log) /\ n \in Nat
    BY <1>0 DEF Taken, Extended
  <2>3. \A n \in DOMAIN log : log[n].turn # t
    BY <1>0, <2>1 DEF LogTrue
  <2>4. \A n \in DOMAIN log' : log'[n].turn = NoTurn <=> log'[n].kind \in {"chat", "long", "control"}
    BY <1>0, <2>1, <2>2 DEF LogTrue
  <2>5. \A u \in Turns : /\ commits'[u] # NoBody => task[u].status = "completed"
                         /\ commits'[u] = NoBody => \A n \in DOMAIN log' : log'[n].turn # u
    BY <1>0, <2>1, <2>2 DEF LogTrue
  <2>6. \A m, n \in DOMAIN log' :
           log'[m].turn = log'[n].turn /\ log'[m].kind = log'[n].kind
             /\ log'[m].kind \in {"request", "response"} => m = n
    <3> SUFFICES ASSUME NEW m \in DOMAIN log', NEW n \in DOMAIN log', log'[m].turn = log'[n].turn,
                        log'[m].kind = log'[n].kind, log'[m].kind \in {"request", "response"}
                 PROVE  m = n
      OBVIOUS
    <3>1. CASE m \in DOMAIN log /\ n \in DOMAIN log
      BY <1>0, <2>2, <3>1 DEF LogTrue
    <3>2. CASE m \notin DOMAIN log /\ n \notin DOMAIN log
      BY <2>1, <3>2
    <3>3. CASE ~(m \in DOMAIN log <=> n \in DOMAIN log)
      BY <2>1, <2>2, <2>3, <3>3
    <3> QED
      BY <3>1, <3>2, <3>3
  <2>7. \A n \in DOMAIN log' : log'[n].turn # NoTurn =>
           \E m \in 1..n : log'[m].turn = log'[n].turn /\ log'[m].kind = "request"
    <3> SUFFICES ASSUME NEW n \in DOMAIN log', log'[n].turn # NoTurn
                 PROVE  \E m \in 1..n : log'[m].turn = log'[n].turn /\ log'[m].kind = "request"
      OBVIOUS
    <3>1. CASE n \in DOMAIN log
      <4>1. PICK m \in 1..n : log[m].turn = log[n].turn /\ log[m].kind = "request"
        BY <1>0, <2>2, <3>1 DEF LogTrue
      <4>2. m \in DOMAIN log
        BY <1>0, <3>1
      <4> QED
        BY <2>2, <3>1, <4>1, <4>2
    <3>2. CASE n \notin DOMAIN log
      <4>1. n > Len(log) /\ n \in Nat
        BY <2>2, <3>2
      <4>2. Len(log) + 1 \in 1..n /\ Len(log) + 1 \notin DOMAIN log
        BY <1>0, <4>1
      <4> QED
        BY <2>1, <3>2, <4>2
    <3> QED
      BY <3>1, <3>2
  <2> QED
    BY <2>4, <2>5, <2>6, <2>7 DEF LogTrue
<1> QED
  BY <1>1, <1>2

LEMMA CommitStep == ASSUME UploadInv, Commit PROVE UploadInv'
<1>0. /\ Typed /\ Placed /\ TurnsLive /\ HooksTold /\ OutboxTrue /\ OpShape /\ LogTrue /\ ReadsTrue
      /\ JobTrue /\ ErasedStaysOut /\ CompletedUploadIsDone /\ op \in Operation
  BY DEF UploadInv, TypeOK, Typed
<1> DEFINE e == Head(st.pending)
           t == e.turn
<1>1. op.step = "commit" /\ st.pending # <<>> /\ op.kind # "none"
  BY <1>0 DEF OpShape, Commit, NoOp
<1>2. e \in Entry /\ t \in Turns /\ task[t].status = "completed" /\ task[t].gen = st.gen
  BY <1>1, FirstEntry
<1>3. CASE Refused(e)
  <2>1. Abandon /\ UNCHANGED <<log, commits, revision, writer, task, native, st, unsure, spent>>
    BY <1>3 DEF Commit
  <2>2. unsure' \subseteq Turns /\ spent' \in Free /\ UNCHANGED Core /\ UNCHANGED writer
    BY <1>0, <2>1 DEF Typed, Free, Core, native
  <2> QED
    BY <1>1, <2>1, <2>2, AbandonStep
<1>4. CASE ~Refused(e)
  <2>1. /\ Taken(t) /\ commits' = [commits EXCEPT ![t] = Body(e)]
        /\ op' = [op EXCEPT !.step = "ack"] /\ UNCHANGED <<hook, spool, job, conn>>
        /\ UNCHANGED <<revision, writer, task, native, st, unsure, spent>>
    BY <1>4, CommitIsTaken DEF Commit
  <2>2. UNCHANGED <<shown, injected, carried>> /\ NoTurn \notin Turns
    BY <2>1, DesktopAssumption DEF native
  <2>3. Body(e) \in [rev: Int, tools: BOOLEAN] /\ Body(e) # NoBody
    BY <1>2 DEF Body, NoBody, Entry
  <2> HIDE DEF e, t
  <2>4. /\ commits' \in [Turns -> [rev: Int, tools: BOOLEAN]] /\ commits'[t] # NoBody
        /\ \A u \in Turns : u # t => commits'[u] = commits[u]
    BY <1>0, <1>2, <2>1, <2>3 DEF Typed
  <2>5. /\ op' \in Operation /\ op'.kind = op.kind /\ op'.step = "ack" /\ op'.rev = op.rev
        /\ op'.upto = op.upto /\ op'.text = op.text
    BY <1>0, <2>1 DEF Operation
  <2>6. Extended /\ log' \in Seq(Event)
    BY <2>1 DEF Taken, Extended
  <2>7. StateFresh' /\ JobFresh' /\ Placed'
    BY <1>0, <2>1, <2>2, <2>5, <2>6, ExtendedClauses DEF Placed
  <2>8. Typed'
    BY <1>0, <2>1, <2>2, <2>4, <2>5, <2>6 DEF Typed, Event
  <2>9. LogTrue'
    BY <1>2, <2>1, <2>4, TakenLog
  <2>10. HooksTold' /\ OutboxTrue'
    BY <1>0, <2>1, HooksFrame, OutboxFrame
  <2>11. TurnsLive'
    BY <1>0, <2>1, <2>4 DEF TurnsLive, Outboxed
  <2>12. OpShape'
    <3>1. op'.kind # "none" /\ op'.kind \in {"sync", "upload"} /\ st.bind[t] = "unknown"
      BY <1>0, <1>1, <2>5 DEF OpShape, t, e
    <3>2. Head(st'.pending).turn = t /\ st'.pending # <<>> /\ st'.bind = st.bind
      BY <1>1, <2>1 DEF t, e
    <3> QED
      BY <2>4, <2>5, <3>1, <3>2 DEF OpShape, NoOp
  <2>13. OpFresh'
    BY <2>5 DEF OpFresh, Building, Working
  <2>14. JobTrue' /\ CompletedUploadIsDone'
    <3>1. \A u \in Turns : commits[u] # NoBody => commits'[u] # NoBody
      BY <2>4
    <3>2. job.due \subseteq Turns
      BY <1>0 DEF Typed
    <3> QED
      BY <1>0, <1>1, <2>1, <2>5, <3>1, <3>2 DEF JobTrue, CompletedUploadIsDone, Outboxed
  <2>15. /\ \A n \in DOMAIN log : n \in DOMAIN log' /\ log'[n] = log[n]
         /\ \A n \in DOMAIN log' : n \notin DOMAIN log => n > Len(log) /\ ~log'[n].gone
         /\ \A n \in DOMAIN log' : n \notin DOMAIN log => st.rev = revision /\ log'[n].turn = t
    BY <2>1 DEF Taken, Extended
  <2>16. \A u \in Turns : task[u].read \subseteq DOMAIN log
    BY <1>0 DEF Placed
  <2>17. ReadsTrue'
    <3> SUFFICES ASSUME NEW u \in Turns, NEW n \in task[u].read
                 PROVE  /\ \A m \in DOMAIN log' : log'[m].turn = u => n < m
                        /\ task[u].gen = st.gen /\ log'[n].gone => st.rev # revision
      BY <2>1 DEF ReadsTrue
    <3>1. n \in DOMAIN log /\ n \in Nat /\ n <= Len(log) /\ Len(log) \in Nat
      BY <1>0, <2>16 DEF Typed
    <3>2. \A m \in DOMAIN log' : m \in Nat
      BY <2>6
    <3>3. \A m \in DOMAIN log' : m \notin DOMAIN log => n < m
      BY <2>15, <3>1, <3>2
    <3>4. \A m \in DOMAIN log' : log'[m].turn = u => n < m
      BY <1>0, <2>15, <3>3 DEF ReadsTrue
    <3> QED
      BY <1>0, <2>15, <3>1, <3>4 DEF ReadsTrue
  <2>18. ErasedStaysOut'
    <3> SUFFICES ASSUME NEW u \in Turns, NEW n \in task[u].read, log'[n].gone,
                        log'[n].kind \in {"chat", "long"},
                        NEW m \in DOMAIN log', log'[m].turn = u, log'[m].kind # "request"
                 PROVE  log'[m].gone
      BY <2>1 DEF ErasedStaysOut
    <3>1. n \in DOMAIN log /\ log'[n] = log[n]
      BY <2>15, <2>16
    <3>2. CASE m \in DOMAIN log
      BY <1>0, <2>15, <3>1, <3>2 DEF ErasedStaysOut
    <3>3. CASE m \notin DOMAIN log
      BY <1>0, <1>2, <2>15, <3>1, <3>3 DEF ReadsTrue
    <3> QED
      BY <3>2, <3>3
  <2> QED
    BY <2>7, <2>8, <2>9, <2>10, <2>11, <2>12, <2>13, <2>14, <2>17, <2>18 DEF UploadInv, TypeOK
<1> QED
  BY <1>3, <1>4

-----------------------------------------------------------------------------
(* The user's turns, and the hook's answer.                                *)

Turn == [status: {"new", "active", "completed", "interrupted"}, gen: Nat,
         hooked: BOOLEAN, read: SUBSET Nat]

LEMMA EntriesAre ==
    ASSUME Typed
    PROVE  /\ \A i \in DOMAIN spool : /\ spool[i].turn \in Turns
                                      /\ spool[i].name \in {"prompt", "stop", "cancel"}
           /\ \A i \in DOMAIN st.pending : /\ st.pending[i] \in Entry
                                           /\ st.pending[i].turn \in Turns
<1>1. spool \in Spool /\ st.pending \in Seq(Entry)
  BY DEF Typed, Spool, StateFile
<1> DEFINE S == [turn: Turns, name: {"prompt", "stop", "cancel"}]
<1>2. \A i \in DOMAIN spool : spool[i] \in S
  <2>1. spool \in Seq(S)
    BY <1>1 DEF Spool
  <2> HIDE DEF S
  <2> QED
    BY <2>1
<1>3. \A i \in DOMAIN st.pending : st.pending[i] \in Entry
  BY <1>1
<1> QED
  BY <1>2, <1>3 DEF Entry

\* The hook of a turn that has got a status, or none.
Fired(t, status, name) ==
  \/ hook' = NoHook
  \/ /\ hook' = [turn |-> t, name |-> name, at |-> "sent", pieces |-> {}]
     /\ name \in {"prompt", "stop", "cancel"}
     /\ name = "prompt" => status = "active"
     /\ name = "stop" => status = "completed"
     /\ name = "cancel" => status = "interrupted"

\* A turn moves on, and may fire its hook.
LEMMA TurnMoves ==
    ASSUME UploadInv, hook = NoHook, NEW t \in Turns, NEW r \in Turn, NEW name,
           task' = [task EXCEPT ![t] = r], task[t].status \in {"new", "active"},
           r.status # "new", r.gen <= st.gen, r.read \subseteq DOMAIN log,
           r.status # "completed" => r.read = {}, st.bind[t] # "none" => r.gen = st.gen,
           \A n \in r.read : r.gen = st.gen /\ log[n].gone => st.rev # revision,
           Fired(t, r.status, name),
           UNCHANGED <<log, revision, commits, writer, job, shown, injected, carried, spool, st, conn,
                       op, unsure, spent>>
    PROVE  UploadInv'
<1>0. /\ Typed /\ Placed /\ TurnsLive /\ HooksTold /\ OutboxTrue /\ OpShape /\ LogTrue /\ ReadsTrue
      /\ StateFresh /\ OpFresh /\ JobFresh /\ JobTrue /\ ErasedStaysOut /\ CompletedUploadIsDone
  BY DEF UploadInv, TypeOK
<1>1. /\ task' \in [Turns -> Turn] /\ task'[t] = r
      /\ \A u \in Turns : u # t => task'[u] = task[u]
  BY <1>0 DEF Typed, Turn
<1>2. hook' \in Hooks /\ hook'.pieces = {} /\ hook'.at # "reply"
  <2>1. NoHook \in Hooks /\ NoHook.pieces = {} /\ NoHook.at # "reply"
    BY DEF NoHook, Hooks
  <2> QED
    BY <2>1 DEF Hooks, Fired
<1>3. Typed'
  BY <1>0, <1>1, <1>2 DEF Typed, Turn, Hooks
<1>4. Placed'
  BY <1>0, <1>1, <1>2 DEF Placed, Places
<1>5. TurnsLive'
  BY <1>0, <1>1 DEF TurnsLive, Outboxed
<1>6. HooksTold'
  <2>1. \A u \in Turns : /\ task[u].status # "new" => task'[u].status # "new"
                         /\ task[u].status = "completed" => task'[u].status = "completed"
                         /\ task[u].status = "interrupted" => task'[u].status = "interrupted"
    BY <1>1
  <2>2. \A i \in DOMAIN spool :
          /\ spool[i].name = "prompt" => task'[spool[i].turn].status # "new"
          /\ spool[i].name = "stop"   => task'[spool[i].turn].status = "completed"
          /\ spool[i].name = "cancel" => task'[spool[i].turn].status = "interrupted"
    BY <1>0, <2>1, EntriesAre DEF HooksTold, Told
  <2>3. \/ hook' = NoHook
        \/ /\ hook'.turn = t /\ hook'.name = name /\ hook'.at = "sent" /\ hook' # NoHook
    BY DEF NoHook, Fired
  <2>4. CASE hook' = NoHook
    BY <2>2, <2>4 DEF HooksTold, NoHook, Told
  <2>5. CASE hook' # NoHook
    BY <1>1, <2>2, <2>3, <2>5 DEF HooksTold, Told, Fired
  <2> QED
    BY <2>4, <2>5
<1>7. OutboxTrue'
  <2>1. \A i \in DOMAIN st.pending : st.pending[i].turn \in Turns /\ st.pending[i].turn # t
    BY <1>0, EntriesAre DEF OutboxTrue
  <2> QED
    BY <1>0, <1>1, <2>1 DEF OutboxTrue
<1>8. OpShape'
  BY <1>0 DEF OpShape, NoHook
<1>9. commits[t] = NoBody /\ \A n \in DOMAIN log : log[n].turn # t
  BY <1>0 DEF LogTrue
<1>10. LogTrue'
  BY <1>0, <1>1, <1>9 DEF LogTrue
<1>11. ReadsTrue'
  <2> SUFFICES ASSUME NEW u \in Turns, NEW n \in task'[u].read
               PROVE  /\ \A m \in DOMAIN log : log[m].turn = u => n < m
                      /\ task'[u].gen = st.gen /\ log[n].gone => st.rev # revision
    BY DEF ReadsTrue
  <2>1. CASE u = t
    BY <1>1, <1>9, <2>1
  <2>2. CASE u # t
    BY <1>0, <1>1, <2>2 DEF ReadsTrue
  <2> QED
    BY <2>1, <2>2
<1>12. StateFresh'
  <2>1. Promised' \subseteq Promised
    BY <1>2 DEF Promised, Delivered
  <2> QED
    BY <1>0, <2>1 DEF StateFresh
<1>13. OpFresh' /\ JobFresh' /\ JobTrue' /\ CompletedUploadIsDone'
  BY <1>0, BuildFrame, JobFrame, DueFrame, DoneFrame
<1>14. ErasedStaysOut'
  <2> SUFFICES ASSUME NEW u \in Turns, NEW n \in task'[u].read, log[n].gone,
                      log[n].kind \in {"chat", "long"},
                      NEW m \in DOMAIN log, log[m].turn = u, log[m].kind # "request"
               PROVE  log[m].gone
    BY DEF ErasedStaysOut
  <2>1. u # t
    BY <1>9
  <2> QED
    BY <1>0, <1>1, <2>1 DEF ErasedStaysOut
<1> QED
  BY <1>3, <1>4, <1>5, <1>6, <1>7, <1>8, <1>10, <1>11, <1>12, <1>13, <1>14 DEF UploadInv, TypeOK

LEMMA UserActions ==
    ASSUME UploadInv, NEW t \in Turns,
           \/ Finish(t) \/ Interrupt(t) \/ \E hooked \in BOOLEAN : Prompt(t, hooked)
    PROVE  UploadInv'
<1>0. Typed /\ Placed /\ TurnsLive /\ StateFresh
  BY DEF UploadInv, TypeOK
<1>1. /\ task \in [Turns -> Turn] /\ task[t] \in Turn /\ st.gen \in Nat /\ st.gen <= st.gen
      /\ task[t].gen <= st.gen
  BY <1>0 DEF Typed, Placed, Turn, StateFile
<1>2. ASSUME NEW hooked \in BOOLEAN, Prompt(t, hooked) PROVE UploadInv'
  <2> DEFINE r == [task[t] EXCEPT !.status = "active", !.gen = st.gen, !.hooked = hooked]
  <2>1. r \in Turn /\ r.status = "active" /\ r.gen = st.gen /\ r.read = task[t].read
    BY <1>1 DEF Turn
  <2>2. r.read = {}
    BY <1>0, <1>2, <2>1 DEF TurnsLive, Prompt
  <2>3. task' = [task EXCEPT ![t] = r]
    BY <1>1, <1>2 DEF Prompt
  <2> HIDE DEF r
  <2>4. /\ hook = NoHook /\ task[t].status \in {"new", "active"}
        /\ hook' = NoHook \/ hook' = [turn |-> t, name |-> "prompt", at |-> "sent", pieces |-> {}]
        /\ UNCHANGED <<log, revision, commits, writer, job, shown, injected, carried, spool, st, conn,
                       op, unsure, spent>>
    BY <1>2 DEF Prompt, server, native
  <2>5. Fired(t, r.status, "prompt")
    BY <2>1, <2>4 DEF Fired
  <2>6. r.status # "new" /\ r.gen <= st.gen /\ r.read \subseteq DOMAIN log
        /\ \A n \in r.read : r.gen = st.gen /\ log[n].gone => st.rev # revision
    BY <1>1, <2>1, <2>2
  <2> QED
    BY <2>1, <2>2, <2>3, <2>4, <2>5, <2>6, TurnMoves
<1>3. CASE Finish(t)
  <2> DEFINE read == IF task[t].gen = st.gen THEN {p[1] : p \in Delivered} ELSE {}
             r == [task[t] EXCEPT !.status = "completed", !.read = read]
  <2>1. Delivered \subseteq Places
    BY <1>0 DEF Placed, Delivered
  <2>2. read \subseteq DOMAIN log /\ DOMAIN log \subseteq Nat
    BY <1>0, <2>1 DEF Typed, Places
  <2>3. task[t].gen = st.gen => \A n \in read : log[n].gone => st.rev # revision
    BY <1>0 DEF StateFresh, Promised
  <2>4. task' = [task EXCEPT ![t] = r]
    BY <1>1, <1>3 DEF Finish
  <2> HIDE DEF read
  <2>5. r \in Turn /\ r.status = "completed" /\ r.gen = task[t].gen /\ r.read = read
    BY <1>1, <2>2 DEF Turn
  <2> HIDE DEF r
  <2>6. /\ hook = NoHook /\ task[t].status = "active"
        /\ hook' = NoHook \/ hook' = [turn |-> t, name |-> "stop", at |-> "sent", pieces |-> {}]
        /\ UNCHANGED <<log, revision, commits, writer, job, shown, injected, carried, spool, st, conn,
                       op, unsure, spent>>
    BY <1>3 DEF Finish, Fire, server, native
  <2> QED
    <3>1. Fired(t, r.status, "stop")
      BY <2>5, <2>6 DEF Fired
    <3>2. /\ r.status # "new" /\ r.gen <= st.gen /\ r.read \subseteq DOMAIN log
          /\ \A n \in r.read : r.gen = st.gen /\ log[n].gone => st.rev # revision
          /\ st.bind[t] # "none" => r.gen = st.gen
      BY <1>0, <1>1, <2>2, <2>3, <2>5 DEF TurnsLive
    <3> QED
      BY <2>4, <2>5, <2>6, <3>1, <3>2, TurnMoves
<1>4. CASE Interrupt(t)
  <2> DEFINE r == [task[t] EXCEPT !.status = "interrupted"]
  <2>1. r \in Turn /\ r.status = "interrupted" /\ r.gen = task[t].gen /\ r.read = task[t].read
    BY <1>1 DEF Turn
  <2>2. r.read = {}
    BY <1>0, <1>4, <2>1 DEF TurnsLive, Interrupt
  <2>3. task' = [task EXCEPT ![t] = r]
    BY <1>1, <1>4 DEF Interrupt
  <2> HIDE DEF r
  <2>4. /\ hook = NoHook /\ task[t].status = "active"
        /\ hook' = NoHook \/ hook' = [turn |-> t, name |-> "cancel", at |-> "sent", pieces |-> {}]
        /\ UNCHANGED <<log, revision, commits, writer, job, shown, injected, carried, spool, st, conn,
                       op, unsure, spent>>
    BY <1>4 DEF Interrupt, Fire, server, native
  <2> QED
    <3>1. Fired(t, r.status, "cancel")
      BY <2>1, <2>4 DEF Fired
    <3>2. /\ r.status # "new" /\ r.gen <= st.gen /\ r.read \subseteq DOMAIN log
          /\ \A n \in r.read : r.gen = st.gen /\ log[n].gone => st.rev # revision
          /\ st.bind[t] # "none" => r.gen = st.gen
      BY <1>0, <1>1, <2>1, <2>2 DEF TurnsLive
    <3> QED
      BY <2>1, <2>2, <2>3, <2>4, <3>1, <3>2, TurnMoves
<1> QED
  BY <1>2, <1>3, <1>4

LEMMA ReplyStep == ASSUME UploadInv, HookReply PROVE UploadInv'
<1>0. /\ Typed /\ Placed /\ TurnsLive /\ HooksTold /\ OutboxTrue /\ OpShape /\ LogTrue /\ ReadsTrue
      /\ StateFresh /\ OpFresh /\ JobFresh /\ JobTrue /\ ErasedStaysOut /\ CompletedUploadIsDone
  BY DEF UploadInv, TypeOK
<1>1. /\ hook' = NoHook /\ hook.at = "reply" /\ shown' \subseteq shown \cup hook.pieces
      /\ task[hook.turn].gen # st.gen => shown' = shown
      /\ UNCHANGED <<log, revision, commits, writer, job, task, injected, carried, spool, st, conn, op,
                     unsure, spent>>
  BY DEF HookReply, server
<1>2. NoHook \in Hooks /\ NoHook.pieces = {} /\ NoHook.at = "none"
  BY DEF NoHook, Hooks
<1>3. Typed'
  <2>1. hook.pieces \subseteq Piece
    BY <1>0 DEF Typed
  <2> QED
    BY <1>0, <1>1, <1>2, <2>1 DEF Typed, Hooks
<1>4. Placed'
  BY <1>0, <1>1, <1>2 DEF Placed, Places
<1>5. TurnsLive' /\ OutboxTrue' /\ LogTrue' /\ ReadsTrue' /\ ErasedStaysOut' /\ OpFresh' /\ JobFresh'
      /\ JobTrue' /\ CompletedUploadIsDone'
  BY <1>0, <1>1, TurnsFrame, OutboxFrame, LogFrame, ReadsFrame, ErasedFrame, BuildFrame, JobFrame,
     DueFrame, DoneFrame
<1>6. HooksTold'
  BY <1>0, <1>1, <1>2 DEF HooksTold, Told
<1>7. OpShape'
  BY <1>0, <1>1 DEF OpShape
<1>8. StateFresh'
  <2>1. Promised' \subseteq Promised
    BY <1>1, <1>2 DEF Promised, Delivered
  <2> QED
    BY <1>0, <1>1, <2>1 DEF StateFresh
<1> QED
  BY <1>3, <1>4, <1>5, <1>6, <1>7, <1>8 DEF UploadInv, TypeOK

-----------------------------------------------------------------------------
(* A new task takes the place of the old one.                              *)

\* The state file names a new task, built from the history up to a position.
Renewed(rev, upto, text) ==
  /\ rev \in Nat /\ rev <= revision /\ upto \in Nat /\ upto <= Len(log) /\ text \subseteq Places
  /\ rev = revision => /\ \A p \in text : ~log[p[1]].gone
                       /\ \A n \in DOMAIN log : log[n].gone => n <= upto
  /\ st' \in StateFile /\ st'.gen = st.gen + 1 /\ st'.rev = rev /\ ~st'.reset /\ st'.chk = st.chk
  /\ st'.delivery = upto /\ st'.projection = upto /\ st'.pending = <<>> /\ st'.bind = Unbound
  /\ st'.drafts = NoDrafts /\ st'.journal = NoPiece
  /\ shown' = text /\ injected' = <<>> /\ carried' = st.chk

LEMMA ImportedIs ==
    ASSUME Typed, NEW rev \in Nat, NEW upto \in Nat
    PROVE  LET s == Imported(st, rev, upto)
           IN  /\ s \in StateFile /\ s.gen = st.gen + 1 /\ s.rev = rev /\ ~s.reset /\ s.chk = st.chk
               /\ s.delivery = upto /\ s.projection = upto /\ s.pending = <<>> /\ s.bind = Unbound
               /\ s.drafts = NoDrafts /\ s.journal = NoPiece
<1>1. NoPiece \in Piece /\ NoDraft \in Draft /\ NoDrafts \in [Turns -> Draft]
      /\ Unbound \in [Turns -> {"none", "pending", "unknown", "acked"}] /\ <<>> \in Seq(Entry)
  BY DEF NoPiece, Piece, NoDraft, Draft, NoDrafts, Unbound
<1>2. st \in StateFile
  BY DEF Typed
<1> DEFINE s == Imported(st, rev, upto)
<1>3. /\ s.gen = st.gen + 1 /\ s.rev = rev /\ s.reset = FALSE /\ s.listed = st.listed
      /\ s.auto = st.auto /\ s.delivery = upto /\ s.chk = st.chk /\ s.projection = upto
      /\ s.journal = NoPiece /\ s.drafts = NoDrafts /\ s.pending = <<>> /\ s.bind = Unbound
  BY <1>2 DEF Imported, StateFile
<1>4. s \in StateFile
  <2> DEFINE g == st.gen + 1
  <2>1. s = [st EXCEPT !.gen = g, !.rev = rev, !.reset = FALSE, !.delivery = upto,
                       !.projection = upto, !.pending = <<>>, !.bind = Unbound,
                       !.drafts = NoDrafts, !.journal = NoPiece]
    BY DEF Imported
  <2>2. g \in Nat
    BY <1>2 DEF StateFile
  <2> HIDE DEF g, s
  <2> QED
    BY <1>1, <1>2, <2>1, <2>2 DEF StateFile
<1> QED
  BY <1>3, <1>4

LEMMA RenewedStep ==
    ASSUME UploadInv, NEW rev, NEW upto, NEW text, Renewed(rev, upto, text),
           UNCHANGED <<log, revision, commits, writer, task, hook, spool, job, unsure, spent>>,
           conn' \in Conn, op' \in Operation, op'.rev = op.rev, op'.upto = op.upto,
           op'.text = op.text, op'.kind = op.kind, op'.size = op.size,
           \/ op' = op /\ op = NoOp
           \/ op'.step = "work" /\ op.step = "rebuild"
           \/ op'.step = "report" /\ op.kind = "import"
    PROVE  UploadInv'
<1>0. /\ Typed /\ Placed /\ TurnsLive /\ HooksTold /\ OutboxTrue /\ OpShape /\ LogTrue /\ ReadsTrue
      /\ StateFresh /\ OpFresh /\ JobFresh /\ JobTrue /\ ErasedStaysOut /\ CompletedUploadIsDone
  BY DEF UploadInv, TypeOK
<1>1. st.gen \in Nat /\ \A t \in Turns : task[t].gen \in Nat /\ task[t].gen <= st.gen
  BY <1>0 DEF Typed, StateFile, Placed
<1>2. \A t \in Turns : task[t].gen < st'.gen /\ task[t].gen <= st'.gen /\ task[t].gen # st'.gen
  BY <1>1 DEF Renewed
<1>3. Typed'
  <2>1. Places \subseteq Piece
    BY <1>0 DEF Typed, Places, Piece
  <2>2. shown' \subseteq Piece /\ injected' \in Seq(Piece) /\ carried' \in Piece
    <3>1. st.chk \in Piece
      BY <1>0 DEF Typed, StateFile
    <3> QED
      BY <2>1, <3>1 DEF Renewed
  <2> QED
    BY <1>0, <2>2 DEF Typed, Renewed, Conn
<1>4. Placed'
  <2>1. Range(injected') = {}
    BY DEF Renewed, Range
  <2>2. 0 <= Len(log)
    BY <1>0 DEF Typed
  <2>3. \A t \in Turns : NoDrafts[t].pieces = {} /\ NoDrafts[t].through = 0 /\ NoDrafts[t].chk = NoPiece
    BY DEF NoDrafts, NoDraft
  <2>4. Places' = Places
    BY DEF Places
  <2> QED
    BY <1>0, <1>2, <2>1, <2>2, <2>3, <2>4 DEF Placed, Renewed
<1>5. TurnsLive'
  BY <1>0, <1>2 DEF TurnsLive, Renewed, Unbound, NoDrafts
<1>6. HooksTold' /\ LogTrue' /\ ErasedStaysOut' /\ JobFresh' /\ CompletedUploadIsDone'
  BY <1>0, HooksFrame, LogFrame, ErasedFrame, JobFrame, DoneFrame
<1>7. OutboxTrue'
  BY DEF OutboxTrue, Renewed
<1>8. OpShape'
  BY <1>0 DEF OpShape, NoOp
<1>9. ReadsTrue'
  BY <1>0, <1>2 DEF ReadsTrue
<1>10. StateFresh'
  <2>1. Promised' = text
    <3>1. Delivered' = text
      BY DEF Delivered, Renewed, Range
    <3>2. hook.at = "reply" => hook.turn \in Turns
      BY <1>0 DEF HooksTold, NoHook
    <3> QED
      BY <1>2, <3>1, <3>2 DEF Promised
  <2>2. \A t \in Turns : st'.drafts[t].pieces = {}
    BY DEF NoDrafts, NoDraft, Renewed
  <2> QED
    BY <2>1, <2>2 DEF StateFresh, Renewed
<1>11. OpFresh'
  BY <1>0 DEF OpFresh, Building, Working, OpShape, NoOp
<1>12. JobTrue'
  BY <1>0 DEF JobTrue, OpShape, NoOp
<1> QED
  BY <1>3, <1>4, <1>5, <1>6, <1>7, <1>8, <1>9, <1>10, <1>11, <1>12 DEF UploadInv, TypeOK

LEMMA RebuildStep == ASSUME UploadInv, Rebuild PROVE UploadInv'
<1>0. Typed /\ Placed /\ OpFresh /\ op \in Operation
  BY DEF UploadInv, TypeOK, Typed
<1>1. op.rev \in Nat /\ op.upto \in Nat
  BY <1>0 DEF Operation
<1>2. Renewed(op.rev, op.upto, op.text)
  BY <1>0, <1>1, ImportedIs DEF Rebuild, Renewed, Switch, Placed, OpFresh, Building
<1>3. /\ op' \in Operation /\ op'.rev = op.rev /\ op'.upto = op.upto
      /\ op'.text = op.text /\ op'.kind = op.kind /\ op'.size = op.size /\ op'.step = "work" /\ op.step = "rebuild"
  BY <1>0 DEF Rebuild, Operation
<1>4. /\ UNCHANGED <<log, revision, commits, writer, task, hook, spool, job, unsure, spent>>
      /\ conn' \in Conn
  BY <1>0 DEF Rebuild, server, Typed, Conn
<1> QED
  BY <1>2, <1>3, <1>4, RenewedStep

LEMMA ImportStep == ASSUME UploadInv, Import PROVE UploadInv'
<1>0. Typed /\ Placed /\ OpFresh /\ op \in Operation /\ op.kind = "import"
  BY DEF UploadInv, TypeOK, Typed, Import, Working
<1>1. CASE Importable(st) /\ op.rev >= st.rev
  <2>1. op.rev \in Nat /\ op.upto \in Nat
    BY <1>0 DEF Operation
  <2>2. Renewed(op.rev, op.upto, op.text)
    BY <1>0, <1>1, <2>1, ImportedIs DEF Import, Renewed, Switch, Placed, OpFresh, Building
  <2>3. /\ op' \in Operation /\ op'.rev = op.rev /\ op'.upto = op.upto
        /\ op'.text = op.text /\ op'.kind = op.kind /\ op'.size = op.size /\ op'.step = "report" /\ op.kind = "import"
    BY <1>0, <1>1 DEF Import, Operation
  <2>4. /\ UNCHANGED <<log, revision, commits, writer, task, hook, spool, job, unsure, spent>>
        /\ conn' \in Conn
    BY <1>0, <1>1 DEF Import, server, Typed, Conn
  <2> QED
    BY <2>2, <2>3, <2>4, RenewedStep
<1>2. CASE ~(Importable(st) /\ op.rev >= st.rev)
  <2>1. Abandon /\ UNCHANGED <<server, task, unsure, spent, st, native>>
    BY <1>2 DEF Import
  <2>2. /\ UNCHANGED Core /\ UNCHANGED writer /\ unsure' \subseteq Turns /\ spent' \in Free
    BY <1>0, <2>1 DEF Core, server, native, Typed, Free
  <2> QED
    BY <1>0, <2>1, <2>2, AbandonStep
<1> QED
  BY <1>1, <1>2

\* Consent given or taken back, and a task listed again.
LEMMA FlagStep ==
    ASSUME UploadInv, NEW l \in BOOLEAN, NEW b \in BOOLEAN,
           st' = [st EXCEPT !.listed = l, !.auto = b], spent' \in Free, conn' \in Conn,
           UNCHANGED <<log, revision, commits, writer, job, task, native, hook, spool, op, unsure>>
    PROVE  UploadInv'
<1>0. /\ Typed /\ Placed /\ TurnsLive /\ HooksTold /\ OutboxTrue /\ OpShape /\ LogTrue /\ ReadsTrue
      /\ StateFresh /\ OpFresh /\ JobFresh /\ JobTrue /\ ErasedStaysOut /\ CompletedUploadIsDone
      /\ UNCHANGED <<shown, injected, carried>> /\ st \in StateFile
  BY DEF UploadInv, TypeOK, native, Typed
<1>1. /\ st' \in StateFile /\ st'.gen = st.gen /\ st'.rev = st.rev /\ st'.reset = st.reset
      /\ st'.delivery = st.delivery /\ st'.chk = st.chk /\ st'.projection = st.projection
      /\ st'.journal = st.journal /\ st'.drafts = st.drafts /\ st'.pending = st.pending
      /\ st'.bind = st.bind
  BY <1>0 DEF StateFile
<1>2. Typed'
  BY <1>0, <1>1 DEF Typed, Conn, Free
<1>3. /\ Placed' /\ TurnsLive' /\ HooksTold' /\ OutboxTrue' /\ OpShape' /\ LogTrue' /\ ReadsTrue'
      /\ StateFresh' /\ OpFresh' /\ JobFresh' /\ JobTrue' /\ ErasedStaysOut' /\ CompletedUploadIsDone'
  BY <1>0, <1>1, PlacedFrame, TurnsFrame, HooksFrame, OutboxFrame, OpFrame, LogFrame, ReadsFrame,
     FreshFrame, BuildFrame, JobFrame, DueFrame, ErasedFrame, DoneFrame
<1> QED
  BY <1>2, <1>3 DEF UploadInv, TypeOK

LEMMA SetAutoStep == ASSUME UploadInv, NEW b \in BOOLEAN, SetAuto(b) PROVE UploadInv'
<1>0. Typed /\ st \in StateFile /\ spent' \in Free /\ conn' \in Conn
  BY Spends DEF UploadInv, TypeOK, Typed, SetAuto, Conn
<1>1. st' = [st EXCEPT !.listed = st.listed, !.auto = b] /\ st.listed \in BOOLEAN
  BY <1>0 DEF SetAuto, StateFile
<1> QED
  BY <1>0, <1>1, FlagStep DEF SetAuto, server, native

LEMMA ManageRenews ==
    ASSUME UploadInv, Manage, ~Current, Importable(st)
    PROVE  Renewed(revision, Len(log), Readable(Len(log)))
<1>0. Typed /\ Placed /\ st \in StateFile
  BY DEF UploadInv, TypeOK, Typed
<1>1. revision \in Nat /\ Len(log) \in Nat /\ revision <= revision /\ Len(log) <= Len(log)
      /\ \A n \in DOMAIN log : n <= Len(log)
  BY <1>0 DEF Typed
<1>2. /\ Readable(Len(log)) \subseteq Places
      /\ \A p \in Readable(Len(log)) : ~log[p[1]].gone
  BY <1>0, <1>1, ReadableIs
<1> DEFINE s == Imported(st, revision, Len(log))
           r == [s EXCEPT !.listed = TRUE]
<1>3. /\ s \in StateFile /\ s.gen = st.gen + 1 /\ s.rev = revision /\ ~s.reset /\ s.chk = st.chk
      /\ s.delivery = Len(log) /\ s.projection = Len(log) /\ s.pending = <<>> /\ s.bind = Unbound
      /\ s.drafts = NoDrafts /\ s.journal = NoPiece
  BY <1>0, <1>1, ImportedIs
<1>4. /\ st' = r /\ shown' = Readable(Len(log)) /\ injected' = <<>> /\ carried' = r.chk
  BY DEF Manage, Switch
<1> HIDE DEF s
<1>5. /\ r \in StateFile /\ r.gen = s.gen /\ r.rev = s.rev /\ r.reset = s.reset /\ r.chk = s.chk
      /\ r.delivery = s.delivery /\ r.projection = s.projection /\ r.pending = s.pending
      /\ r.bind = s.bind /\ r.drafts = s.drafts /\ r.journal = s.journal
  BY <1>3 DEF StateFile
<1> HIDE DEF r
<1> QED
  BY <1>1, <1>2, <1>3, <1>4, <1>5 DEF Renewed

LEMMA ManageStep == ASSUME UploadInv, Manage PROVE UploadInv'
<1>0. Typed /\ Placed /\ st \in StateFile /\ conn' \in Conn
  BY DEF UploadInv, TypeOK, Typed, Manage, Conn
<1>1. CASE ~Current /\ Importable(st)
  <2>1. op' = op /\ op = NoOp /\ op' \in Operation
        /\ UNCHANGED <<log, revision, commits, writer, task, hook, spool, job, unsure, spent>>
    BY <1>0 DEF Manage, server, Typed
  <2> QED
    BY <1>0, <1>1, <2>1, ManageRenews, RenewedStep
<1>2. CASE ~(~Current /\ Importable(st))
  <2>1. st' = [st EXCEPT !.listed = TRUE, !.auto = st.auto] /\ st.auto \in BOOLEAN
    BY <1>0, <1>2 DEF Manage, StateFile
  <2>2. /\ spent' \in Free
        /\ UNCHANGED <<log, revision, commits, writer, job, task, native, hook, spool, op, unsure>>
    BY <1>0, <1>2 DEF Manage, server, Typed, Free
  <2> QED
    BY <1>0, <2>1, <2>2, FlagStep
<1> QED
  BY <1>1, <1>2

-----------------------------------------------------------------------------
(* Capsules, and what a hook's event does to the state file.               *)

\* A set of natural numbers has a least one.
LEMMA LeastNat ==
    ASSUME NEW T \in SUBSET Nat, T # {}
    PROVE  \E m \in T : \A k \in T : m <= k
<1> DEFINE R == {ss \in Nat \X Nat : ss[1] < ss[2]}
<1>1. IsWellFoundedOn(R, Nat)
  BY NatLessThanWellFounded, Zenon DEF OpToRel
<1>2. PICK m \in T : \A k \in T : ~ (<<k, m>> \in R)
  <2> HIDE DEF R
  <2> QED BY <1>1, WFMin, Zenon
<1>3. \A k \in T : ~(k < m)
  BY <1>2
<1> QED
  BY <1>3

\* Some chunk comes first among any.
LEMMA FirstPiece ==
    ASSUME NEW S \in SUBSET Piece, S # {}
    PROVE  \E p \in S : \A q \in S : ~Before(q, p)
<1> DEFINE firsts == {p[1] : p \in S}
<1>1. firsts \in SUBSET Nat /\ firsts # {}
  BY DEF Piece
<1>2. PICK a \in firsts : \A k \in firsts : a <= k
  BY <1>1, LeastNat
<1> DEFINE seconds == {p[2] : p \in {q \in S : q[1] = a}}
<1>3. seconds \in SUBSET Nat /\ seconds # {}
  BY <1>2 DEF Piece
<1>4. PICK b \in seconds : \A k \in seconds : b <= k
  BY <1>3, LeastNat
<1>5. PICK p \in S : p[1] = a /\ p[2] = b
  BY <1>4
<1>6. ASSUME NEW q \in S PROVE ~Before(q, p)
  <2>1. a <= q[1] /\ q[1] \in Nat /\ q[2] \in Nat /\ a \in Nat /\ b \in Nat
    BY <1>2, <1>5 DEF Piece
  <2>2. q[1] = a => b <= q[2]
    BY <1>4
  <2> QED
    BY <1>5, <2>1, <2>2 DEF Before
<1> QED
  BY <1>5, <1>6

LEMMA QueueIs ==
    ASSUME Typed
    PROVE  /\ Queue \subseteq Places /\ Queue \subseteq Piece
           /\ \A p \in Queue : p[1] > st.delivery /\ p[1] \in Nat /\ p[2] \in Chunks(p[1])
<1>1. Len(log) \in Nat /\ DOMAIN log = 1..Len(log) /\ st.delivery \in Nat
  BY DEF Typed, StateFile
<1>2. \A p \in Queue : \E n \in (st.delivery + 1)..Len(log) : p \in {n} \X Chunks(n)
  BY DEF Queue
<1>3. \A n : Chunks(n) \subseteq {1, 2}
  BY DEF Chunks
<1>4. \A p \in Queue : /\ p[1] > st.delivery /\ p[1] \in Nat /\ p[1] \in DOMAIN log
                       /\ p[2] \in Chunks(p[1]) /\ p[2] \in {1, 2} /\ p = <<p[1], p[2]>>
  BY <1>1, <1>2, <1>3
<1>5. Queue \subseteq Places
  BY <1>4 DEF Places
<1>6. Places \subseteq Piece
  BY <1>1 DEF Places, Piece
<1> QED
  BY <1>4, <1>5, <1>6

LEMMA NextIs ==
    ASSUME Typed, Fitting # Queue
    PROVE  /\ NextChunk \in Queue /\ NextChunk \notin Fitting
           /\ \A q \in Queue : Before(q, NextChunk) => q \in Fitting
<1>1. Fitting \subseteq Queue /\ Queue \subseteq Piece
  BY QueueIs DEF Fitting
<1>2. \E p \in Queue \ Fitting : \A q \in Queue \ Fitting : ~Before(q, p)
  BY <1>1, FirstPiece
<1> QED
  BY <1>2 DEF NextChunk

\* A plan for a draft that names only what is behind the delivery cursor.
GoodPlan(d) ==
  /\ d.through \in Nat /\ d.through <= Len(log) /\ d.chk \in Places \cup {NoPiece}
  /\ d.pieces \subseteq Places /\ \A p \in d.pieces : p[1] > st.delivery

LEMMA CapsuleGood == ASSUME Typed PROVE GoodPlan(Capsule) /\ GoodPlan(NoCapsule)
<1>1. Len(log) \in Nat /\ Len(log) <= Len(log) /\ 0 \in Nat /\ 0 <= Len(log)
  BY DEF Typed
<1>2. GoodPlan(NoCapsule)
  BY <1>1 DEF GoodPlan, NoCapsule
<1>3. CASE Fitting = Queue
  <2>1. Capsule = Whole
    BY <1>3 DEF Capsule
  <2> QED
    BY <1>1, <1>2, <2>1, QueueIs DEF GoodPlan, Whole
<1>4. CASE Fitting # Queue
  <2>1. /\ NextChunk \in Queue /\ NextChunk \in Places /\ NextChunk[1] \in Nat
        /\ NextChunk[1] > st.delivery /\ NextChunk[1] <= Len(log) /\ st.delivery \in Nat
    BY <1>1, <1>4, NextIs, QueueIs DEF Places, Typed, StateFile
  <2>2. /\ Capsule.pieces = Fitting /\ Capsule.through = NextChunk[1] - 1
        /\ Capsule.chk \in {NextChunk, NoPiece}
    BY <1>4 DEF Capsule
  <2>3. NextChunk[1] - 1 \in Nat /\ NextChunk[1] - 1 <= Len(log)
    BY <1>1, <2>1
  <2>4. Fitting \subseteq Queue
    BY DEF Fitting
  <2> QED
    BY <1>2, <2>1, <2>2, <2>3, <2>4, QueueIs DEF GoodPlan
<1> QED
  BY <1>3, <1>4

\* What the event does, in the four ways it can.
Ignored == UNCHANGED st
Drafted(t, c) ==
  /\ st.drafts[t] = NoDraft /\ st.bind[t] = "none"
  /\ st'.bind = [st.bind EXCEPT ![t] = "pending"] /\ st'.pending = st.pending
  /\ st'.drafts = [st.drafts EXCEPT ![t] = [rev |-> st.rev, through |-> c.through,
                                            chk |-> c.chk, pieces |-> c.pieces]]
  /\ st'.delivery = st.delivery /\ st'.chk = st.chk
Promoted(t) ==
  /\ st.drafts[t] # NoDraft /\ st'.bind = st.bind
  /\ st'.drafts = [st.drafts EXCEPT ![t] = NoDraft]
  /\ st'.pending = Append(st.pending, [turn |-> t, rev |-> st.rev, tools |-> FALSE])
  /\ \/ st'.delivery = st.delivery /\ st'.chk = st.chk
     \/ /\ st'.delivery = st.drafts[t].through /\ st'.chk = st.drafts[t].chk
        /\ st.delivery <= st.drafts[t].through
Cancelled(t) ==
  /\ st.drafts[t] # NoDraft
  /\ st'.bind = [st.bind EXCEPT ![t] = "none"] /\ st'.pending = st.pending
  /\ st'.drafts = [st.drafts EXCEPT ![t] = NoDraft]
  /\ st'.delivery = st.delivery /\ st'.chk = st.chk
Served(t, name, c) ==
  /\ st' \in StateFile /\ st'.gen = st.gen /\ st'.rev = st.rev /\ st'.reset = st.reset
  /\ st'.listed = st.listed
  /\ st'.projection = st.projection /\ st'.journal = st.journal
  /\ \/ Ignored
     \/ name = "prompt" /\ Drafted(t, c)
     \/ name = "stop" /\ Promoted(t)
     \/ name = "cancel" /\ Cancelled(t)

LEMMA HandledIs ==
    ASSUME UploadInv, NEW t \in Turns, NEW name \in {"prompt", "stop", "cancel"}, NEW c, GoodPlan(c),
           st' = Handled(st, t, name, c)
    PROVE  Served(t, name, c)
<1>0. Typed /\ Placed /\ TurnsLive /\ st \in StateFile
  BY DEF UploadInv, TypeOK, Typed
<1>1. /\ st.drafts \in [Turns -> Draft] /\ st.drafts[t] \in Draft /\ st.rev \in Nat
      /\ st.bind \in [Turns -> {"none", "pending", "unknown", "acked"}]
      /\ st.pending \in Seq(Entry) /\ st.delivery \in Nat /\ NoDraft \in Draft
  BY <1>0 DEF StateFile, NoDraft, Draft, NoPiece, Piece
<1>2. CASE name = "prompt"
  <2>1. st' = PromptHandled(st, t, c)
    BY <1>2 DEF Handled
  <2>2. CASE st.drafts[t] # NoDraft \/ st.bind[t] # "none"
    BY <1>0, <2>1, <2>2 DEF PromptHandled, Served, Ignored
  <2>3. CASE ~(st.drafts[t] # NoDraft \/ st.bind[t] # "none")
    <3> DEFINE d == [rev |-> st.rev, through |-> c.through, chk |-> c.chk, pieces |-> c.pieces]
    <3>1. st' = [st EXCEPT !.bind[t] = "pending", !.drafts[t] = d]
      BY <2>1, <2>3 DEF PromptHandled
    <3>2. d \in Draft
      <4>1. Places \subseteq Piece /\ NoPiece \in Piece
        BY <1>0 DEF Typed, Places, Piece, NoPiece
      <4>2. c.chk \in Piece /\ c.pieces \subseteq Piece /\ c.through \in Nat
        BY <4>1 DEF GoodPlan
      <4> QED
        BY <1>1, <4>2 DEF Draft
    <3> HIDE DEF d
    <3>3. /\ st'.bind = [st.bind EXCEPT ![t] = "pending"] /\ st'.drafts = [st.drafts EXCEPT ![t] = d]
          /\ st'.pending = st.pending /\ st'.delivery = st.delivery /\ st'.chk = st.chk
          /\ st'.gen = st.gen /\ st'.rev = st.rev /\ st'.reset = st.reset /\ st'.listed = st.listed
          /\ st'.projection = st.projection /\ st'.journal = st.journal
      BY <1>0, <3>1 DEF StateFile
    <3>4. /\ [st.bind EXCEPT ![t] = "pending"] \in [Turns -> {"none", "pending", "unknown", "acked"}]
          /\ [st.drafts EXCEPT ![t] = d] \in [Turns -> Draft]
      BY <1>1, <3>2
    <3>5. st' \in StateFile
      <4>1. st' = [st EXCEPT !.bind = [st.bind EXCEPT ![t] = "pending"],
                             !.drafts = [st.drafts EXCEPT ![t] = d]]
        BY <3>1
      <4> QED
        BY <1>0, <3>4, <4>1 DEF StateFile
    <3> QED
      BY <1>2, <2>3, <3>3, <3>5 DEF Served, Drafted, d
  <2> QED
    BY <2>2, <2>3
<1>3. CASE name = "stop"
  <2>1. st' = StopHandled(st, t)
    BY <1>3 DEF Handled
  <2>2. CASE st.drafts[t] = NoDraft
    BY <1>0, <2>1, <2>2 DEF StopHandled, Served, Ignored
  <2>3. CASE st.drafts[t] # NoDraft
    <3> DEFINE d == st.drafts[t]
               e == [turn |-> t, rev |-> st.rev, tools |-> FALSE]
               r == [st EXCEPT !.pending = Append(st.pending, e), !.drafts = [st.drafts EXCEPT ![t] = NoDraft]]
    <3>1. ~Outboxed(st, t) /\ d.rev = st.rev
      BY <1>0, <2>3 DEF TurnsLive
    <3>2. st' = ApplyRelayPlan(r, d)
      BY <2>1, <2>3, <3>1 DEF StopHandled
    <3>3. e \in Entry
      BY <1>1 DEF Entry
    <3> HIDE DEF e
    <3>4. /\ Append(st.pending, e) \in Seq(Entry)
          /\ [st.drafts EXCEPT ![t] = NoDraft] \in [Turns -> Draft]
      BY <1>1, <3>3
    <3>5. /\ r \in StateFile /\ r.bind = st.bind /\ r.drafts = [st.drafts EXCEPT ![t] = NoDraft]
          /\ r.pending = Append(st.pending, e) /\ r.delivery = st.delivery /\ r.chk = st.chk
          /\ r.gen = st.gen /\ r.rev = st.rev /\ r.reset = st.reset /\ r.listed = st.listed
          /\ r.projection = st.projection /\ r.journal = st.journal
      BY <1>0, <3>4 DEF StateFile
    <3> HIDE DEF r
    <3>6. \/ st' = r
          \/ st' = [r EXCEPT !.delivery = d.through, !.chk = d.chk] /\ ~(d.through < r.delivery)
      BY <3>2 DEF ApplyRelayPlan
    <3>7. /\ st' \in StateFile /\ st'.bind = st.bind /\ st'.drafts = [st.drafts EXCEPT ![t] = NoDraft]
          /\ st'.pending = Append(st.pending, e)
          /\ st'.gen = st.gen /\ st'.rev = st.rev /\ st'.reset = st.reset /\ st'.listed = st.listed
          /\ st'.projection = st.projection /\ st'.journal = st.journal
          /\ \/ st'.delivery = st.delivery /\ st'.chk = st.chk
             \/ /\ st'.delivery = d.through /\ st'.chk = d.chk /\ st.delivery <= d.through
      <4>1. d \in Draft
        BY <1>1
      <4>2. d.through \in Nat /\ d.chk \in Piece
        BY <4>1 DEF Draft
      <4> HIDE DEF d
      <4>3. CASE st' = r
        BY <3>5, <4>3
      <4>4. CASE st' = [r EXCEPT !.delivery = d.through, !.chk = d.chk] /\ ~(d.through < r.delivery)
        <5>1. st.delivery <= d.through
          BY <1>1, <3>5, <4>2, <4>4
        <5>2. /\ st' \in StateFile /\ st'.delivery = d.through /\ st'.chk = d.chk
              /\ st'.bind = r.bind /\ st'.drafts = r.drafts /\ st'.pending = r.pending
              /\ st'.gen = r.gen /\ st'.rev = r.rev /\ st'.reset = r.reset /\ st'.listed = r.listed
              /\ st'.projection = r.projection /\ st'.journal = r.journal
          BY <3>5, <4>2, <4>4 DEF StateFile
        <5> QED
          BY <3>5, <5>1, <5>2
      <4> QED
        BY <3>6, <4>3, <4>4
    <3> QED
      BY <1>3, <2>3, <3>7 DEF Served, Promoted, e
  <2> QED
    BY <2>2, <2>3
<1>4. CASE name = "cancel"
  <2>1. st' = CancelHandled(st, t)
    BY <1>4 DEF Handled
  <2>2. CASE st.drafts[t] = NoDraft
    BY <1>0, <2>1, <2>2 DEF CancelHandled, Served, Ignored
  <2>3. CASE st.drafts[t] # NoDraft
    <3>1. /\ [st.bind EXCEPT ![t] = "none"] \in [Turns -> {"none", "pending", "unknown", "acked"}]
          /\ [st.drafts EXCEPT ![t] = NoDraft] \in [Turns -> Draft]
      BY <1>1
    <3>2. st' = [st EXCEPT !.drafts = [st.drafts EXCEPT ![t] = NoDraft],
                           !.bind = [st.bind EXCEPT ![t] = "none"]]
      BY <2>1, <2>3 DEF CancelHandled
    <3>3. /\ st' \in StateFile /\ st'.bind = [st.bind EXCEPT ![t] = "none"]
          /\ st'.drafts = [st.drafts EXCEPT ![t] = NoDraft]
          /\ st'.pending = st.pending /\ st'.delivery = st.delivery /\ st'.chk = st.chk
          /\ st'.gen = st.gen /\ st'.rev = st.rev /\ st'.reset = st.reset /\ st'.listed = st.listed
          /\ st'.projection = st.projection /\ st'.journal = st.journal
      BY <1>0, <3>1, <3>2 DEF StateFile
    <3> QED
      BY <1>4, <2>3, <3>3 DEF Served, Cancelled
  <2> QED
    BY <2>2, <2>3
<1> QED
  BY <1>2, <1>3, <1>4


LEMMA ServedClauses ==
    ASSUME UploadInv, NEW t \in Turns, NEW name, NEW c, GoodPlan(c), Served(t, name, c),
           Told(name, t), task[t].gen = st.gen, UNCHANGED <<log, revision, commits, task>>
    PROVE  /\ TurnsLive' /\ OutboxTrue' /\ ReadsTrue'
           /\ st.delivery <= st'.delivery /\ st'.delivery <= Len(log)
           /\ st'.chk \in Places \cup {NoPiece}
           /\ \A u \in Turns : /\ st'.drafts[u].through <= Len(log)
                               /\ st'.drafts[u].pieces \subseteq Places
                               /\ st'.drafts[u].chk \in Places \cup {NoPiece}
                               /\ st.rev = revision =>
                                    \A p \in st'.drafts[u].pieces : ~log[p[1]].gone
<1>0. /\ Typed /\ Placed /\ TurnsLive /\ OutboxTrue /\ ReadsTrue /\ StateFresh
  BY DEF UploadInv, TypeOK
<1>1. /\ st \in StateFile /\ st.drafts \in [Turns -> Draft] /\ st.rev \in Nat /\ st.delivery \in Nat
      /\ st.bind \in [Turns -> {"none", "pending", "unknown", "acked"}]
      /\ st.pending \in Seq(Entry) /\ Len(log) \in Nat
  BY <1>0 DEF StateFile, Typed
<1>2. ReadsTrue'
  BY <1>0, ReadsFrame DEF Served
<1>n. NoDraft.pieces = {} /\ NoDraft.chk = NoPiece /\ NoDraft.through = 0 /\ 0 <= Len(log)
  BY <1>1 DEF NoDraft
<1>3. st.rev = revision => \A n \in DOMAIN log : n > st.delivery => ~log[n].gone
  BY <1>0, <1>1 DEF StateFresh, Typed
<1>4. CASE Ignored
  <2>1. TurnsLive' /\ OutboxTrue'
    BY <1>0, <1>4, TurnsFrame, OutboxFrame DEF Ignored
  <2> QED
    BY <1>0, <1>1, <1>2, <1>4, <2>1 DEF Ignored, Placed, StateFresh
<1>5. CASE name = "prompt" /\ Drafted(t, c)
  <2> DEFINE d == [rev |-> st.rev, through |-> c.through, chk |-> c.chk, pieces |-> c.pieces]
  <2>1. /\ st.drafts[t] = NoDraft /\ st.bind[t] = "none" /\ st'.pending = st.pending
        /\ st'.bind[t] = "pending" /\ st'.drafts[t] = d
        /\ \A u \in Turns : u # t => st'.bind[u] = st.bind[u] /\ st'.drafts[u] = st.drafts[u]
        /\ st'.delivery = st.delivery /\ st'.chk = st.chk /\ st'.gen = st.gen /\ st'.rev = st.rev
    BY <1>1, <1>5 DEF Drafted, Served
  <2>2. \A i \in DOMAIN st.pending : st.pending[i].turn \in Turns /\ st.pending[i].turn # t
    BY <1>0, <2>1, EntriesAre DEF OutboxTrue
  <2>3. /\ d.rev = st.rev /\ d.through = c.through /\ d.chk = c.chk /\ d.pieces = c.pieces
    OBVIOUS
  <2> HIDE DEF d
  <2>4. TurnsLive'
    BY <1>0, <2>1, <2>2, <2>3 DEF TurnsLive, Outboxed
  <2>5. OutboxTrue'
    BY <1>0, <2>1, <2>2 DEF OutboxTrue
  <2>6. \A p \in c.pieces : p[1] \in DOMAIN log /\ p[1] > st.delivery
    BY DEF GoodPlan, Places
  <2>7. \A u \in Turns : /\ st'.drafts[u].through <= Len(log)
                         /\ st'.drafts[u].pieces \subseteq Places
                         /\ st'.drafts[u].chk \in Places \cup {NoPiece}
                         /\ st.rev = revision => \A p \in st'.drafts[u].pieces : ~log[p[1]].gone
    <3> SUFFICES ASSUME NEW u \in Turns
                 PROVE  /\ st'.drafts[u].through <= Len(log)
                        /\ st'.drafts[u].pieces \subseteq Places
                        /\ st'.drafts[u].chk \in Places \cup {NoPiece}
                        /\ st.rev = revision => \A p \in st'.drafts[u].pieces : ~log[p[1]].gone
      OBVIOUS
    <3>1. CASE u = t
      BY <1>3, <2>1, <2>3, <2>6, <3>1 DEF GoodPlan
    <3>2. CASE u # t
      BY <1>0, <2>1, <3>2 DEF Placed, StateFresh
    <3> QED
      BY <3>1, <3>2
  <2> QED
    BY <1>0, <1>1, <1>2, <2>1, <2>4, <2>5, <2>7 DEF Placed
<1>6. CASE name = "stop" /\ Promoted(t)
  <2> DEFINE e == [turn |-> t, rev |-> st.rev, tools |-> FALSE]
  <2>1. /\ st.drafts[t] # NoDraft /\ st.bind[t] = "pending" /\ ~Outboxed(st, t)
        /\ st'.pending = Append(st.pending, e) /\ st'.bind = st.bind /\ st'.drafts[t] = NoDraft
        /\ \A u \in Turns : u # t => st'.drafts[u] = st.drafts[u]
        /\ st'.gen = st.gen /\ st'.rev = st.rev
    BY <1>0, <1>1, <1>6 DEF Promoted, Served, TurnsLive
  <2>2. e \in Entry /\ e.turn = t /\ e.rev = st.rev
    BY <1>1 DEF Entry
  <2> HIDE DEF e
  <2>3. /\ DOMAIN st'.pending = 1..(Len(st.pending) + 1) /\ st'.pending[Len(st.pending) + 1] = e
        /\ DOMAIN st.pending = 1..Len(st.pending) /\ Len(st.pending) \in Nat
        /\ \A i \in DOMAIN st.pending : st'.pending[i] = st.pending[i]
    BY <1>1, <2>1, <2>2
  <2>4. \A i \in DOMAIN st'.pending : /\ st'.pending[i].turn \in Turns
                                      /\ i \in DOMAIN st.pending \/ i = Len(st.pending) + 1
                                      /\ i = Len(st.pending) + 1 => st'.pending[i].turn = t
    BY <1>0, <2>2, <2>3, EntriesAre
  <2>5. \A i \in DOMAIN st.pending : st.pending[i].turn # t
    BY <2>1 DEF Outboxed
  <2>6. TurnsLive'
    <3> SUFFICES ASSUME NEW u \in Turns, st'.drafts[u] # NoDraft
                 PROVE  st'.bind[u] = "pending" /\ ~Outboxed(st', u) /\ st'.drafts[u].rev = st'.rev
      BY <1>0, <2>1 DEF TurnsLive
    <3>1. u # t
      BY <2>1
    <3> QED
      BY <1>0, <2>1, <2>3, <2>4, <3>1 DEF TurnsLive, Outboxed
  <2>7. OutboxTrue'
    <3>1. task[t].status = "completed"
      BY <1>6 DEF Told
    <3>2. \A i \in DOMAIN st'.pending :
             /\ st'.bind[st'.pending[i].turn] \in {"pending", "unknown"}
             /\ st'.bind[st'.pending[i].turn] = "unknown" => i = 1
             /\ task[st'.pending[i].turn].status = "completed" /\ st'.pending[i].rev = st'.rev
      BY <1>0, <2>1, <2>2, <2>3, <2>4, <3>1 DEF OutboxTrue
    <3>3. \A i, j \in DOMAIN st'.pending : st'.pending[i].turn = st'.pending[j].turn => i = j
      BY <1>0, <2>3, <2>4, <2>5 DEF OutboxTrue
    <3> QED
      BY <3>2, <3>3 DEF OutboxTrue
  <2>8. /\ st.delivery <= st'.delivery /\ st'.delivery <= Len(log)
        /\ st'.chk \in Places \cup {NoPiece}
    BY <1>0, <1>1, <1>6 DEF Promoted, Placed
  <2>9. \A u \in Turns : /\ st'.drafts[u].through <= Len(log)
                         /\ st'.drafts[u].pieces \subseteq Places
                         /\ st'.drafts[u].chk \in Places \cup {NoPiece}
                         /\ st.rev = revision => \A p \in st'.drafts[u].pieces : ~log[p[1]].gone
    BY <1>0, <1>n, <2>1 DEF Placed, StateFresh
  <2> QED
    BY <1>2, <2>6, <2>7, <2>8, <2>9
<1>7. CASE name = "cancel" /\ Cancelled(t)
  <2>1. /\ st.drafts[t] # NoDraft /\ ~Outboxed(st, t) /\ st'.pending = st.pending
        /\ st'.bind[t] = "none" /\ st'.drafts[t] = NoDraft
        /\ \A u \in Turns : u # t => st'.bind[u] = st.bind[u] /\ st'.drafts[u] = st.drafts[u]
        /\ st'.delivery = st.delivery /\ st'.chk = st.chk /\ st'.gen = st.gen /\ st'.rev = st.rev
    BY <1>0, <1>1, <1>7 DEF Cancelled, Served, TurnsLive
  <2>2. \A i \in DOMAIN st.pending : st.pending[i].turn \in Turns /\ st.pending[i].turn # t
    BY <1>0, <2>1, EntriesAre DEF Outboxed
  <2>3. TurnsLive'
    BY <1>0, <2>1 DEF TurnsLive, Outboxed
  <2>4. OutboxTrue'
    BY <1>0, <2>1, <2>2 DEF OutboxTrue
  <2>5. \A u \in Turns : /\ st'.drafts[u].through <= Len(log)
                         /\ st'.drafts[u].pieces \subseteq Places
                         /\ st'.drafts[u].chk \in Places \cup {NoPiece}
                         /\ st.rev = revision => \A p \in st'.drafts[u].pieces : ~log[p[1]].gone
    BY <1>0, <1>n, <2>1 DEF Placed, StateFresh
  <2> QED
    BY <1>0, <1>1, <1>2, <2>1, <2>3, <2>4, <2>5 DEF Placed
<1> QED
  BY <1>4, <1>5, <1>6, <1>7 DEF Served

\* The event of a hook, served from its request or from the spool.
LEMMA ServedStep ==
    ASSUME UploadInv, NEW t \in Turns, NEW name, NEW c, GoodPlan(c), Served(t, name, c),
           Told(name, t), task[t].gen = st.gen, op.kind \in {"hook", "drain"},
           UNCHANGED <<server, job, task, native, spool, conn, unsure, spent>>,
           hook' \in {hook, NoHook, [hook EXCEPT !.at = "reply", !.pieces = st'.drafts[t].pieces]},
           hook' # hook => hook # NoHook,
           hook' \notin {hook, NoHook} => hook.name = "prompt",
           op' \in {NoOp, [op EXCEPT !.done = @ + 1]},
           op' # NoOp => Working("drain")
    PROVE  UploadInv'
<1>0. /\ Typed /\ Placed /\ HooksTold /\ OpShape /\ LogTrue /\ StateFresh
      /\ OpFresh /\ JobFresh /\ JobTrue /\ ErasedStaysOut /\ CompletedUploadIsDone
      /\ op \in Operation /\ hook \in Hooks
  BY DEF UploadInv, TypeOK, Typed, Hooks
<1>1. UNCHANGED <<log, revision, commits, writer, task, shown, injected, carried>>
  BY DEF server, native
<1>2. /\ TurnsLive' /\ OutboxTrue' /\ ReadsTrue'
      /\ st.delivery <= st'.delivery /\ st'.delivery <= Len(log)
      /\ st'.chk \in Places \cup {NoPiece}
      /\ \A u \in Turns : /\ st'.drafts[u].through <= Len(log)
                          /\ st'.drafts[u].pieces \subseteq Places
                          /\ st'.drafts[u].chk \in Places \cup {NoPiece}
                          /\ st.rev = revision =>
                               \A p \in st'.drafts[u].pieces : ~log[p[1]].gone
  BY <1>1, ServedClauses
<1>3. /\ st' \in StateFile /\ st'.gen = st.gen /\ st'.rev = st.rev /\ st'.reset = st.reset
      /\ st'.projection = st.projection /\ st'.journal = st.journal
  BY DEF Served
<1>4. /\ op' \in Operation /\ op'.rev <= revision /\ op'.upto <= Len(log) /\ op'.text \subseteq Places
      /\ op' = NoOp \/ (/\ op'.kind = "drain" /\ op'.step = "work" /\ op'.size = op.size
                         /\ op.kind = "drain")
  <2>1. CASE op' = NoOp
    <3>1. NoOp \in Operation /\ NoOp.rev = 0 /\ NoOp.upto = 0 /\ NoOp.text = {}
      BY DEF NoOp, Operation
    <3>2. 0 <= revision /\ 0 <= Len(log)
      BY <1>0 DEF Typed
    <3> QED
      BY <2>1, <3>1, <3>2
  <2>2. CASE op' # NoOp
    <3>1. op' = [op EXCEPT !.done = op.done + 1] /\ op.done + 1 \in Nat
      BY <1>0, <2>2 DEF Operation
    <3>2. /\ op' \in Operation /\ op'.rev = op.rev /\ op'.upto = op.upto /\ op'.text = op.text
          /\ op'.kind = op.kind /\ op'.step = op.step /\ op'.size = op.size
      BY <1>0, <3>1 DEF Operation
    <3> QED
      BY <1>0, <2>2, <3>2 DEF Placed, Working
  <2> QED
    BY <2>1, <2>2
<1>5. /\ hook' \in Hooks /\ hook'.pieces \subseteq Places
      /\ hook'.at = "reply" =>
           \/ hook' = hook
           \/ hook'.pieces = st'.drafts[t].pieces
      /\ \/ hook' = hook \/ hook' = NoHook
         \/ /\ hook # NoHook /\ hook'.at = "reply" /\ hook'.turn = hook.turn /\ hook'.name = hook.name
            /\ hook.name = "prompt"
  <2>a. Places \subseteq Piece
    <3>1. log \in Seq(Event)
      BY <1>0 DEF Typed, Event
    <3> QED
      BY <3>1 DEF Places, Piece
  <2>b. st'.drafts[t].pieces \subseteq Places
    BY Zenon, <1>2
  <2>0. Places \subseteq Piece /\ st'.drafts[t].pieces \subseteq Places
    BY Zenon, <2>a, <2>b
  <2>1. CASE hook' = hook
    BY <1>0, <2>1 DEF Placed
  <2>2. CASE hook' = NoHook
    BY <2>2 DEF NoHook, Hooks
  <2>3. CASE hook' \notin {hook, NoHook}
    <3> DEFINE ps == st'.drafts[t].pieces
    <3>1. hook' = [hook EXCEPT !.at = "reply", !.pieces = ps] /\ ps \subseteq Places /\ ps \subseteq Piece
      BY <2>0, <2>3
    <3> HIDE DEF ps
    <3>2. hook' \in Hooks /\ hook'.pieces = ps /\ hook'.at = "reply" /\ hook'.turn = hook.turn
          /\ hook'.name = hook.name
      BY <1>0, <3>1 DEF Hooks
    <3> QED
      BY <2>3, <3>1, <3>2 DEF ps
  <2> QED
    BY <2>1, <2>2, <2>3
<1>6. Typed'
  BY <1>0, <1>1, <1>3, <1>4, <1>5 DEF Typed, Hooks, Conn
<1>7. Placed'
  BY <1>0, <1>1, <1>2, <1>3, <1>4, <1>5 DEF Placed, Places
<1>8. HooksTold'
  <2>1. CASE hook' = hook
    BY <1>0, <1>1, <2>1, HooksFrame
  <2>2. CASE hook' = NoHook
    BY <1>0, <2>2 DEF HooksTold, Told, NoHook
  <2>3. CASE hook' # hook /\ hook' # NoHook
    BY <1>0, <1>5, <2>3 DEF HooksTold, Told, NoHook
  <2> QED
    BY <2>1, <2>2, <2>3
<1>9. OpShape'
  <2>1. op.kind = "drain" => op.size <= Len(spool')
    BY <1>0 DEF OpShape
  <2> QED
    BY <1>4, <2>1 DEF OpShape, NoOp
<1>10. LogTrue' /\ JobFresh' /\ ErasedStaysOut' /\ CompletedUploadIsDone'
  BY <1>0, <1>1, LogFrame, JobFrame, ErasedFrame, DoneFrame
<1>11. OpFresh'
  BY <1>4 DEF OpFresh, Building, Working, NoOp
<1>12. JobTrue'
  BY <1>0, <1>4 DEF JobTrue, NoOp
<1>13. StateFresh'
  <2>1. st.rev = revision => \A p \in Promised' : ~log[p[1]].gone
    <3> SUFFICES ASSUME st.rev = revision, NEW p \in Promised' PROVE ~log[p[1]].gone
      OBVIOUS
    <3>1. CASE p \in Delivered
      BY <1>0, <3>1 DEF StateFresh, Promised
    <3>2. CASE p \notin Delivered
      <4>1. hook'.at = "reply" /\ task[hook'.turn].gen = st.gen /\ p \in hook'.pieces
        BY <1>1, <1>3, <3>2 DEF Promised, Delivered
      <4>2. CASE hook' = hook
        BY <1>0, <4>1, <4>2 DEF StateFresh, Promised
      <4>3. CASE hook'.pieces = st'.drafts[t].pieces
        BY <1>2, <4>1, <4>3
      <4> QED
        BY <1>5, <4>1, <4>2, <4>3
    <3> QED
      BY <3>1, <3>2
  <2>2. st.rev = revision => \A n \in DOMAIN log : log[n].gone => n <= st'.delivery
    <3>1. DOMAIN log \subseteq Nat /\ st.delivery \in Nat /\ st'.delivery \in Nat
      <4>1. log \in Seq(Event) /\ st \in StateFile
        BY <1>0 DEF Typed, Event
      <4>2. DOMAIN log \subseteq Nat
        BY <4>1
      <4> QED
        BY <1>3, <4>1, <4>2 DEF StateFile
    <3>2. st.delivery <= st'.delivery
      BY <1>2
    <3>3. st.rev = revision => \A n \in DOMAIN log : log[n].gone => n <= st.delivery
      BY <1>0 DEF StateFresh
    <3> QED
      BY <3>1, <3>2, <3>3
  <2> QED
    BY <1>0, <1>1, <1>2, <1>3, <2>1, <2>2 DEF StateFresh
<1> QED
  BY <1>2, <1>6, <1>7, <1>8, <1>9, <1>10, <1>11, <1>12, <1>13 DEF UploadInv, TypeOK

LEMMA HookWorkStep == ASSUME UploadInv, HookWork PROVE UploadInv'
<1>0. Typed /\ HooksTold /\ OpShape /\ op.kind = "hook"
  BY DEF UploadInv, TypeOK, HookWork, Working
<1>1. hook # NoHook /\ hook.turn \in Turns /\ hook.name \in {"prompt", "stop", "cancel"}
      /\ Told(hook.name, hook.turn)
  BY <1>0 DEF OpShape, HooksTold, NoHook, Typed
<1>2. CASE task[hook.turn].gen # st.gen
  <2>1. Abandon /\ UNCHANGED <<server, task, native, unsure, spent, st>>
    BY <1>2 DEF HookWork
  <2>2. UNCHANGED Core /\ UNCHANGED writer /\ unsure' \subseteq Turns /\ spent' \in Free
    BY <1>0, <2>1 DEF Core, server, native, Typed, Free
  <2> QED
    BY <1>0, <2>1, <2>2, AbandonStep
<1>3. CASE task[hook.turn].gen = st.gen
  <2>1. /\ st' = Handled(st, hook.turn, hook.name, Capsule) /\ op' = NoOp
        /\ hook' = IF hook.name = "prompt"
                   THEN [hook EXCEPT !.at = "reply", !.pieces = st'.drafts[hook.turn].pieces]
                   ELSE NoHook
        /\ UNCHANGED <<server, job, task, native, spool, conn, unsure, spent>>
    BY <1>3 DEF HookWork
  <2>2. GoodPlan(Capsule)
    BY <1>0, CapsuleGood
  <2>3. Served(hook.turn, hook.name, Capsule)
    BY <1>1, <2>1, <2>2, HandledIs
  <2>4. /\ hook' \in {hook, NoHook, [hook EXCEPT !.at = "reply", !.pieces = st'.drafts[hook.turn].pieces]}
        /\ hook' # hook => hook # NoHook
        /\ hook' \notin {hook, NoHook} => hook.name = "prompt"
        /\ op' \in {NoOp, [op EXCEPT !.done = @ + 1]} /\ op' = NoOp
    BY <1>1, <2>1
  <2> QED
    BY <1>0, <1>1, <1>3, <2>1, <2>2, <2>3, <2>4, ServedStep
<1> QED
  BY <1>2, <1>3

LEMMA DrainNextStep == ASSUME UploadInv, DrainNext PROVE UploadInv'
<1>0. Typed /\ Placed /\ HooksTold /\ OpShape /\ op.kind = "drain" /\ op.step = "work" /\ op \in Operation
      /\ op.done < op.size
  BY DEF UploadInv, TypeOK, DrainNext, Working, Typed
<1> DEFINE e == spool[op.done + 1]
           done == [op EXCEPT !.done = @ + 1]
<1>1. op.done + 1 \in DOMAIN spool
  <2>1. op.done \in Nat /\ op.size \in Nat /\ Len(spool) \in Nat /\ DOMAIN spool = 1..Len(spool)
        /\ op.size <= Len(spool)
    BY <1>0 DEF Operation, Typed, OpShape
  <2> QED
    BY <1>0, <2>1
<1>2. e.turn \in Turns /\ e.name \in {"prompt", "stop", "cancel"} /\ Told(e.name, e.turn)
  BY <1>0, <1>1, EntriesAre DEF HooksTold
<1>3. /\ done \in Operation /\ done.rev = op.rev /\ done.upto = op.upto /\ done.text = op.text
      /\ done.kind = "drain" /\ done.step = "work" /\ done.size = op.size
  <2>1. op.done + 1 \in Nat
    BY <1>0 DEF Operation
  <2> QED
    BY <1>0, <2>1 DEF Operation
<1>4. UNCHANGED <<server, task, native, unsure, spent>>
  BY DEF DrainNext
<1>5. UNCHANGED <<log, revision, commits, writer, task, shown, injected, carried>>
      /\ conn \in Conn /\ unsure' \subseteq Turns /\ spent' \in Free
  BY <1>0, <1>4 DEF server, native, Typed, Conn, Free
<1> HIDE DEF e, done
<1>6. CASE ~Allowed(e.turn)
  <2>1. op' = done /\ UNCHANGED <<st, hook, spool, job, conn>>
    BY <1>6 DEF DrainNext, e, done
  <2>2. /\ op' \in Operation /\ op'.rev <= revision /\ op'.upto <= Len(log) /\ op'.text \subseteq Places
        /\ op'.kind = "drain" /\ op'.step = "work" /\ op'.size <= Len(spool)
    BY <1>0, <1>3, <2>1 DEF Placed, OpShape
  <2>3. UNCHANGED Core /\ UNCHANGED <<hook, spool, writer, unsure, spent>>
    BY <1>4, <1>5, <2>1 DEF Core
  <2> QED
    BY <1>5, <2>1, <2>2, <2>3, OpStep
<1>7. CASE Allowed(e.turn) /\ ~(conn.managed /\ Loadable(st))
  <2>1. Abandon /\ UNCHANGED st
    BY <1>7 DEF DrainNext, e, done
  <2>2. UNCHANGED Core /\ UNCHANGED writer
    BY <1>5, <2>1 DEF Core
  <2> QED
    BY <1>0, <1>5, <2>1, <2>2, AbandonStep
<1>8. CASE Allowed(e.turn) /\ conn.managed /\ Loadable(st) /\ ~Current
  <2>1. /\ op' = [op EXCEPT !.step = "rebuild", !.rev = revision,
                            !.upto = Len(log), !.text = Readable(Len(log))]
        /\ st' = Retired(st) /\ UNCHANGED <<hook, spool, job, conn>>
    BY <1>8 DEF DrainNext, e, done
  <2>2. Len(log) \in Nat /\ Len(log) <= Len(log) /\ revision \in Nat
    BY <1>0 DEF Typed
  <2>3. Readable(Len(log)) \subseteq Piece
    <3>1. Readable(Len(log)) \subseteq Places
      BY <1>0, <2>2, ReadableIs
    <3>2. Places \subseteq Piece
      BY <1>0 DEF Typed, Places, Piece
    <3> QED
      BY <3>1, <3>2
  <2>4. /\ op' \in Operation /\ op'.kind = "drain" /\ op'.rev = revision /\ op'.upto = Len(log)
        /\ op'.text = Readable(Len(log)) /\ op'.step = "rebuild" /\ op'.size = op.size
    BY <1>0, <2>1, <2>2, <2>3 DEF Operation
  <2>5. Beginning("drain")
    BY <1>0, <1>8, <2>1, <2>4 DEF Beginning, OpShape
  <2> QED
    BY <1>4, <1>5, <2>1, <2>5, BeginStep
<1>9. CASE Allowed(e.turn) /\ conn.managed /\ Loadable(st) /\ Current
  <2>1. /\ op' = done /\ st' = Handled(st, e.turn, e.name, NoCapsule)
        /\ UNCHANGED <<hook, spool, job, conn>>
    BY <1>9 DEF DrainNext, e, done
  <2>2. GoodPlan(NoCapsule)
    BY <1>0, CapsuleGood
  <2>3. Served(e.turn, e.name, NoCapsule)
    BY <1>2, <2>1, <2>2, HandledIs
  <2>4. task[e.turn].gen = st.gen
    BY <1>9 DEF Allowed
  <2>5. /\ op' \in {NoOp, [op EXCEPT !.done = @ + 1]} /\ Working("drain") /\ hook' = hook
        /\ op.kind \in {"hook", "drain"}
    BY <1>0, <2>1 DEF done, Working
  <2> QED
    BY <1>2, <1>4, <2>1, <2>2, <2>3, <2>4, <2>5, ServedStep
<1> QED
  BY <1>6, <1>7, <1>8, <1>9

-----------------------------------------------------------------------------
(* The outbox.                                                             *)

\* An upload's entries: one for each turn it found.
Found == {[turn |-> t, rev |-> st.rev, tools |-> t \in ToolTurns] : t \in Discovered}

LEMMA FoundIs ==
    ASSUME Typed
    PROVE  /\ SetToSeq(Found) \in Seq(Entry)
           /\ \A i \in DOMAIN SetToSeq(Found) : /\ SetToSeq(Found)[i].turn \in Discovered
                                                /\ SetToSeq(Found)[i].rev = st.rev
           /\ \A i, j \in DOMAIN SetToSeq(Found) :
                SetToSeq(Found)[i].turn = SetToSeq(Found)[j].turn => i = j
<1>1. Discovered \subseteq Turns /\ st.rev \in Nat
  BY DEF Discovered, Typed, StateFile
<1>2. IsFiniteSet(Discovered)
  BY <1>1, FS_Subset, DesktopAssumption
<1> DEFINE entry(t) == [turn |-> t, rev |-> st.rev, tools |-> t \in ToolTurns]
           f == [t \in Discovered |-> entry(t)]
<1>3. \A t \in Discovered : entry(t) \in Found /\ entry(t) \in Entry
                            /\ entry(t).turn = t /\ entry(t).rev = st.rev
  <2> SUFFICES ASSUME NEW t \in Discovered
               PROVE  entry(t) \in Found /\ entry(t) \in Entry /\ entry(t).turn = t /\ entry(t).rev = st.rev
    OBVIOUS
  <2>1. (t \in ToolTurns) \in BOOLEAN
    OBVIOUS
  <2> DEFINE b == t \in ToolTurns
  <2>2. entry(t) \in Found
    BY DEF Found
  <2>3. entry(t) = [turn |-> t, rev |-> st.rev, tools |-> b] /\ b \in BOOLEAN
    BY <2>1, Zenon
  <2> HIDE DEF b, entry
  <2>4. entry(t) \in Entry /\ entry(t).turn = t /\ entry(t).rev = st.rev
    BY <1>1, <2>3 DEF Entry
  <2> QED
    BY <2>2, <2>4
<1>4. \A e \in Found : \E t \in Discovered : e = entry(t)
  BY DEF Found
<1> HIDE DEF entry
<1>5. f \in Surjection(Discovered, Found)
  BY <1>3, <1>4 DEF Surjection
<1>6. IsFiniteSet(Found)
  BY <1>2, <1>5, FS_Surjection
<1>7. Cardinality(Found) \in Nat /\ ExistsBijection(1..Cardinality(Found), Found)
  BY <1>6, FS_CardinalityType
<1>8. \E g \in [1..Cardinality(Found) -> Found] : IsInjective(g)
  BY <1>7 DEF ExistsBijection, Bijection, Injection
<1> DEFINE s == SetToSeq(Found)
<1>9. s \in [1..Cardinality(Found) -> Found] /\ IsInjective(s)
  BY <1>8 DEF SetToSeq
<1> HIDE DEF s
<1>10. \A e \in Found : e \in Entry /\ e.turn \in Discovered /\ e.rev = st.rev
  BY <1>3, <1>4
<1>11. s \in [1..Cardinality(Found) -> Entry] /\ DOMAIN s = 1..Cardinality(Found)
  BY <1>9, <1>10
<1>12. s \in Seq(Entry)
  BY <1>7, <1>11, SeqDef
<1>13. \A i \in DOMAIN s : s[i] \in Found
  BY <1>9
<1>14. \A a, b \in Found : a.turn = b.turn => a = b
  BY <1>3, <1>4
<1>15. \A i, j \in DOMAIN s : s[i].turn = s[j].turn => i = j
  BY <1>9, <1>13, <1>14 DEF IsInjective
<1> QED
  BY <1>10, <1>12, <1>13, <1>15 DEF s

\* A step of the outbox: bindings and entries change, and the operation moves on.
LEMMA OutboxStep ==
    ASSUME UploadInv, st' \in StateFile, TurnsLive', OutboxTrue', JobTrue', OpShape', job' \in Jobs,
           st'.gen = st.gen, st'.rev = st.rev, st'.reset = st.reset, st'.delivery = st.delivery,
           st'.chk = st.chk, st'.projection = st.projection, st'.journal = st.journal,
           st'.drafts = st.drafts, op' \in Operation, op'.rev = op.rev, op'.upto = op.upto,
           op'.text = op.text, op'.kind \in {"sync", "upload"}, op'.step # "rebuild",
           job'.status = job.status, job'.through = job.through,
           job.status = "completed" => job' = job,
           UNCHANGED <<server, task, native, hook, spool, conn, unsure, spent>>
    PROVE  UploadInv'
<1>0. /\ Typed /\ Placed /\ HooksTold /\ LogTrue /\ ReadsTrue /\ StateFresh
      /\ OpFresh /\ JobFresh /\ ErasedStaysOut /\ CompletedUploadIsDone
      /\ UNCHANGED <<log, revision, commits, writer, task, shown, injected, carried>>
  BY DEF UploadInv, TypeOK, server, native
<1>1. Typed'
  BY <1>0 DEF Typed, Jobs
<1>2. Placed'
  BY <1>0 DEF Placed, Places
<1>3. HooksTold' /\ LogTrue' /\ ReadsTrue' /\ StateFresh' /\ ErasedStaysOut'
  BY <1>0, HooksFrame, LogFrame, ReadsFrame, FreshFrame, ErasedFrame
<1>4. OpFresh' /\ JobFresh' /\ CompletedUploadIsDone'
  BY <1>0 DEF OpFresh, Building, Working, JobFresh, CompletedUploadIsDone
<1> QED
  BY <1>1, <1>2, <1>3, <1>4 DEF UploadInv, TypeOK

LEMMA DiscoverStep == ASSUME UploadInv, Discover PROVE UploadInv'
<1>0. /\ Typed /\ TurnsLive /\ OutboxTrue /\ OpShape /\ JobTrue /\ op.kind = "upload" /\ op.step = "work"
      /\ st \in StateFile /\ op \in Operation /\ job \in Jobs
  BY DEF UploadInv, TypeOK, Discover, Working, Typed, Jobs
<1>1. CASE TaskBusy
  <2>1. Abandon /\ UNCHANGED <<server, task, native, unsure, spent, st>>
    BY <1>1 DEF Discover
  <2>2. UNCHANGED Core /\ UNCHANGED writer /\ unsure' \subseteq Turns /\ spent' \in Free
    BY <1>0, <2>1 DEF Core, server, native, Typed, Free
  <2> QED
    BY <1>0, <2>1, <2>2, AbandonStep
<1>2. CASE ~TaskBusy
  <2> DEFINE found == SetToSeq(Found)
             bind == [t \in Turns |-> IF t \in Discovered THEN "pending" ELSE st.bind[t]]
             due == {e.turn : e \in Range(st'.pending)}
  <2>1. /\ st' = [st EXCEPT !.bind = bind, !.pending = st.pending \o found]
        /\ job' = IF job.status = "claimed" THEN [job EXCEPT !.due = due] ELSE job
        /\ op' = [op EXCEPT !.step = "send"]
        /\ UNCHANGED <<server, task, native, hook, spool, conn, unsure, spent>>
    BY <1>2 DEF Discover, Found
  <2>2. /\ found \in Seq(Entry)
        /\ \A i \in DOMAIN found : found[i].turn \in Discovered /\ found[i].rev = st.rev
        /\ \A i, j \in DOMAIN found : found[i].turn = found[j].turn => i = j
    BY <1>0, FoundIs
  <2>3. /\ st.pending \in Seq(Entry)
        /\ st.bind \in [Turns -> {"none", "pending", "unknown", "acked"}]
    BY <1>0 DEF StateFile
  <2> HIDE DEF found
  <2>4. /\ st.pending \o found \in Seq(Entry) /\ bind \in [Turns -> {"none", "pending", "unknown", "acked"}]
    BY <2>2, <2>3
  <2>5. \A t \in Turns : bind[t] = IF t \in Discovered THEN "pending" ELSE st.bind[t]
    OBVIOUS
  <2> HIDE DEF bind
  <2>6. /\ st' \in StateFile /\ st'.bind = bind /\ st'.pending = st.pending \o found
        /\ st'.gen = st.gen /\ st'.rev = st.rev /\ st'.reset = st.reset /\ st'.delivery = st.delivery
        /\ st'.chk = st.chk /\ st'.projection = st.projection /\ st'.journal = st.journal
        /\ st'.drafts = st.drafts
    BY <1>0, <2>1, <2>4 DEF StateFile
  <2>7. /\ op' \in Operation /\ op'.rev = op.rev /\ op'.upto = op.upto /\ op'.text = op.text
        /\ op'.kind = "upload" /\ op'.step = "send"
    BY <1>0, <2>1 DEF Operation
  <2>8. /\ \A i \in DOMAIN st.pending : i \in DOMAIN st'.pending /\ st'.pending[i] = st.pending[i]
        /\ \A i \in DOMAIN st'.pending :
             \/ i \in DOMAIN st.pending
             \/ /\ i - Len(st.pending) \in DOMAIN found /\ i \in Int /\ i \notin DOMAIN st.pending
                /\ st'.pending[i] = found[i - Len(st.pending)]
        /\ Len(st.pending) \in Nat
    BY <2>2, <2>3, <2>6
  <2>9. \A i \in DOMAIN st'.pending :
             \/ i \in DOMAIN st.pending /\ st'.pending[i] = st.pending[i]
             \/ /\ st'.pending[i].turn \in Discovered /\ st'.pending[i].rev = st.rev
                /\ i \notin DOMAIN st.pending
    BY <2>2, <2>8
  <2>10. \A t \in Discovered : /\ t \in Turns /\ task[t].status = "completed" /\ task[t].gen = st.gen
                               /\ st.bind[t] = "none" /\ bind[t] = "pending"
                               /\ \A i \in DOMAIN st.pending : st.pending[i].turn # t
    BY <1>0, <2>5 DEF Discovered, OutboxTrue
  <2>11. TurnsLive'
    <3>1. UNCHANGED <<task, commits>>
      BY <2>1 DEF server
    <3> SUFFICES ASSUME NEW t \in Turns
                 PROVE  /\ bind[t] # "none" => task[t].gen = st.gen
                        /\ st.drafts[t] # NoDraft => bind[t] = "pending" /\ ~Outboxed(st', t)
                        /\ bind[t] = "acked" => commits[t] # NoBody
      BY <1>0, <2>6, <3>1 DEF TurnsLive
    <3>2. CASE t \in Discovered
      BY <1>0, <2>10, <3>2 DEF TurnsLive
    <3>3. CASE t \notin Discovered
      BY <1>0, <2>5, <2>9, <3>3 DEF TurnsLive, Outboxed
    <3> QED
      BY <3>2, <3>3
  <2>12. OutboxTrue'
    <3>1. UNCHANGED task
      BY <2>1
    <3>2. \A i \in DOMAIN st'.pending :
             /\ st'.bind[st'.pending[i].turn] \in {"pending", "unknown"}
             /\ st'.bind[st'.pending[i].turn] = "unknown" => i = 1
             /\ task[st'.pending[i].turn].status = "completed" /\ st'.pending[i].rev = st'.rev
      <4> SUFFICES ASSUME NEW i \in DOMAIN st'.pending
                   PROVE  /\ bind[st'.pending[i].turn] \in {"pending", "unknown"}
                          /\ bind[st'.pending[i].turn] = "unknown" => i = 1
                          /\ task[st'.pending[i].turn].status = "completed"
                          /\ st'.pending[i].rev = st.rev
        BY <2>6
      <4>1. CASE i \in DOMAIN st.pending /\ st'.pending[i] = st.pending[i]
        <5>1. st.pending[i].turn \in Turns /\ st.pending[i].turn \notin Discovered
          BY <1>0, <2>10, <4>1, EntriesAre
        <5> QED
          BY <1>0, <2>5, <4>1, <5>1 DEF OutboxTrue
      <4>2. CASE st'.pending[i].turn \in Discovered /\ st'.pending[i].rev = st.rev
        BY <2>10, <4>2
      <4> QED
        BY <2>9, <4>1, <4>2
    <3>3. \A i, j \in DOMAIN st'.pending : st'.pending[i].turn = st'.pending[j].turn => i = j
      <4> SUFFICES ASSUME NEW i \in DOMAIN st'.pending, NEW j \in DOMAIN st'.pending,
                          st'.pending[i].turn = st'.pending[j].turn
                   PROVE  i = j
        OBVIOUS
      <4>1. CASE i \in DOMAIN st.pending /\ j \in DOMAIN st.pending
        BY <1>0, <2>8, <4>1 DEF OutboxTrue
      <4>2. CASE ~(i \in DOMAIN st.pending <=> j \in DOMAIN st.pending)
        BY <2>9, <2>10, <4>2
      <4>3. CASE i \notin DOMAIN st.pending /\ j \notin DOMAIN st.pending
        <5>1. /\ i \in Int /\ j \in Int /\ i - Len(st.pending) \in DOMAIN found
              /\ j - Len(st.pending) \in DOMAIN found
              /\ st'.pending[i] = found[i - Len(st.pending)]
              /\ st'.pending[j] = found[j - Len(st.pending)]
          BY <2>8, <4>3
        <5>2. i - Len(st.pending) = j - Len(st.pending)
          BY <2>2, <5>1
        <5> QED
          BY <2>8, <5>1, <5>2
      <4> QED
        BY <4>1, <4>2, <4>3
    <3> QED
      BY <3>1, <3>2, <3>3 DEF OutboxTrue
  <2>13. \A t \in due : Outboxed(st', t) /\ t \in Turns
    <3>1. \A i \in DOMAIN st'.pending : st'.pending[i].turn \in Turns
      <4>1. st'.pending \in Seq(Entry)
        BY <2>6 DEF StateFile
      <4>2. \A i \in DOMAIN st'.pending : st'.pending[i] \in Entry
        BY <4>1
      <4> QED
        BY <4>2 DEF Entry
    <3> QED
      BY <3>1 DEF Range, Outboxed
  <2> HIDE DEF due
  <2>14. /\ job' \in Jobs /\ job'.status = job.status /\ job'.through = job.through
         /\ job'.kind = job.kind
         /\ job.status # "claimed" => job' = job
         /\ job.status = "claimed" => job'.due = due
    <3>1. due \subseteq Turns
      BY <2>13
    <3> QED
      BY <1>0, <2>1, <3>1 DEF Jobs
  <2>15. JobTrue'
    <3>1. job'.kind # "upload" => job'.due = {}
      BY <1>0, <2>14 DEF JobTrue
    <3>2. job'.status = "claimed" => \A t \in job'.due : Outboxed(st', t)
      BY <2>13, <2>14
    <3>3. job'.status # "claimed" \/ job'.kind = "upload"
      BY <1>0, <2>14 DEF JobTrue
    <3> QED
      BY <2>7, <3>1, <3>2, <3>3 DEF JobTrue, Outboxed
  <2>16. OpShape'
    BY <2>7 DEF OpShape, NoOp
  <2> QED
    BY <2>1, <2>6, <2>7, <2>11, <2>12, <2>14, <2>15, <2>16, OutboxStep
<1> QED
  BY <1>1, <1>2

LEMMA SendStep == ASSUME UploadInv, Send PROVE UploadInv'
<1>0. /\ Typed /\ TurnsLive /\ OutboxTrue /\ OpShape /\ JobTrue
      /\ st \in StateFile /\ op \in Operation /\ job \in Jobs
      /\ op.kind \in {"sync", "upload"} /\ st.pending # <<>>
      /\ op.kind = "upload" => op.step = "send"
  BY DEF UploadInv, TypeOK, Send, Sending, ToSend, Working, Typed, Jobs
<1> DEFINE t == Head(st.pending).turn
           bind == [st.bind EXCEPT ![t] = "unknown"]
<1>1. /\ t \in Turns /\ 1 \in DOMAIN st.pending /\ st.pending[1].turn = t
      /\ Head(st.pending) = st.pending[1]
  BY <1>0, FirstEntry
<1>2. /\ st' = [st EXCEPT !.bind = bind] /\ op' = [op EXCEPT !.step = "commit"]
      /\ UNCHANGED <<server, job, task, native, hook, spool, conn, unsure, spent>>
  BY DEF Send
<1>p. st.pending \in Seq(Entry)
  BY <1>0 DEF StateFile
<1> HIDE DEF t
<1>3. /\ bind \in [Turns -> {"none", "pending", "unknown", "acked"}] /\ bind[t] = "unknown"
      /\ \A u \in Turns : u # t => bind[u] = st.bind[u]
  BY <1>0, <1>1 DEF StateFile
<1> HIDE DEF bind
<1>4. /\ st' \in StateFile /\ st'.bind = bind /\ st'.pending = st.pending
      /\ st'.gen = st.gen /\ st'.rev = st.rev /\ st'.reset = st.reset /\ st'.delivery = st.delivery
      /\ st'.chk = st.chk /\ st'.projection = st.projection /\ st'.journal = st.journal
      /\ st'.drafts = st.drafts
  BY <1>0, <1>2, <1>3 DEF StateFile
<1>5. /\ op' \in Operation /\ op'.rev = op.rev /\ op'.upto = op.upto /\ op'.text = op.text
      /\ op'.kind = op.kind /\ op'.step = "commit"
  BY <1>0, <1>2 DEF Operation
<1>6. UNCHANGED <<task, commits>>
  BY <1>2 DEF server
<1>7. /\ Outboxed(st, t) /\ st.bind[t] \in {"pending", "unknown"}
  BY <1>0, <1>1 DEF Outboxed, OutboxTrue
<1>8. TurnsLive'
  BY <1>0, <1>3, <1>4, <1>6, <1>7 DEF TurnsLive, Outboxed
<1>9. OutboxTrue'
  <2>1. \A i \in DOMAIN st.pending : /\ st.pending[i].turn \in Turns
                                     /\ st.pending[i].turn = t => i = 1
    BY <1>0, <1>1, EntriesAre DEF OutboxTrue
  <2> QED
    BY <1>0, <1>3, <1>4, <1>6, <2>1 DEF OutboxTrue
<1>10. JobTrue'
  BY <1>0, <1>2, <1>4, <1>5, <1>6 DEF JobTrue, Outboxed
<1>11. OpShape'
  <2>1. Head(st'.pending).turn = t
    BY <1>4 DEF t
  <2> QED
    BY <1>0, <1>3, <1>4, <1>5, <2>1 DEF OpShape, NoOp
<1> QED
  BY <1>0, <1>2, <1>4, <1>5, <1>8, <1>9, <1>10, <1>11, OutboxStep

LEMMA AckStep == ASSUME UploadInv, Ack PROVE UploadInv'
<1>0. /\ Typed /\ TurnsLive /\ OutboxTrue /\ OpShape /\ JobTrue
      /\ st \in StateFile /\ op \in Operation /\ job \in Jobs /\ op.step = "ack"
      /\ op.kind \in {"sync", "upload"} /\ st.pending # <<>>
      /\ commits[Head(st.pending).turn] # NoBody /\ st.bind[Head(st.pending).turn] = "unknown"
  BY DEF UploadInv, TypeOK, Ack, OpShape, Typed, Jobs
<1> DEFINE t == Head(st.pending).turn
           bind == [st.bind EXCEPT ![t] = "acked"]
<1>1. /\ t \in Turns /\ 1 \in DOMAIN st.pending /\ st.pending[1].turn = t
      /\ task[t].gen = st.gen
  BY <1>0, FirstEntry
<1>2. /\ st' = [st EXCEPT !.bind = bind, !.pending = Tail(st.pending)]
      /\ op' = [op EXCEPT !.step = IF op.kind = "sync" THEN "work" ELSE "send"]
      /\ UNCHANGED <<server, job, task, native, hook, spool, conn, unsure, spent>>
  BY DEF Ack
<1>h. commits[t] # NoBody /\ st.bind[t] = "unknown"
  BY <1>0
<1> HIDE DEF t
<1>3. /\ bind \in [Turns -> {"none", "pending", "unknown", "acked"}] /\ bind[t] = "acked"
      /\ \A u \in Turns : u # t => bind[u] = st.bind[u]
  BY <1>0, <1>1 DEF StateFile
<1>p. /\ st.pending \in Seq(Entry) /\ Tail(st.pending) \in Seq(Entry)
      /\ Len(st.pending) \in Nat \ {0} /\ DOMAIN st.pending = 1..Len(st.pending)
      /\ DOMAIN Tail(st.pending) = 1..(Len(st.pending) - 1)
      /\ \A i \in DOMAIN Tail(st.pending) : /\ Tail(st.pending)[i] = st.pending[i + 1]
                                            /\ i + 1 \in DOMAIN st.pending /\ i + 1 # 1 /\ i \in Nat
      /\ \A i \in DOMAIN st.pending : i # 1 => /\ i - 1 \in DOMAIN Tail(st.pending)
                                               /\ Tail(st.pending)[i - 1] = st.pending[i]
  <2>1. st.pending \in Seq(Entry)
    BY <1>0 DEF StateFile
  <2>2. Len(st.pending) \in Nat \ {0} /\ DOMAIN st.pending = 1..Len(st.pending)
    BY <1>0, <2>1
  <2>3. /\ Tail(st.pending) \in Seq(Entry) /\ Len(Tail(st.pending)) = Len(st.pending) - 1
        /\ \A i \in 1..(Len(st.pending) - 1) : Tail(st.pending)[i] = st.pending[i + 1]
    BY <1>0, <2>1, <2>2
  <2>4. DOMAIN Tail(st.pending) = 1..(Len(st.pending) - 1)
    BY <2>3
  <2> QED
    BY <2>1, <2>2, <2>3, <2>4
<1> HIDE DEF bind
<1>4. /\ st' \in StateFile /\ st'.bind = bind /\ st'.pending = Tail(st.pending)
      /\ st'.gen = st.gen /\ st'.rev = st.rev /\ st'.reset = st.reset /\ st'.delivery = st.delivery
      /\ st'.chk = st.chk /\ st'.projection = st.projection /\ st'.journal = st.journal
      /\ st'.drafts = st.drafts
  BY <1>0, <1>2, <1>3, <1>p DEF StateFile
<1>5. /\ op' \in Operation /\ op'.rev = op.rev /\ op'.upto = op.upto /\ op'.text = op.text
      /\ op'.kind = op.kind /\ op'.step = IF op.kind = "sync" THEN "work" ELSE "send"
  BY <1>0, <1>2 DEF Operation
<1>6. UNCHANGED <<task, commits>>
  BY <1>2 DEF server
<1>7. \A i \in DOMAIN st'.pending :
         /\ st'.pending[i] = st.pending[i + 1] /\ i + 1 \in DOMAIN st.pending /\ i + 1 # 1 /\ i \in Nat
         /\ st'.pending[i].turn \in Turns /\ st'.pending[i].turn # t
  BY <1>0, <1>1, <1>4, <1>p, EntriesAre DEF OutboxTrue
<1>8. TurnsLive'
  BY <1>0, <1>1, <1>h, <1>3, <1>4, <1>6, <1>7 DEF TurnsLive, Outboxed
<1>9. OutboxTrue'
  <2>1. \A i \in DOMAIN st'.pending :
             /\ st'.bind[st'.pending[i].turn] \in {"pending", "unknown"}
             /\ st'.bind[st'.pending[i].turn] # "unknown"
             /\ task[st'.pending[i].turn].status = "completed" /\ st'.pending[i].rev = st'.rev
    BY <1>0, <1>3, <1>4, <1>7 DEF OutboxTrue
  <2>2. \A i, j \in DOMAIN st'.pending : st'.pending[i].turn = st'.pending[j].turn => i = j
    <3> SUFFICES ASSUME NEW i \in DOMAIN st'.pending, NEW j \in DOMAIN st'.pending,
                        st'.pending[i].turn = st'.pending[j].turn
                 PROVE  i = j
      OBVIOUS
    <3>1. i + 1 = j + 1
      BY <1>0, <1>7 DEF OutboxTrue
    <3> QED
      BY <1>7, <3>1
  <2> QED
    BY <1>6, <2>1, <2>2 DEF OutboxTrue
<1>10. JobTrue'
  <2>1. \A u \in Turns : Outboxed(st, u) => u = t \/ Outboxed(st', u)
    <3> SUFFICES ASSUME NEW u \in Turns, NEW i \in DOMAIN st.pending, st.pending[i].turn = u, u # t
                 PROVE  \E k \in DOMAIN st'.pending : st'.pending[k].turn = u
      BY DEF Outboxed
    <3>1. i # 1
      BY <1>1
    <3> QED
      BY <1>4, <1>p, <3>1
  <2>2. job.due \subseteq Turns
    BY <1>0 DEF Jobs
  <2> QED
    BY <1>0, <1>h, <1>2, <1>4, <1>5, <1>6, <2>1, <2>2 DEF JobTrue
<1>11. OpShape'
  BY <1>0, <1>5 DEF OpShape, NoOp
<1> QED
  BY <1>0, <1>2, <1>4, <1>5, <1>8, <1>9, <1>10, <1>11, OutboxStep

-----------------------------------------------------------------------------
(* Cursors and the journal.                                                *)

Cursors ==
  /\ st' \in StateFile /\ st'.gen = st.gen /\ st'.rev = st.rev /\ st'.reset = st.reset
  /\ st'.drafts = st.drafts /\ st'.bind = st.bind /\ st'.pending = st.pending
  /\ st.delivery <= st'.delivery /\ st'.delivery <= Len(log)
  /\ st.projection <= st'.projection /\ st'.projection <= Len(log)
  /\ st'.chk \in {st.chk, NoPiece} /\ st'.journal \in Places \cup {NoPiece}
  /\ st.rev = revision /\ st'.journal # NoPiece => ~log[st'.journal[1]].gone

Injects ==
  \/ injected' = injected
  \/ injected' = Append(injected, st.journal) /\ st.journal # NoPiece

LEMMA CursorClauses ==
    ASSUME UploadInv, Cursors, UNCHANGED <<log, revision, commits, task, shown>>,
           Injects,
           hook' = hook \/ hook' = NoHook
    PROVE  /\ TurnsLive' /\ OutboxTrue' /\ ReadsTrue' /\ StateFresh'
           /\ injected' \in Seq(Piece) /\ Range(injected') \subseteq Places
<1>0. /\ Typed /\ Placed /\ TurnsLive /\ OutboxTrue /\ ReadsTrue /\ StateFresh
  BY DEF UploadInv, TypeOK
<1>1. TurnsLive' /\ OutboxTrue' /\ ReadsTrue'
  BY <1>0, TurnsFrame, OutboxFrame, ReadsFrame DEF Cursors
<1>2. /\ injected' \in Seq(Piece) /\ Range(injected') \subseteq Places
      /\ \A p \in Range(injected') : p \in Range(injected) \/ (p = st.journal /\ st.journal # NoPiece)
  <2>1. injected \in Seq(Piece) /\ st.journal \in Piece /\ Range(injected) \subseteq Places
        /\ st.journal \in Places \cup {NoPiece}
    BY <1>0 DEF Typed, StateFile, Placed
  <2>2. CASE injected' = injected
    BY <2>1, <2>2
  <2>3. CASE injected' = Append(injected, st.journal) /\ st.journal # NoPiece
    <3> DEFINE j == st.journal
               P == Piece
    <3>1. injected \in Seq(P) /\ j \in P
      BY <2>1
    <3>2. injected' = Append(injected, j)
      BY <2>3
    <3> HIDE DEF P, j
    <3>3. /\ injected' \in Seq(P)
          /\ \A i \in DOMAIN injected' : injected'[i] = j
                                         \/ (i \in DOMAIN injected /\ injected'[i] = injected[i])
      BY <3>1, <3>2
    <3>4. \A p \in Range(injected') : p = j \/ p \in Range(injected)
      BY <3>3 DEF Range
    <3> QED
      BY <2>1, <2>3, <3>3, <3>4 DEF P, j
  <2> QED
    BY <2>2, <2>3 DEF Injects
<1>3. StateFresh'
  <2>1. \A p \in Promised' : p \in Promised \/ (p = st.journal /\ st.journal # NoPiece)
    BY <1>2 DEF Promised, Delivered, NoHook, Cursors
  <2>2. st.rev = revision => \A n \in DOMAIN log : log[n].gone => n <= st'.delivery /\ n <= st'.projection
    <3>1. DOMAIN log \subseteq Nat /\ st.delivery \in Nat /\ st.projection \in Nat
          /\ st'.delivery \in Nat /\ st'.projection \in Nat
      BY <1>0 DEF Typed, StateFile, Cursors
    <3> QED
      BY <1>0, <3>1 DEF StateFresh, Cursors
  <2>3. st.rev = revision => \A p \in Promised' : ~log[p[1]].gone
    BY <1>0, <2>1 DEF StateFresh
  <2> QED
    BY <1>0, <2>2, <2>3 DEF StateFresh, Cursors
<1> QED
  BY <1>1, <1>2, <1>3

\* The operation ends, and has moved the cursors.
LEMMA CursorEnds ==
    ASSUME UploadInv, Cursors, Abandon, op.kind # "none",
           UNCHANGED <<server, task, native, unsure, spent>>
    PROVE  UploadInv'
<1>0. Placed /\ UNCHANGED <<log, revision, commits, writer, task, shown, injected, carried, unsure, spent>>
      /\ st' \in StateFile
  BY DEF UploadInv, TypeOK, server, native, Cursors
<1>1. /\ op' = NoOp /\ HookMoves /\ conn' \in Conn
      /\ job' = job \/ job' = [job EXCEPT !.status = "failed"]
  BY Abandons
<1>2. /\ Typed' /\ HooksTold' /\ OpShape' /\ LogTrue' /\ OpFresh' /\ JobFresh' /\ JobTrue'
      /\ ErasedStaysOut' /\ CompletedUploadIsDone'
      /\ hook'.pieces \subseteq hook.pieces /\ (hook' = hook \/ hook' = NoHook)
      /\ job'.through = job.through
  BY <1>0, <1>1, EndClauses
<1>3. /\ TurnsLive' /\ OutboxTrue' /\ ReadsTrue' /\ StateFresh'
  BY <1>0, <1>2, CursorClauses DEF Injects
<1>4. Placed'
  <2>1. NoOp.rev = 0 /\ NoOp.upto = 0 /\ NoOp.text = {} /\ 0 <= revision /\ 0 <= Len(log)
    BY DEF NoOp, UploadInv, TypeOK, Typed
  <2> QED
    BY <1>0, <1>1, <1>2, <2>1 DEF Placed, Places, Cursors
<1> QED
  BY <1>2, <1>3, <1>4 DEF UploadInv, TypeOK

\* The native projection goes on.
LEMMA CursorStep ==
    ASSUME UploadInv, Cursors, op' \in Operation, op'.kind = "project",
           op'.step \in {"inject", "save"}, op'.step = "save" => st'.journal # NoPiece,
           op'.rev = op.rev, op'.upto = op.upto, op'.text = op.text,
           Injects,
           UNCHANGED <<server, task, shown, carried, hook, spool, job, conn, unsure, spent>>
    PROVE  UploadInv'
<1>0. /\ Typed /\ Placed /\ HooksTold /\ LogTrue /\ JobFresh /\ JobTrue
      /\ ErasedStaysOut /\ CompletedUploadIsDone
      /\ UNCHANGED <<log, revision, commits, writer, task, shown, carried, unsure, spent>>
  BY DEF UploadInv, TypeOK, server
<1>1. /\ TurnsLive' /\ OutboxTrue' /\ ReadsTrue' /\ StateFresh'
      /\ injected' \in Seq(Piece) /\ Range(injected') \subseteq Places
  BY <1>0, CursorClauses
<1>2. Typed'
  BY <1>0, <1>1 DEF Typed, Cursors
<1>3. Placed'
  BY <1>0, <1>1 DEF Placed, Places, Cursors
<1>4. HooksTold' /\ LogTrue' /\ JobFresh' /\ ErasedStaysOut' /\ CompletedUploadIsDone'
  BY <1>0, HooksFrame, LogFrame, JobFrame, ErasedFrame, DoneFrame
<1>5. OpShape' /\ OpFresh' /\ JobTrue'
  BY <1>0 DEF OpShape, NoOp, OpFresh, Building, Working, JobTrue
<1> QED
  BY <1>1, <1>2, <1>3, <1>4, <1>5 DEF UploadInv, TypeOK

LEMMA MovedIs ==
    ASSUME Typed, Placed, StateFresh, NEW n \in Nat, n <= Len(log), NEW j \in {st.journal, NoPiece},
           st' = [MovedTo(st, n) EXCEPT !.journal = j], UNCHANGED <<log, revision>>
    PROVE  /\ Cursors /\ st'.projection = Larger(st.projection, n)
           /\ st'.delivery = Larger(st.delivery, st'.projection) /\ st'.journal = j
<1>1. /\ st \in StateFile /\ st.projection \in Nat /\ st.delivery \in Nat /\ Len(log) \in Nat
      /\ st.projection <= Len(log) /\ st.delivery <= Len(log) /\ NoPiece \in Piece /\ j \in Piece
  <2>1. st \in StateFile /\ Len(log) \in Nat /\ st.projection <= Len(log) /\ st.delivery <= Len(log)
    BY DEF Typed, Placed
  <2>2. NoPiece \in Piece
    BY DEF NoPiece, Piece
  <2>3. st.projection \in Nat /\ st.delivery \in Nat /\ st.journal \in Piece
    BY <2>1 DEF StateFile
  <2> QED
    BY <2>1, <2>2, <2>3
<1> DEFINE a == Larger(st.projection, n)
           b == Larger(st.delivery, a)
           c == IF st.chk[1] <= a THEN NoPiece ELSE st.chk
<1>2. a \in Nat /\ b \in Nat /\ st.projection <= a /\ st.delivery <= b /\ a <= Len(log) /\ b <= Len(log)
  BY <1>1 DEF Larger
<1>3. c \in {st.chk, NoPiece} /\ c \in Piece
  BY <1>1 DEF StateFile
<1>4. st' = [[st EXCEPT !.projection = a, !.delivery = b, !.chk = c] EXCEPT !.journal = j]
  BY DEF MovedTo
<1> HIDE DEF a, b, c
<1>5. /\ st' \in StateFile /\ st'.gen = st.gen /\ st'.rev = st.rev /\ st'.reset = st.reset
      /\ st'.drafts = st.drafts /\ st'.bind = st.bind /\ st'.pending = st.pending
      /\ st'.delivery = b /\ st'.projection = a /\ st'.chk = c /\ st'.journal = j
  BY <1>1, <1>2, <1>3, <1>4 DEF StateFile
<1>6. Cursors
  BY <1>2, <1>3, <1>5 DEF Cursors, Placed, StateFresh
<1> QED
  BY <1>5, <1>6 DEF a, b

LEMMA ProjectStep == ASSUME UploadInv, Project PROVE UploadInv'
<1>0. /\ Typed /\ Placed /\ StateFresh /\ op.kind = "project" /\ op.step = "work" /\ op \in Operation
      /\ st \in StateFile
  BY DEF UploadInv, TypeOK, Project, Working, Typed
<1>1. UNCHANGED <<server, task, native, unsure, spent>>
  BY DEF Project
<1>2. /\ UNCHANGED <<log, revision, commits, writer, task, shown, injected, carried, unsure, spent>>
      /\ unsure' \subseteq Turns /\ spent' \in Free /\ conn \in Conn
  BY <1>0, <1>1 DEF server, native, Typed, Free, Conn
<1>3. CASE revision # st.rev
  <2>1. Abandon /\ st' = Retired(st)
    BY <1>3 DEF Project
  <2>2. /\ op' = NoOp /\ HookMoves /\ conn' \in Conn
        /\ job' = job \/ job' = [job EXCEPT !.status = "failed"]
    BY <1>0, <2>1, Abandons
  <2>3. /\ st' \in StateFile /\ st'.rev = st.rev /\ st'.gen = st.gen
        /\ st'.delivery = st.delivery /\ st'.projection = st.projection
        /\ st'.chk = NoPiece /\ st'.journal = NoPiece /\ st'.drafts = NoDrafts
        /\ TurnsLive' /\ OutboxTrue' /\ ReadsTrue' /\ StateFresh'
    BY <1>2, <1>3, <2>1, RetiredClauses DEF Current
  <2>4. /\ Typed' /\ HooksTold' /\ OpShape' /\ LogTrue' /\ OpFresh' /\ JobFresh' /\ JobTrue'
        /\ ErasedStaysOut' /\ CompletedUploadIsDone'
        /\ hook'.pieces \subseteq hook.pieces /\ job'.through = job.through
    BY <1>2, <2>2, <2>3, EndClauses
  <2>5. Placed'
    <3>1. NoOp.rev = 0 /\ NoOp.upto = 0 /\ NoOp.text = {} /\ 0 <= revision /\ 0 <= Len(log)
      BY <1>0 DEF NoOp, Typed
    <3>2. \A t \in Turns : NoDrafts[t].pieces = {} /\ NoDrafts[t].through = 0 /\ NoDrafts[t].chk = NoPiece
      BY DEF NoDrafts, NoDraft
    <3> QED
      BY <1>0, <1>2, <2>2, <2>3, <2>4, <3>1, <3>2 DEF Placed, Places
  <2> QED
    BY <2>3, <2>4, <2>5 DEF UploadInv, TypeOK
<1>4. CASE revision = st.rev /\ NothingToInject /\ ~JournalAbsent
  <2>1. Abandon /\ st' = MovedTo(st, Len(log))
    BY <1>4 DEF Project, Injectable
  <2>2. MovedTo(st, Len(log)) = [MovedTo(st, Len(log)) EXCEPT !.journal = st.journal]
    BY <1>0 DEF MovedTo, StateFile
  <2>3. Len(log) \in Nat /\ Len(log) <= Len(log)
    BY <1>0 DEF Typed
  <2>4. Cursors
    BY <1>0, <1>2, <2>1, <2>2, <2>3, MovedIs
  <2> QED
    BY <1>0, <1>1, <2>1, <2>4, CursorEnds
<1>5. CASE revision = st.rev /\ ~(NothingToInject /\ ~JournalAbsent) /\ ~Injectable
  <2>1. Abandon /\ UNCHANGED st
    BY <1>5 DEF Project
  <2>2. UNCHANGED Core /\ UNCHANGED writer
    BY <1>2, <2>1 DEF Core
  <2> QED
    BY <1>0, <1>2, <2>1, <2>2, AbandonStep
<1>6. CASE revision = st.rev /\ Injectable
  <2>1. /\ op' = [op EXCEPT !.step = "inject", !.upto = Len(log), !.resumed = st.journal # NoPiece]
        /\ UNCHANGED <<st, hook, spool, job, conn>>
    BY <1>6 DEF Project, Injectable
  <2>2. (st.journal # NoPiece) \in BOOLEAN /\ Len(log) \in Nat /\ Len(log) <= Len(log)
    BY <1>0 DEF Typed
  <2> DEFINE b == st.journal # NoPiece
  <2>3. op' = [op EXCEPT !.step = "inject", !.upto = Len(log), !.resumed = b] /\ b \in BOOLEAN
    BY <2>1, <2>2
  <2> HIDE DEF b
  <2>4. /\ op' \in Operation /\ op'.rev <= revision /\ op'.upto <= Len(log) /\ op'.text \subseteq Places
        /\ op'.kind = "project" /\ op'.step = "inject"
    BY <1>0, <2>2, <2>3 DEF Operation, Placed
  <2>5. UNCHANGED Core /\ UNCHANGED <<hook, spool, writer, unsure, spent>>
    BY <1>2, <2>1 DEF Core
  <2> QED
    BY <1>2, <2>1, <2>4, <2>5, OpStep
<1> QED
  BY <1>3, <1>4, <1>5, <1>6

LEMMA InjectStep == ASSUME UploadInv, Inject PROVE UploadInv'
<1>0. /\ Typed /\ Placed /\ StateFresh /\ OpShape /\ op.kind = "project" /\ op.step = "inject"
      /\ op \in Operation /\ st \in StateFile
  BY DEF UploadInv, TypeOK, Inject, OpShape, Typed
<1> DEFINE n == st.projection + 1
<1>1. UNCHANGED <<server, task, shown, carried, unsure, spent>>
  BY DEF Inject
<1>2. /\ op.upto \in Nat /\ op.upto <= Len(log) /\ Len(log) \in Nat /\ st.projection \in Nat
      /\ st.delivery \in Nat /\ st.projection <= Len(log) /\ st.delivery <= Len(log)
      /\ DOMAIN log = 1..Len(log) /\ UNCHANGED <<log, revision>>
  BY <1>0, <1>1 DEF Operation, Placed, Typed, StateFile, server
<1>3. CASE n > op.upto
  <2>1. Abandon /\ st' = MovedTo(st, op.upto) /\ UNCHANGED injected
    BY <1>2, <1>3 DEF Inject
  <2>2. MovedTo(st, op.upto) = [MovedTo(st, op.upto) EXCEPT !.journal = st.journal]
    BY <1>0 DEF MovedTo, StateFile
  <2>3. Cursors
    BY <1>0, <1>2, <2>1, <2>2, MovedIs
  <2> QED
    BY <1>0, <1>1, <2>1, <2>3, CursorEnds DEF native
<1>4. CASE n <= op.upto /\ Acked(n)
  <2>1. /\ st' = [st EXCEPT !.projection = n, !.delivery = Larger(st.delivery, n)]
        /\ UNCHANGED <<injected, op, hook, spool, job, conn>>
    BY <1>2, <1>4 DEF Inject
  <2> DEFINE b == Larger(st.delivery, n)
  <2>2. n \in Nat /\ b \in Nat /\ st.projection <= n /\ n <= Len(log) /\ st.delivery <= b /\ b <= Len(log)
    BY <1>2, <1>4 DEF Larger
  <2> HIDE DEF n, b
  <2>3. /\ st' \in StateFile /\ st'.gen = st.gen /\ st'.rev = st.rev /\ st'.reset = st.reset
        /\ st'.drafts = st.drafts /\ st'.bind = st.bind /\ st'.pending = st.pending
        /\ st'.delivery = b /\ st'.projection = n /\ st'.chk = st.chk /\ st'.journal = st.journal
    BY <1>0, <2>1, <2>2 DEF StateFile, b
  <2>4. Cursors
    BY <1>0, <2>2, <2>3 DEF Cursors, Placed, StateFresh
  <2> QED
    BY <1>0, <1>1, <2>1, <2>4, CursorStep DEF Injects
<1>5. CASE n <= op.upto /\ ~Acked(n) /\ st.journal = NoPiece
  <2>1. /\ st' = [st EXCEPT !.journal = <<n, 1>>]
        /\ UNCHANGED <<injected, op, hook, spool, job, conn>>
    BY <1>2, <1>5 DEF Inject
  <2>2. n \in Nat /\ n \in DOMAIN log /\ n > st.projection
    BY <1>2, <1>5
  <2>3. <<n, 1>> \in Piece /\ <<n, 1>> \in Places
    BY <2>2 DEF Piece, Places
  <2>4. st.rev = revision => ~log[n].gone
    BY <1>0, <1>2, <2>2 DEF StateFresh
  <2> HIDE DEF n
  <2>5. /\ st' \in StateFile /\ st'.gen = st.gen /\ st'.rev = st.rev /\ st'.reset = st.reset
        /\ st'.drafts = st.drafts /\ st'.bind = st.bind /\ st'.pending = st.pending
        /\ st'.delivery = st.delivery /\ st'.projection = st.projection /\ st'.chk = st.chk
        /\ st'.journal = <<n, 1>>
    BY <1>0, <2>1, <2>3 DEF StateFile
  <2>6. Cursors
    BY <1>2, <2>3, <2>4, <2>5 DEF Cursors
  <2> QED
    BY <1>0, <1>1, <2>1, <2>6, CursorStep DEF Injects
<1>6. CASE n <= op.upto /\ ~Acked(n) /\ st.journal # NoPiece /\ st.journal[1] = n
  <2>1. /\ injected' = injected \/ injected' = Append(injected, st.journal)
        /\ op' = [op EXCEPT !.step = "save"] /\ UNCHANGED <<st, hook, spool, job, conn>>
    BY <1>2, <1>6 DEF Inject
  <2>2. /\ op' \in Operation /\ op'.kind = "project" /\ op'.step = "save" /\ op'.rev = op.rev
        /\ op'.upto = op.upto /\ op'.text = op.text
    BY <1>0, <2>1 DEF Operation
  <2>3. Cursors
    BY <1>0, <1>2, <2>1 DEF Cursors, Placed, StateFresh
  <2> QED
    BY <1>1, <1>6, <2>1, <2>2, <2>3, CursorStep DEF Injects
<1>7. CASE n <= op.upto /\ ~Acked(n) /\ st.journal # NoPiece /\ st.journal[1] # n
  <2>1. Abandon /\ UNCHANGED <<injected, st>>
    BY <1>2, <1>7 DEF Inject
  <2>2. UNCHANGED <<log, revision, commits, writer, task, shown, injected, carried, unsure, spent>>
    BY <1>1, <2>1 DEF server
  <2>3. UNCHANGED Core /\ UNCHANGED writer /\ unsure' \subseteq Turns /\ spent' \in Free
    BY <1>0, <2>1, <2>2 DEF Core, Typed, Free
  <2> QED
    BY <1>0, <2>1, <2>2, <2>3, AbandonStep
<1> QED
  BY <1>2, <1>3, <1>4, <1>5, <1>6, <1>7

LEMMA ChunksAre ==
    ASSUME NEW n
    PROVE  /\ Chunks(n) \in {{1}, {1, 2}} /\ Cardinality(Chunks(n)) \in {1, 2}
           /\ Cardinality(Chunks(n)) = 1 => Chunks(n) = {1}
<1>1. CASE log[n].kind = "long"
  <2>1. Chunks(n) = 1..2 /\ 1..2 = {1, 2}
    BY <1>1 DEF Chunks
  <2>2. Cardinality(1..2) = IF 1 > 2 THEN 0 ELSE 2 - 1 + 1
    <3>1. 1 \in Int /\ 2 \in Int
      OBVIOUS
    <3> QED
      BY <3>1, FS_Interval
  <2> QED
    BY <2>1, <2>2
<1>2. CASE log[n].kind # "long"
  <2>1. Chunks(n) = {1}
    BY <1>2 DEF Chunks
  <2>2. Cardinality({1}) = 1
    BY FS_Singleton
  <2> QED
    BY <2>1, <2>2
<1> QED
  BY <1>1, <1>2

LEMMA SaveStep == ASSUME UploadInv, SaveInjected PROVE UploadInv'
<1>0. /\ Typed /\ Placed /\ StateFresh /\ OpShape /\ op.kind = "project" /\ op.step = "save"
      /\ op \in Operation /\ st \in StateFile /\ st.journal # NoPiece /\ st.journal \in Places
  BY DEF UploadInv, TypeOK, SaveInjected, OpShape, Typed, Placed
<1> DEFINE p == st.journal
<1>1. /\ UNCHANGED <<server, task, native, unsure, spent, hook, spool, job, conn>>
      /\ op' = [op EXCEPT !.step = "inject"]
  BY DEF SaveInjected
<1>2. UNCHANGED <<log, revision, shown, injected, carried>>
  BY <1>1 DEF server, native
<1>3. /\ op' \in Operation /\ op'.kind = "project" /\ op'.step = "inject" /\ op'.rev = op.rev
      /\ op'.upto = op.upto /\ op'.text = op.text
  BY <1>0, <1>1 DEF Operation
<1>4. p[1] \in DOMAIN log /\ p[1] \in Nat /\ p[1] <= Len(log) /\ p[2] \in {1, 2}
  BY <1>0 DEF Places, Typed
<1>5. Cursors
  <2>1. CASE p[2] < Cardinality(Chunks(p[1]))
    <3>1. st' = [st EXCEPT !.journal = <<p[1], p[2] + 1>>]
      BY <2>1 DEF SaveInjected
    <3>2. p[2] + 1 = 2
      BY <1>4, <2>1, ChunksAre
    <3> DEFINE j == <<p[1], p[2] + 1>>
    <3>3. j \in Piece /\ j \in Places /\ j[1] = p[1]
      BY <1>4, <3>2 DEF Piece, Places
    <3> HIDE DEF j
    <3>4. /\ st' \in StateFile /\ st'.gen = st.gen /\ st'.rev = st.rev /\ st'.reset = st.reset
          /\ st'.drafts = st.drafts /\ st'.bind = st.bind /\ st'.pending = st.pending
          /\ st'.delivery = st.delivery /\ st'.projection = st.projection /\ st'.chk = st.chk
          /\ st'.journal = j
      BY <1>0, <3>1, <3>3 DEF StateFile, j
    <3>5. st.delivery <= st.delivery /\ st.projection <= st.projection
      BY <1>0 DEF StateFile
    <3> QED
      BY <1>0, <3>3, <3>4, <3>5 DEF Cursors, Placed, StateFresh
  <2>2. CASE ~(p[2] < Cardinality(Chunks(p[1])))
    <3>1. st' = [MovedTo(st, p[1]) EXCEPT !.journal = NoPiece]
      BY <2>2 DEF SaveInjected
    <3> QED
      BY <1>0, <1>2, <1>4, <3>1, MovedIs
  <2> QED
    BY <2>1, <2>2
<1> QED
  BY <1>1, <1>2, <1>3, <1>5, CursorStep DEF Injects, native

-----------------------------------------------------------------------------
(* The session stops being managed.                                        *)

LEMMA PickedIs ==
    ASSUME NEW q, NEW places, places \subseteq {1}
    PROVE  \/ Picked(q, places) = <<>> /\ places = {}
           \/ Picked(q, places) = <<q[1]>> /\ places = {1}
<1>1. Cardinality({}) = 0 /\ Cardinality({1}) = 1
  BY FS_EmptySet, FS_Singleton
<1>2. CASE places = {}
  <2> DEFINE c(k) == CHOOSE i \in {} : Cardinality({j \in {} : j < i}) = k - 1
  <2>1. Picked(q, places) = [k \in 1..0 |-> q[c(k)]]
    BY <1>1, <1>2 DEF Picked
  <2> HIDE DEF c
  <2> DEFINE f == [k \in 1..0 |-> q[c(k)]]
  <2>5. Picked(q, places) = f
    BY <2>1
  <2>2. f \in Seq({})
    <3>1. f \in [1..0 -> {}]
      OBVIOUS
    <3>2. 0 \in Nat /\ 1..0 = {}
      OBVIOUS
    <3> HIDE DEF f
    <3> QED
      BY <3>1, <3>2, SeqDef
  <2>3. Len(f) = 0
    <3>1. DOMAIN f = 1..0
      OBVIOUS
    <3> HIDE DEF f
    <3> QED
      BY <2>2, <3>1, LenProperties
  <2> HIDE DEF f
  <2>4. f = <<>>
    BY <2>2, <2>3, EmptySeq
  <2> QED
    BY <1>2, <2>5, <2>4, Zenon
<1>3. CASE places = {1}
  <2> DEFINE c(k) == CHOOSE i \in {1} : Cardinality({j \in {1} : j < i}) = k - 1
  <2>1. {j \in {1} : j < 1} = {}
    OBVIOUS
  <2>2. \E i \in {1} : Cardinality({j \in {1} : j < i}) = 1 - 1
    BY <1>1, <2>1
  <2>3. c(1) \in {1}
    BY <2>2
  <2>4. Picked(q, places) = [k \in 1..1 |-> q[c(k)]]
    BY <1>1, <1>3 DEF Picked
  <2> HIDE DEF c
  <2>5. [k \in 1..1 |-> q[c(k)]] = <<q[1]>>
    BY <2>3
  <2> QED
    BY <1>3, <2>4, <2>5
<1> QED
  BY <1>2, <1>3

LEMMA ClearedIs ==
    ASSUME Typed, OutboxTrue, st' = ClearUncommitted(st)
    PROVE  /\ st' \in StateFile /\ st'.gen = st.gen /\ st'.rev = st.rev /\ st'.reset = st.reset
           /\ st'.delivery = st.delivery /\ st'.projection = st.projection /\ st'.chk = st.chk
           /\ st'.journal = st.journal /\ st'.drafts = NoDrafts
           /\ \A t \in Turns : st'.bind[t] = IF st.bind[t] = "pending" THEN "none" ELSE st.bind[t]
           /\ \/ st'.pending = <<>>
              \/ /\ st'.pending = <<st.pending[1]>> /\ 1 \in DOMAIN st.pending
                 /\ st.bind[st.pending[1].turn] = "unknown"
<1>1. st \in StateFile /\ st.pending \in Seq(Entry)
      /\ st.bind \in [Turns -> {"none", "pending", "unknown", "acked"}]
  BY DEF Typed, StateFile
<1> DEFINE places == {i \in DOMAIN st.pending : st.bind[st.pending[i].turn] = "unknown"}
           p == Picked(st.pending, places)
           b == [t \in Turns |-> IF st.bind[t] = "pending" THEN "none" ELSE st.bind[t]]
<1>2. places \subseteq {1}
  BY DEF OutboxTrue
<1>3. \/ p = <<>>
      \/ /\ p = <<st.pending[1]>> /\ 1 \in DOMAIN st.pending
         /\ st.bind[st.pending[1].turn] = "unknown"
  <2>1. 1 \in {1}
    OBVIOUS
  <2> QED
    BY <1>2, <2>1, PickedIs
<1>4. st' = [st EXCEPT !.drafts = NoDrafts, !.pending = p, !.bind = b, !.listed = FALSE]
  BY <1>1 DEF ClearUncommitted
<1> HIDE DEF p
<1>5. p \in Seq(Entry)
  <2>1. 1 \in DOMAIN st.pending => st.pending[1] \in Entry
    BY EntriesAre
  <2> DEFINE e == st.pending[1]
             E == Entry
  <2> HIDE DEF E
  <2>2. p = <<>> \/ (p = <<e>> /\ e \in E)
    BY <1>3, <2>1 DEF E
  <2> HIDE DEF e
  <2>3. <<>> \in Seq(E)
    BY EmptySeq
  <2>4. e \in E => <<e>> \in Seq(E)
    OBVIOUS
  <2>5. p \in Seq(E)
    BY <2>2, <2>3, <2>4, Zenon
  <2> QED
    BY <2>5 DEF E
<1>6. /\ b \in [Turns -> {"none", "pending", "unknown", "acked"}]
      /\ \A t \in Turns : b[t] = IF st.bind[t] = "pending" THEN "none" ELSE st.bind[t]
  BY <1>1
<1>7. NoDrafts \in [Turns -> Draft]
  BY DEF NoDrafts, NoDraft, NoPiece, Draft, Piece
<1> HIDE DEF b
<1>8. /\ st' \in StateFile /\ st'.gen = st.gen /\ st'.rev = st.rev /\ st'.reset = st.reset
      /\ st'.delivery = st.delivery /\ st'.projection = st.projection /\ st'.chk = st.chk
      /\ st'.journal = st.journal /\ st'.drafts = NoDrafts /\ st'.pending = p /\ st'.bind = b
  BY <1>1, <1>4, <1>5, <1>6, <1>7 DEF StateFile
<1> QED
  BY <1>3, <1>6, <1>8

LEMMA ClearStep ==
    ASSUME UploadInv, op = NoOp, st' = ClearUncommitted(st), conn' \in Conn,
           UNCHANGED <<server, job, task, native, hook, spool, op, unsure, spent>>
    PROVE  UploadInv'
<1>0. /\ Typed /\ Placed /\ TurnsLive /\ HooksTold /\ OutboxTrue /\ OpShape /\ LogTrue /\ ReadsTrue
      /\ StateFresh /\ OpFresh /\ JobFresh /\ JobTrue /\ ErasedStaysOut /\ CompletedUploadIsDone
      /\ UNCHANGED <<log, revision, commits, writer, task, shown, injected, carried>>
  BY DEF UploadInv, TypeOK, server, native
<1>1. /\ st' \in StateFile /\ st'.gen = st.gen /\ st'.rev = st.rev /\ st'.reset = st.reset
      /\ st'.delivery = st.delivery /\ st'.projection = st.projection /\ st'.chk = st.chk
      /\ st'.journal = st.journal /\ st'.drafts = NoDrafts
      /\ \A t \in Turns : st'.bind[t] = IF st.bind[t] = "pending" THEN "none" ELSE st.bind[t]
      /\ \/ st'.pending = <<>>
         \/ /\ st'.pending = <<st.pending[1]>> /\ 1 \in DOMAIN st.pending
            /\ st.bind[st.pending[1].turn] = "unknown"
  BY <1>0, ClearedIs
<1>2. \A t \in Turns : /\ NoDrafts[t] = NoDraft /\ NoDrafts[t].pieces = {}
                       /\ NoDrafts[t].through = 0 /\ NoDrafts[t].chk = NoPiece
  BY DEF NoDrafts, NoDraft
<1>3. Typed'
  BY <1>0, <1>1 DEF Typed, Conn
<1>4. Placed'
  <2>1. Places' = Places
    BY <1>0 DEF Places
  <2>2. /\ st'.rev <= revision /\ st'.delivery <= Len(log) /\ st'.projection <= Len(log)
        /\ st'.chk \in Places \cup {NoPiece} /\ st'.journal \in Places \cup {NoPiece}
    BY <1>0, <1>1 DEF Placed
  <2>3. /\ op.rev <= revision /\ op.upto <= Len(log) /\ job.through <= Len(log)
        /\ shown \subseteq Places /\ Range(injected) \subseteq Places
        /\ hook.pieces \subseteq Places /\ op.text \subseteq Places
    BY <1>0 DEF Placed
  <2>4. ASSUME NEW t \in Turns
        PROVE  /\ task[t].gen <= st'.gen /\ task[t].read \subseteq DOMAIN log
               /\ st'.drafts[t].through <= Len(log) /\ st'.drafts[t].pieces \subseteq Places
               /\ st'.drafts[t].chk \in Places \cup {NoPiece}
    <3>1. task[t].gen <= st'.gen /\ task[t].read \subseteq DOMAIN log
      BY <1>0, <1>1 DEF Placed
    <3>2. Len(log) \in Nat
      BY <1>0 DEF Typed
    <3> QED
      BY <1>1, <1>2, <3>1, <3>2
  <2> QED
    BY <1>0, <2>1, <2>2, <2>3, <2>4 DEF Placed
<1>5. TurnsLive'
  BY <1>0, <1>1, <1>2 DEF TurnsLive
<1>6. HooksTold' /\ LogTrue' /\ ReadsTrue' /\ OpFresh' /\ JobFresh' /\ ErasedStaysOut' /\ CompletedUploadIsDone'
  BY <1>0, <1>1, HooksFrame, LogFrame, ReadsFrame, BuildFrame, JobFrame, ErasedFrame, DoneFrame
<1>7. OutboxTrue'
  <2>1. CASE st'.pending = <<>>
    BY <2>1 DEF OutboxTrue
  <2>2. CASE st'.pending # <<>>
    <3> DEFINE e == st.pending[1]
    <3>1. /\ st'.pending = <<e>> /\ st.bind[e.turn] = "unknown" /\ e.turn \in Turns
          /\ task[e.turn].status = "completed" /\ e.rev = st.rev
      BY <1>0, <1>1, <2>2, EntriesAre DEF OutboxTrue
    <3>2. st'.bind[e.turn] = "unknown"
      BY <1>1, <3>1
    <3> HIDE DEF e
    <3>3. DOMAIN st'.pending = {1} /\ st'.pending[1] = e
      BY <3>1
    <3> QED
      BY <1>0, <1>1, <3>1, <3>2, <3>3 DEF OutboxTrue
  <2> QED
    BY <2>1, <2>2
<1>8. OpShape' /\ JobTrue'
  BY <1>0 DEF OpShape, JobTrue, NoOp
<1>9. StateFresh'
  BY <1>0, <1>1, <1>2 DEF StateFresh, Promised, Delivered
<1> QED
  BY <1>3, <1>4, <1>5, <1>6, <1>7, <1>8, <1>9 DEF UploadInv, TypeOK

LEMMA UnmanageStep == ASSUME UploadInv, Unmanage PROVE UploadInv'
<1>0. Typed /\ op = NoOp /\ conn' \in Conn
      /\ UNCHANGED <<server, job, task, native, hook, spool, op, unsure, spent>>
  BY DEF UploadInv, TypeOK, Typed, Unmanage, Conn
<1>1. CASE Loadable(st)
  BY <1>0, <1>1, ClearStep DEF Unmanage
<1>2. CASE ~Loadable(st)
  <2>1. st' = st /\ UNCHANGED <<log, revision, commits, writer, task, shown, injected, carried>>
    BY <1>0, <1>2 DEF Unmanage, server, native
  <2>2. /\ UNCHANGED Core /\ HookMoves /\ JobMoves /\ OpMoves /\ writer' \in BOOLEAN
        /\ unsure' \subseteq Turns /\ spent' \in [posts: 0..MaxPosts, upsets: 0..MaxUpsets]
    BY <1>0, <2>1 DEF Core, HookMoves, JobMoves, OpMoves, Typed
  <2> QED
    BY <1>0, <2>2, IdleStep
<1> QED
  BY <1>1, <1>2

-----------------------------------------------------------------------------
(* The invariant.                                                          *)

LEMMA UploadInit == Init => UploadInv
<1> SUFFICES ASSUME Init PROVE UploadInv
  OBVIOUS
<1>1. /\ log = <<>> /\ revision = 0 /\ writer = TRUE /\ commits = [t \in Turns |-> NoBody]
      /\ job = NoJob /\ shown = {} /\ injected = <<>> /\ carried = NoPiece
      /\ task = [t \in Turns |-> [status |-> "new", gen |-> 0, hooked |-> FALSE, read |-> {}]]
      /\ hook = NoHook /\ spool = <<>> /\ op = NoOp /\ unsure = {} /\ spent = [posts |-> 0, upsets |-> 0]
      /\ conn = [up |-> TRUE, managed |-> TRUE, phase |-> "sync", nativeOff |-> FALSE]
  BY DEF Init
<1>2. /\ NoPiece \in Piece /\ NoDraft \in Draft /\ NoDraft.pieces = {} /\ NoDraft.through = 0
      /\ NoDraft.chk = NoPiece
  BY DEF NoPiece, Piece, NoDraft, Draft
<1>3. NoDrafts \in [Turns -> Draft] /\ \A t \in Turns : NoDrafts[t] = NoDraft
  BY <1>2 DEF NoDrafts
<1>4. /\ Unbound \in [Turns -> {"none", "pending", "unknown", "acked"}]
      /\ \A t \in Turns : Unbound[t] = "none"
  BY DEF Unbound
<1>5. st = [gen |-> 1, rev |-> 0, reset |-> FALSE, listed |-> TRUE, auto |-> TRUE,
            delivery |-> 0, chk |-> NoPiece, projection |-> 0, journal |-> NoPiece,
            drafts |-> NoDrafts, pending |-> <<>>, bind |-> Unbound]
  BY DEF Init
<1>6. /\ st \in StateFile /\ st.gen = 1 /\ st.rev = 0 /\ ~st.reset /\ st.delivery = 0
      /\ st.chk = NoPiece /\ st.projection = 0 /\ st.journal = NoPiece /\ st.drafts = NoDrafts
      /\ st.pending = <<>> /\ st.bind = Unbound
  <2>1. <<>> \in Seq(Entry)
    BY EmptySeq
  <2> QED
    BY <1>2, <1>3, <1>4, <1>5, <2>1 DEF StateFile
<1>7. \A t \in Turns : /\ task[t].status = "new" /\ task[t].gen = 0 /\ task[t].read = {}
                       /\ commits[t] = NoBody
  BY <1>1
<1>8. Typed
  <2>1. log \in Seq([turn: Turns \cup {NoTurn}, kind: Kind, gone: BOOLEAN])
        /\ spool \in Seq([turn: Turns, name: {"prompt", "stop", "cancel"}]) /\ injected \in Seq(Piece)
    BY <1>1, EmptySeq
  <2>2. commits \in [Turns -> [rev: Int, tools: BOOLEAN]]
    BY <1>1 DEF NoBody
  <2>3. job \in [kind: JobKinds \cup {"none"}, through: Nat, rev: Nat, due: SUBSET Turns,
                 status: {"none", "pending", "claimed", "completed", "failed"}]
    BY <1>1 DEF NoJob
  <2>4. task \in [Turns -> [status: {"new", "active", "completed", "interrupted"}, gen: Nat,
                            hooked: BOOLEAN, read: SUBSET Nat]]
    BY <1>1
  <2>5. hook \in [turn: Turns \cup {NoTurn}, name: {"none", "prompt", "stop", "cancel"},
                  at: {"none", "sent", "reply"}, pieces: SUBSET Piece]
    BY <1>1 DEF NoHook
  <2>6. op \in Operation
    BY <1>1 DEF NoOp, Operation
  <2>7. spent \in [posts: 0..MaxPosts, upsets: 0..MaxUpsets]
    BY <1>1, DesktopAssumption
  <2>8. conn \in [up: BOOLEAN, managed: BOOLEAN, nativeOff: BOOLEAN,
                  phase: {"sync", "project", "job", "drain"}]
    BY <1>1
  <2>9. revision \in Nat /\ writer \in BOOLEAN /\ shown \subseteq Piece /\ carried \in Piece
        /\ unsure \subseteq Turns
    BY <1>1, <1>2
  <2> QED
    BY <1>6, <2>1, <2>2, <2>3, <2>4, <2>5, <2>6, <2>7, <2>8, <2>9 DEF Typed
<1>9. /\ Len(log) = 0 /\ DOMAIN log = {} /\ DOMAIN spool = {} /\ DOMAIN st.pending = {}
      /\ Range(injected) = {}
  BY <1>1, <1>6 DEF Range
<1>10. Placed
  BY <1>1, <1>2, <1>3, <1>6, <1>7, <1>9 DEF Placed, NoOp, NoJob, NoHook
<1>11. TurnsLive
  BY <1>3, <1>4, <1>6, <1>7 DEF TurnsLive
<1>12. HooksTold /\ OutboxTrue /\ OpShape /\ LogTrue
  BY <1>1, <1>7, <1>9 DEF HooksTold, NoHook, OutboxTrue, OpShape, NoOp, LogTrue
<1>13. ReadsTrue /\ ErasedStaysOut
  BY <1>7 DEF ReadsTrue, ErasedStaysOut
<1>14. StateFresh
  BY <1>1, <1>2, <1>3, <1>6, <1>9 DEF StateFresh, Promised, Delivered, NoHook
<1>15. OpFresh /\ JobFresh /\ JobTrue /\ CompletedUploadIsDone
  BY <1>1 DEF OpFresh, Building, Working, JobFresh, JobTrue, CompletedUploadIsDone, NoOp, NoJob
<1> QED
  BY <1>8, <1>10, <1>11, <1>12, <1>13, <1>14, <1>15 DEF UploadInv, TypeOK

LEMMA LoopStep == ASSUME UploadInv, Loop PROVE UploadInv'
<1>1. CASE \E kind \in {"sync", "project"} : BeginCycle(kind)
  BY <1>1, CycleBegins
<1>2. CASE CycleFails \/ DrainEnds \/ SyncEnds \/ Report \/ Start
  BY <1>2, IdleActions
<1>3. CASE ClaimJob \/ BeginDrain \/ Rebuild \/ DrainNext
  BY <1>3, JobBegins, DrainBegins, RebuildStep, DrainNextStep
<1>4. CASE Discover \/ Send \/ Commit \/ Ack
  BY <1>4, DiscoverStep, SendStep, CommitStep, AckStep
<1>5. CASE Import \/ Project \/ Inject \/ SaveInjected
  BY <1>5, ImportStep, ProjectStep, InjectStep, SaveStep
<1>6. CASE Manage \/ Unmanage
  BY <1>6, ManageStep, UnmanageStep
<1> QED
  BY <1>1, <1>2, <1>3, <1>4, <1>5, <1>6 DEF Loop

LEMMA OthersStep == ASSUME UploadInv, Others PROVE UploadInv'
<1>1. CASE \E kind \in Kinds : Post(kind)
  BY <1>1, PostStep
<1>2. CASE \E n \in DOMAIN log : Erase(n)
  BY <1>2, EraseStep
<1>3. CASE \E b \in BOOLEAN : SetWriter(b) \/ SetAuto(b)
  BY <1>3, IdleActions, SetAutoStep
<1>4. CASE \E kind \in JobKinds : CreateJob(kind)
  BY <1>4, IdleActions
<1>5. CASE \E t \in Turns : Finish(t) \/ Interrupt(t) \/ \E hooked \in BOOLEAN : Prompt(t, hooked)
  BY <1>5, UserActions
<1> QED
  BY <1>1, <1>2, <1>3, <1>4, <1>5 DEF Others

LEMMA UploadStep == UploadInv /\ [Next]_vars => UploadInv'
<1> SUFFICES ASSUME UploadInv, [Next]_vars PROVE UploadInv'
  OBVIOUS
<1>1. CASE Loop
  BY <1>1, LoopStep
<1>2. CASE HookRuns
  BY <1>2, HookBegins, HookWorkStep, ReplyStep, IdleActions DEF HookRuns
<1>3. CASE Others
  BY <1>3, OthersStep
<1>4. CASE Failures
  BY <1>4, IdleActions DEF Failures
<1>5. CASE UNCHANGED vars
  BY <1>5, IdleActions
<1> QED
  BY <1>1, <1>2, <1>3, <1>4, <1>5 DEF Next

LEMMA UploadInvariant == Spec => []UploadInv
<1> QED
  BY UploadInit, UploadStep, PTL DEF Spec

LEMMA OnceOnly ==
    ASSUME UploadInv PROVE CommittedOnce
<1> SUFFICES ASSUME NEW t \in Turns, NEW kind \in {"request", "response"}
             PROVE  Cardinality({n \in DOMAIN log : log[n].turn = t /\ log[n].kind = kind}) <= 1
  BY DEF CommittedOnce
<1> DEFINE S == {n \in DOMAIN log : log[n].turn = t /\ log[n].kind = kind}
<1>1. \A m, n \in S : m = n
  BY DEF UploadInv, LogTrue
<1> HIDE DEF S
<1>2. Cardinality(S) <= 1
  <2>1. CASE S = {}
    BY <2>1, FS_EmptySet
  <2>2. CASE S # {}
    <3>1. PICK n \in S : S = {n}
      BY <1>1, <2>2
    <3>2. Cardinality({n}) = 1
      BY FS_Singleton
    <3> QED
      BY <3>1, <3>2
  <2> QED
    BY <2>1, <2>2
<1> QED
  BY <1>2 DEF S

\* Every variable keeps its type, and what names a place in the session's log, a revision
\* or a task names one there is, whatever crashes, fails or is taken away on the way.
THEOREM TypesKept == Spec => []TypeOK
<1>1. UploadInv => TypeOK
  BY DEF UploadInv
<1> QED
  BY <1>1, UploadInvariant, PTL

\* A turn typed into the task is in the session at most once, what was written after
\* reading an erased message is not in it, the outbox can always be sent, and an upload
\* reported as complete has uploaded what it found: for any number of turns, of posts and
\* of upsets, and every mix of failures.
THEOREM UploadIsSound == Spec => []UploadSound
<1>1. UploadInv => UploadSound
  BY OnceOnly DEF UploadInv, UploadSound, OutboxBound, OutboxTrue
<1> QED
  BY <1>1, UploadInvariant, PTL

-----------------------------------------------------------------------------
(* What reaches the task: the invariant.                                   *)

\* An event of the task's own is known as acknowledged, unless its acknowledgement is
\* awaited or was lost.
OwnKnown ==
  \A n \in DOMAIN log :
    Own(n) /\ log[n].kind # "tool" /\ log[n].turn \notin unsure =>
      \/ st.reset \/ st.bind[log[n].turn] = "acked"
      \/ op.step = "ack" /\ Head(st.pending).turn = log[n].turn

\* A chunk the task may get: it is not known to be the task's own.
Foreign(p) == Own(p[1]) => log[p[1]].kind = "tool" \/ log[p[1]].turn \in unsure

NoEchoAhead ==
  /\ op.kind \in {"hook", "project"} /\ op.step # "rebuild" => ~st.reset
  /\ \A p \in Promised : Foreign(p)
  /\ \A t \in Turns : \A p \in st.drafts[t].pieces : Foreign(p)
  /\ st.journal # NoPiece => Foreign(st.journal)

\* The journal names the chunk that comes next.
JournalNext ==
  LET j == st.journal
  IN  /\ j[1] \in DOMAIN log /\ j[1] <= st.projection + 1 /\ j[2] \in Chunks(j[1])
      /\ \A k \in Chunks(j[1]) : k < j[2] => <<j[1], k>> \in Delivered
      /\ \A p \in Range(injected) : p = j \/ Before(p, j)
      /\ op.step = "inject" /\ ~op.resumed => j \notin Range(injected)
JournalTrue ==
  /\ st.journal # NoPiece => JournalNext
  /\ st.journal = NoPiece /\ ~st.reset => \A p \in Range(injected) : p[1] <= st.projection
  /\ op.step = "save" => st.journal \in Range(injected)

\* The task has got event n, or needs not get it; the same before its checkpoint.
Has(p) == p \in Delivered \/ TakenOver(p)
Given(n) == Own(n) \/ log[n].gone \/ \A k \in Chunks(n) : Has(<<n, k>>)
StartGiven(c) ==
  c # NoPiece => /\ c[1] \in DOMAIN log
                 /\ \A k \in Chunks(c[1]) : k < c[2] => Has(<<c[1], k>>)
CursorsTrue ==
  /\ \A n \in 1..st.delivery : Given(n)
  /\ \A n \in 1..st.projection : Given(n)
  /\ StartGiven(st.chk)

\* Together with its capsule, a draft's cursor passes nothing either; the capsule is in
\* the task or on its way there.
With(t, p) == Has(p) \/ p \in st.drafts[t].pieces
DraftGiven(t) ==
  /\ \A n \in 1..st.drafts[t].through :
       Own(n) \/ log[n].gone \/ \A k \in Chunks(n) : With(t, <<n, k>>)
  /\ LET c == st.drafts[t].chk
     IN  c # NoPiece => /\ c[1] \in DOMAIN log
                        /\ \A k \in Chunks(c[1]) : k < c[2] => With(t, <<c[1], k>>)
OnItsWay(t) ==
  \/ st.drafts[t].pieces \subseteq Delivered
  \/ hook.at = "reply" /\ hook.turn = t /\ hook.pieces = st.drafts[t].pieces
DraftsTrue == \A t \in Turns : st.drafts[t] # NoDraft => DraftGiven(t) /\ OnItsWay(t)

DeliveryInv ==
  /\ OwnKnown /\ NoEchoAhead /\ JournalTrue /\ InjectedInOrder /\ CursorsTrue /\ DraftsTrue

-----------------------------------------------------------------------------
(* What a step keeps of it.                                                *)

\* Events stay whose they were, the task loses nothing.
Keeps ==
  /\ \A n \in DOMAIN log : /\ n \in DOMAIN log' /\ log'[n].turn = log[n].turn
                           /\ log'[n].kind = log[n].kind
                           /\ log[n].gone => log'[n].gone
                           /\ Own(n)' <=> Own(n)
  /\ Delivered \subseteq Delivered' /\ carried' = carried /\ unsure \subseteq unsure'

LEMMA KeepsFrame ==
    ASSUME UNCHANGED <<log, task, shown, injected, carried>>, st'.gen = st.gen,
           unsure \subseteq unsure'
    PROVE  Keeps
BY DEF Keeps, Own, Delivered

LEMMA Kept ==
    ASSUME Keeps
    PROVE  /\ \A n \in DOMAIN log : Chunks(n)' = Chunks(n) /\ (Given(n) => Given(n)')
           /\ \A p : Has(p) => Has(p)'
           /\ \A p : p[1] \in DOMAIN log /\ Foreign(p) => Foreign(p)'
<1>1. \A p : Has(p) => Has(p)'
  BY DEF Keeps, Has, TakenOver
<1>2. \A n \in DOMAIN log : Chunks(n)' = Chunks(n)
  BY DEF Keeps, Chunks
<1>3. ASSUME NEW n \in DOMAIN log, Given(n) PROVE Given(n)'
  <2>1. CASE Own(n) \/ log[n].gone
    BY <1>3, <2>1 DEF Keeps, Given
  <2>2. CASE \A k \in Chunks(n) : Has(<<n, k>>)
    <3>1. \A k \in Chunks(n)' : Has(<<n, k>>)'
      BY <1>1, <1>2, <2>2
    <3> QED
      BY <3>1 DEF Given
  <2> QED
    BY <1>3, <2>1, <2>2 DEF Given
<1>4. ASSUME NEW p, p[1] \in DOMAIN log, Foreign(p) PROVE Foreign(p)'
  BY <1>4 DEF Keeps, Foreign
<1> QED
  BY <1>1, <1>2, <1>3, <1>4

LEMMA OwnStep ==
    ASSUME OwnKnown, Keeps,
           \A n \in DOMAIN log' : n \notin DOMAIN log /\ Own(n)' =>
             op'.step = "ack" /\ Head(st'.pending).turn = log'[n].turn,
           st.reset => st'.reset,
           \A n \in DOMAIN log : Own(n) /\ st.bind[log[n].turn] = "acked" =>
             st'.reset \/ st'.bind[log[n].turn] = "acked",
           op.step = "ack" =>
             \/ op'.step = "ack" /\ Head(st'.pending).turn = Head(st.pending).turn
             \/ Head(st.pending).turn \in unsure'
             \/ st'.bind[Head(st.pending).turn] = "acked"
    PROVE  OwnKnown'
<1> SUFFICES ASSUME NEW n \in DOMAIN log', Own(n)', log'[n].kind # "tool", log'[n].turn \notin unsure'
             PROVE  \/ st'.reset \/ st'.bind[log'[n].turn] = "acked"
                    \/ op'.step = "ack" /\ Head(st'.pending).turn = log'[n].turn
  BY DEF OwnKnown
<1>1. CASE n \notin DOMAIN log
  BY <1>1
<1>2. CASE n \in DOMAIN log
  <2>1. Own(n) /\ log[n].kind # "tool" /\ log'[n].turn = log[n].turn /\ log[n].turn \notin unsure
    BY <1>2 DEF Keeps
  <2>2. \/ st.reset \/ st.bind[log[n].turn] = "acked"
        \/ op.step = "ack" /\ Head(st.pending).turn = log[n].turn
    BY <1>2, <2>1 DEF OwnKnown
  <2> QED
    BY <1>2, <2>1, <2>2
<1> QED
  BY <1>1, <1>2

\* A chunk the task may get now.
Harmless(p) == p[1] \in DOMAIN log /\ Foreign(p)

LEMMA AllHarmless ==
    ASSUME Placed, NoEchoAhead
    PROVE  /\ \A p \in Promised : Harmless(p)
           /\ \A t \in Turns : \A p \in st.drafts[t].pieces : Harmless(p)
           /\ st.journal # NoPiece => Harmless(st.journal)
<1>1. \A p \in Places : p[1] \in DOMAIN log
  BY DEF Places
<1>2. Promised \subseteq Places
  BY DEF Placed, Promised, Delivered
<1> QED
  BY <1>1, <1>2 DEF Placed, NoEchoAhead, Harmless

LEMMA EchoStep ==
    ASSUME Keeps,
           op'.kind \in {"hook", "project"} /\ op'.step # "rebuild" => ~st'.reset,
           \A p \in Promised' : Harmless(p),
           \A t \in Turns : \A p \in st'.drafts[t].pieces : Harmless(p),
           st'.journal # NoPiece => Harmless(st'.journal)
    PROVE  NoEchoAhead'
<1>1. \A p : Harmless(p) => Foreign(p)'
  BY Kept DEF Harmless
<1>2. \A p \in Promised' : Foreign(p)'
  BY <1>1
<1>3. \A t \in Turns : \A p \in st'.drafts[t].pieces : Foreign(p)'
  BY <1>1
<1>4. \A p : p = st'.journal /\ p # NoPiece => Foreign(p)'
  BY <1>1
<1>5. st'.journal # NoPiece => Foreign(st.journal)'
  BY <1>4 DEF Foreign, Own
<1> QED
  BY <1>2, <1>3, <1>5 DEF NoEchoAhead

LEMMA JournalStep ==
    ASSUME Typed, Placed, JournalTrue, Keeps, injected' = injected, st'.journal = st.journal,
           st'.projection \in Nat, st.projection <= st'.projection, st.reset => st'.reset,
           op'.step = "inject" /\ ~op'.resumed /\ st.journal # NoPiece =>
             op.step = "inject" /\ ~op.resumed,
           op'.step = "save" => op.step = "save"
    PROVE  JournalTrue'
<1>1. st.projection \in Nat /\ DOMAIN log \subseteq Nat /\ Range(injected) \subseteq Places
      /\ st.journal[1] \in Nat
  <2>1. log \in Seq(Event) /\ st \in StateFile
    BY DEF Typed, Event
  <2>2. DOMAIN log \subseteq Nat
    BY <2>1
  <2> QED
    BY <2>1, <2>2 DEF Placed, StateFile, Piece
<1>2. \A p \in Range(injected) : p[1] \in Nat
  BY <1>1 DEF Places
<1>3. st.journal # NoPiece => JournalNext'
  <2> SUFFICES ASSUME st.journal # NoPiece PROVE JournalNext'
    OBVIOUS
  <2> DEFINE j == st.journal
  <2>1. /\ j[1] \in DOMAIN log /\ j[1] <= st.projection + 1 /\ j[2] \in Chunks(j[1])
        /\ \A k \in Chunks(j[1]) : k < j[2] => <<j[1], k>> \in Delivered
        /\ \A p \in Range(injected) : p = j \/ Before(p, j)
        /\ op.step = "inject" /\ ~op.resumed => j \notin Range(injected)
    BY DEF JournalTrue, JournalNext
  <2>2. st'.journal = j
    OBVIOUS
  <2>3. j[1] \in DOMAIN log' /\ j[1] <= st'.projection + 1
    BY <1>1, <2>1 DEF Keeps
  <2>4. \A n : n = j[1] => Chunks(n)' = Chunks(n)
    BY <2>1, Kept
  <2> HIDE DEF j
  <2>5. \A n : n = j[1] => n \in DOMAIN log' /\ j[2] \in Chunks(n)'
                           /\ \A k \in Chunks(n)' : k < j[2] => <<n, k>> \in Delivered'
    BY <2>1, <2>3, <2>4 DEF Keeps
  <2>6. op'.step = "inject" /\ ~op'.resumed => j \notin Range(injected')
    BY <2>1 DEF j
  <2>7. \A p \in Range(injected') : p = j \/ Before(p, j)
    BY <2>1
  <2> QED
    BY <2>2, <2>3, <2>5, <2>6, <2>7 DEF JournalNext, Chunks, Before
<1>4. st.journal = NoPiece /\ ~st'.reset => \A p \in Range(injected) : p[1] <= st'.projection
  BY <1>1, <1>2 DEF JournalTrue
<1> QED
  BY <1>3, <1>4 DEF JournalTrue

LEMMA StartStep ==
    ASSUME Keeps, StartGiven(st.chk), st'.chk \in {st.chk, NoPiece}
    PROVE  StartGiven(st.chk)'
<1> DEFINE c == st.chk
<1>1. CASE st'.chk = NoPiece
  BY <1>1 DEF StartGiven
<1>2. CASE st'.chk = c /\ c # NoPiece
  <2>1. c[1] \in DOMAIN log /\ \A k \in Chunks(c[1]) : k < c[2] => Has(<<c[1], k>>)
    BY <1>2 DEF StartGiven
  <2>2. c[1] \in DOMAIN log'
    BY <2>1 DEF Keeps
  <2>3. \A n : n = c[1] => Chunks(n)' = Chunks(n)
    BY <2>1, Kept
  <2> HIDE DEF c
  <2>4. \A n : n = c[1] => \A k \in Chunks(n)' : k < c[2] => Has(<<n, k>>)'
    BY <2>1, <2>3, Kept
  <2> QED
    BY <1>2, <2>2, <2>4 DEF StartGiven, Chunks, Has, Delivered, TakenOver
<1> QED
  BY <1>1, <1>2

LEMMA CursorsKept ==
    ASSUME Typed, Placed, CursorsTrue, Keeps, st'.chk \in {st.chk, NoPiece},
           st'.delivery \in Nat, st'.projection \in Nat,
           \A n \in 1..st'.delivery : n <= st.delivery \/ n <= st.projection \/ (n \in DOMAIN log /\ Given(n)),
           \A n \in 1..st'.projection : n <= st.delivery \/ n <= st.projection \/ (n \in DOMAIN log /\ Given(n))
    PROVE  CursorsTrue'
<1>1. /\ st.delivery \in Nat /\ st.projection \in Nat
      /\ \A n \in 1..st.delivery : n \in DOMAIN log
      /\ \A n \in 1..st.projection : n \in DOMAIN log
  <2>1. log \in Seq(Event) /\ st \in StateFile
    BY DEF Typed, Event
  <2>2. DOMAIN log = 1..Len(log) /\ Len(log) \in Nat
    BY <2>1
  <2> QED
    BY <2>1, <2>2 DEF Placed, StateFile
<1>2. \A n \in Nat \ {0} : n <= st.delivery \/ n <= st.projection => n \in DOMAIN log /\ Given(n)
  BY <1>1 DEF CursorsTrue
<1>3. \A n \in 1..st'.delivery : n \in DOMAIN log /\ Given(n)
  BY <1>2
<1>4. \A n \in 1..st'.projection : n \in DOMAIN log /\ Given(n)
  BY <1>2
<1>5. StartGiven(st.chk)'
  BY StartStep DEF CursorsTrue
<1>6. (\A n \in 1..st'.delivery : Given(n)') /\ \A n \in 1..st'.projection : Given(n)'
  BY <1>3, <1>4, Kept
<1> QED
  BY <1>5, <1>6 DEF CursorsTrue

LEMMA DraftKept ==
    ASSUME Placed, Typed, Keeps, NEW t \in Turns, DraftGiven(t), st'.drafts[t] = st.drafts[t]
    PROVE  DraftGiven(t)'
<1> DEFINE d == st.drafts[t]
<1>1. d.through \in Nat /\ \A n \in 1..d.through : n \in DOMAIN log
  <2>1. log \in Seq(Event) /\ d \in Draft /\ d.through <= Len(log)
    BY DEF Typed, Event, StateFile, Placed
  <2>2. DOMAIN log = 1..Len(log) /\ Len(log) \in Nat
    BY <2>1
  <2> HIDE DEF d
  <2> QED
    BY <2>1, <2>2 DEF Draft
<1>2. \A p : With(t, p) => With(t, p)'
  BY Kept DEF With
<1>3. ASSUME NEW n \in 1..d.through
      PROVE  Own(n)' \/ log'[n].gone \/ \A k \in Chunks(n)' : With(t, <<n, k>>)'
  <2>1. n \in DOMAIN log /\ Chunks(n)' = Chunks(n)
    BY <1>1, Kept
  <2>2. Own(n) \/ log[n].gone \/ \A k \in Chunks(n) : With(t, <<n, k>>)
    BY <1>3 DEF DraftGiven
  <2> QED
    BY <1>2, <2>1, <2>2 DEF Keeps
<1> DEFINE c == d.chk
<1>4. c # NoPiece => /\ c[1] \in DOMAIN log'
                     /\ \A n : n = c[1] => \A k \in Chunks(n)' : k < c[2] => With(t, <<n, k>>)'
  <2> SUFFICES ASSUME c # NoPiece
               PROVE  /\ c[1] \in DOMAIN log'
                      /\ \A n : n = c[1] => \A k \in Chunks(n)' : k < c[2] => With(t, <<n, k>>)'
    OBVIOUS
  <2>1. c[1] \in DOMAIN log /\ \A k \in Chunks(c[1]) : k < c[2] => With(t, <<c[1], k>>)
    BY DEF DraftGiven
  <2>2. \A n : n = c[1] => Chunks(n)' = Chunks(n)
    BY <2>1, Kept
  <2> HIDE DEF c
  <2> QED
    BY <1>2, <2>1, <2>2 DEF Keeps
<1>5. st'.drafts[t].through = d.through /\ st'.drafts[t].chk = c
  OBVIOUS
<1> HIDE DEF d, c
<1> QED
  BY <1>3, <1>4, <1>5 DEF DraftGiven, Chunks, With, Has, Delivered, TakenOver


\* A step after which the task stands where it stood.
LEMMA QuietDelivery ==
    ASSUME UploadInv, DeliveryInv, Keeps, OwnKnown', injected' = injected,
           st'.delivery = st.delivery, st'.projection = st.projection, st'.chk = st.chk,
           st'.journal = st.journal, st'.reset = st.reset,
           \A t \in Turns : st'.drafts[t] = st.drafts[t] \/ st'.drafts[t] = NoDraft,
           op'.kind \in {"hook", "project"} /\ op'.step # "rebuild" => ~st.reset,
           op'.step = "inject" /\ ~op'.resumed /\ st.journal # NoPiece =>
             op.step = "inject" /\ ~op.resumed,
           op'.step = "save" => op.step = "save",
           Promised' \subseteq Promised,
           \A t \in Turns : st'.drafts[t] # NoDraft /\ OnItsWay(t) => OnItsWay(t)'
    PROVE  DeliveryInv'
<1>0. /\ Typed /\ Placed /\ NoEchoAhead /\ JournalTrue /\ InjectedInOrder /\ CursorsTrue
      /\ DraftsTrue
  BY DEF UploadInv, TypeOK, DeliveryInv
<1>1. /\ \A p \in Promised : Harmless(p)
      /\ \A t \in Turns : \A p \in st.drafts[t].pieces : Harmless(p)
      /\ st.journal # NoPiece => Harmless(st.journal)
  BY <1>0, AllHarmless
<1>2. NoEchoAhead'
  <2>1. \A p \in Promised' : Harmless(p)
    BY <1>1
  <2>2. \A t \in Turns : \A p \in st'.drafts[t].pieces : Harmless(p)
    <3>1. NoDraft.pieces = {}
      BY DEF NoDraft
    <3> QED
      BY <1>1, <3>1
  <2> QED
    BY <1>1, <2>1, <2>2, EchoStep
<1>3. JournalTrue'
  <2>1. st.projection \in Nat
    BY <1>0 DEF Typed, StateFile
  <2> QED
    BY <1>0, <2>1, JournalStep
<1>4. InjectedInOrder'
  BY <1>0 DEF InjectedInOrder, Before
<1>5. CursorsTrue'
  <2>1. st.delivery \in Nat /\ st.projection \in Nat
    BY <1>0 DEF Typed, StateFile
  <2> QED
    BY <1>0, <2>1, CursorsKept
<1>6. DraftsTrue'
  <2> SUFFICES ASSUME NEW t \in Turns, st'.drafts[t] # NoDraft
               PROVE  DraftGiven(t)' /\ OnItsWay(t)'
    BY DEF DraftsTrue
  <2>1. st'.drafts[t] = st.drafts[t]
    OBVIOUS
  <2>2. DraftGiven(t) /\ OnItsWay(t)
    BY <1>0, <2>1 DEF DraftsTrue
  <2> QED
    BY <1>0, <2>1, <2>2, DraftKept
<1> QED
  BY <1>2, <1>3, <1>4, <1>5, <1>6 DEF DeliveryInv

\* A hook that is spooled or forgotten had no answer on its way.
LEMMA HookGone ==
    ASSUME UNCHANGED <<task, shown, injected>>, st'.gen = st.gen,
           hook' = hook \/ (hook'.at # "reply" /\ hook.at # "reply"),
           \A t \in Turns : st'.drafts[t] = st.drafts[t] \/ st'.drafts[t] = NoDraft
    PROVE  /\ Promised' \subseteq Promised
           /\ \A t \in Turns : st'.drafts[t] # NoDraft /\ OnItsWay(t) => OnItsWay(t)'
<1>1. Promised' \subseteq Promised
  BY DEF Promised, Delivered
<1>2. ASSUME NEW t \in Turns, st'.drafts[t] # NoDraft, OnItsWay(t) PROVE OnItsWay(t)'
  <2>1. st'.drafts[t] = st.drafts[t]
    BY <1>2
  <2> QED
    BY <1>2, <2>1 DEF OnItsWay, Delivered
<1> QED
  BY <1>1, <1>2

LEMMA CoreDelivery ==
    ASSUME UploadInv, DeliveryInv, UNCHANGED <<log, task, shown, injected, carried, st>>,
           unsure \subseteq unsure', op.step = "ack" => op' = op \/ Head(st.pending).turn \in unsure',
           op'.kind \in {"hook", "project"} /\ op'.step # "rebuild" => ~st.reset,
           op'.step = "inject" /\ ~op'.resumed /\ st.journal # NoPiece =>
             op.step = "inject" /\ ~op.resumed,
           op'.step = "save" => op.step = "save",
           hook' = hook \/ (hook'.at # "reply" /\ hook.at # "reply")
    PROVE  DeliveryInv'
<1>1. Keeps
  BY KeepsFrame
<1>2. OwnKnown'
  BY <1>1, OwnStep DEF DeliveryInv
<1>3. /\ Promised' \subseteq Promised
      /\ \A t \in Turns : st'.drafts[t] # NoDraft /\ OnItsWay(t) => OnItsWay(t)'
  BY HookGone
<1> QED
  BY <1>1, <1>2, <1>3, QuietDelivery

LEMMA AbandonDelivery ==
    ASSUME UploadInv, DeliveryInv, Abandon, UNCHANGED <<log, task, shown, injected, carried, st>>,
           unsure \subseteq unsure', op.step = "ack" => Head(st.pending).turn \in unsure'
    PROVE  DeliveryInv'
<1>1. op'.kind = "none" /\ op'.step = "none"
  BY DEF Abandon, NoOp
<1>2. hook' = hook \/ (hook'.at # "reply" /\ hook.at # "reply")
  <2>1. op.kind = "hook" => hook.at = "sent"
    BY DEF UploadInv, OpShape
  <2> QED
    BY <2>1 DEF Abandon, NoHook
<1> QED
  BY <1>1, <1>2, CoreDelivery

LEMMA IdleDelivery ==
    ASSUME UploadInv, DeliveryInv, "reply" \notin Faults,
           \/ \E b \in BOOLEAN : SetWriter(b)
           \/ \E kind \in JobKinds : CreateJob(kind)
           \/ HookSpools \/ CycleFails \/ Start \/ RebuildFails \/ AnswerLost \/ ResumeTimesOut
           \/ InjectUnanswered \/ Crash \/ SyncEnds \/ Report \/ DrainEnds \/ BeginDrain
           \/ UNCHANGED vars
    PROVE  DeliveryInv'
<1>0. NoOp.kind = "none" /\ NoOp.step = "none" /\ NoHook.at = "none"
  BY DEF NoOp, NoHook
<1>1. op.kind \in {"hook", "project"} /\ op.step # "rebuild" => ~st.reset
  BY DEF DeliveryInv, NoEchoAhead
<1>2. CASE RebuildFails \/ AnswerLost \/ InjectUnanswered
  BY <1>2, AbandonDelivery DEF RebuildFails, AnswerLost, InjectUnanswered, server, native
<1>3. CASE (\E b \in BOOLEAN : SetWriter(b)) \/ (\E kind \in JobKinds : CreateJob(kind))
           \/ CycleFails \/ Start \/ UNCHANGED vars
  BY <1>1, <1>3, CoreDelivery DEF SetWriter, CreateJob, CycleFails, Start, vars, server, native
<1>4. CASE ResumeTimesOut \/ SyncEnds \/ Report \/ DrainEnds
  <2>1. op' = NoOp /\ op.step # "ack" /\ hook' = hook /\ UNCHANGED <<server, task, native, st, unsure>>
    BY <1>4 DEF ResumeTimesOut, SyncEnds, Report, DrainEnds, Working
  <2> QED
    BY <1>0, <2>1, CoreDelivery DEF server, native
<1>5. CASE BeginDrain
  <2>1. /\ op'.kind = "drain" /\ op'.step = "work" /\ hook' = hook /\ op.step # "ack"
        /\ UNCHANGED <<server, task, native, st, unsure>>
    BY <1>5 DEF BeginDrain, NoOp
  <2> QED
    BY <2>1, CoreDelivery DEF server, native
<1>6. CASE HookSpools
  BY <1>0, <1>1, <1>6, CoreDelivery DEF HookSpools, server, native
<1>7. CASE Crash
  <2>1. hook.at # "reply" /\ op' = NoOp /\ UNCHANGED <<server, task, native, st>>
    BY <1>7 DEF Crash
  <2>2. unsure \subseteq unsure' /\ (op.step = "ack" => Head(st.pending).turn \in unsure')
    BY <1>7 DEF Crash
  <2>3. hook' = hook \/ hook' = NoHook
    BY <1>7 DEF Crash
  <2> QED
    BY <1>0, <2>1, <2>2, <2>3, CoreDelivery DEF server, native
<1> QED
  BY <1>2, <1>3, <1>4, <1>5, <1>6, <1>7


-----------------------------------------------------------------------------
(* The session, the user and the outbox.                                   *)

LEMMA EventsAre ==
    ASSUME Typed
    PROVE  DOMAIN log = 1..Len(log) /\ Len(log) \in Nat /\ DOMAIN log \subseteq Nat
           /\ \A n \in DOMAIN log : log[n].turn \in Turns \cup {NoTurn}
<1>1. log \in Seq(Event)
  BY DEF Typed, Event
<1>2. \A n \in DOMAIN log : log[n] \in Event
  BY <1>1
<1>3. DOMAIN log = 1..Len(log) /\ Len(log) \in Nat
  BY <1>1
<1> QED
  BY <1>2, <1>3 DEF Event

LEMMA PostDelivery == ASSUME UploadInv, DeliveryInv, NEW kind \in Kinds, Post(kind) PROVE DeliveryInv'
<1>0. Typed /\ OwnKnown /\ NoEchoAhead
  BY DEF UploadInv, TypeOK, DeliveryInv
<1> DEFINE e == [turn |-> NoTurn, kind |-> kind, gone |-> FALSE]
<1>1. log' = Append(log, e) /\ log \in Seq(Event) /\ e.turn = NoTurn
      /\ UNCHANGED <<task, shown, injected, carried, hook, st, op, unsure>>
  BY <1>0 DEF Post, native, Typed, Event
<1> HIDE DEF e
<1>2. \A n \in DOMAIN log : n \in DOMAIN log' /\ log'[n] = log[n]
  BY <1>1
<1>3. \A n \in DOMAIN log' : n \notin DOMAIN log => log'[n].turn = NoTurn
  BY <1>1
<1>4. Keeps
  BY <1>1, <1>2 DEF Keeps, Own, Delivered
<1>5. OwnKnown'
  BY <1>0, <1>1, <1>3, <1>4, OwnStep DEF Own
<1>6. /\ Promised' \subseteq Promised
      /\ \A t \in Turns : st'.drafts[t] # NoDraft /\ OnItsWay(t) => OnItsWay(t)'
  BY <1>1, HookGone
<1> QED
  BY <1>0, <1>1, <1>4, <1>5, <1>6, QuietDelivery DEF NoEchoAhead

LEMMA EraseDelivery == ASSUME UploadInv, DeliveryInv, NEW x \in DOMAIN log, Erase(x) PROVE DeliveryInv'
<1>0. Typed /\ OwnKnown /\ NoEchoAhead
  BY DEF UploadInv, TypeOK, DeliveryInv
<1>1. UNCHANGED <<task, shown, injected, carried, hook, st, op, unsure>>
  BY DEF Erase, native
<1>2. /\ \A n \in DOMAIN log : /\ n \in DOMAIN log' /\ log'[n].turn = log[n].turn
                               /\ log'[n].kind = log[n].kind
                               /\ log[n].gone => log'[n].gone
      /\ \A n \in DOMAIN log' : n \notin DOMAIN log => log'[n].turn = NoTurn
  BY <1>0, ErasureIs
<1>3. Keeps
  BY <1>1, <1>2 DEF Keeps, Own, Delivered
<1>4. OwnKnown'
  BY <1>0, <1>1, <1>2, <1>3, OwnStep DEF Own
<1>5. /\ Promised' \subseteq Promised
      /\ \A t \in Turns : st'.drafts[t] # NoDraft /\ OnItsWay(t) => OnItsWay(t)'
  BY <1>1, HookGone
<1> QED
  BY <1>0, <1>1, <1>3, <1>4, <1>5, QuietDelivery DEF NoEchoAhead

LEMMA CommitDelivery == ASSUME UploadInv, DeliveryInv, Commit PROVE DeliveryInv'
<1>0. Typed /\ OwnKnown /\ NoEchoAhead /\ OpShape /\ op.step = "commit"
  BY DEF UploadInv, TypeOK, DeliveryInv, Commit
<1>1. CASE Refused(Head(st.pending))
  BY <1>0, <1>1, AbandonDelivery DEF Commit, native
<1>2. CASE ~Refused(Head(st.pending))
  <2> DEFINE t == Head(st.pending).turn
  <2>1. Taken(t)
    BY <1>2, CommitIsTaken
  <2>2. op' = [op EXCEPT !.step = "ack"] /\ op.kind \in {"sync", "upload"}
        /\ UNCHANGED <<task, shown, injected, carried, hook, st, unsure>>
    BY <1>0, <1>2 DEF Commit, native, OpShape
  <2>3. op'.step = "ack" /\ op'.kind \in {"sync", "upload"}
    BY <1>0, <2>2 DEF Typed, Operation
  <2>4. \A n \in DOMAIN log : n \in DOMAIN log' /\ log'[n] = log[n]
    BY <2>1 DEF Taken, Extended
  <2>5. \A n \in DOMAIN log' : n \notin DOMAIN log => log'[n].turn = t
    BY <2>1 DEF Taken
  <2>6. Keeps
    BY <2>2, <2>4 DEF Keeps, Own, Delivered
  <2>7. OwnKnown'
    BY <1>0, <2>2, <2>3, <2>5, <2>6, OwnStep
  <2>8. /\ Promised' \subseteq Promised
        /\ \A u \in Turns : st'.drafts[u] # NoDraft /\ OnItsWay(u) => OnItsWay(u)'
    BY <2>2, HookGone
  <2> QED
    BY <2>2, <2>3, <2>6, <2>7, <2>8, QuietDelivery
<1> QED
  BY <1>1, <1>2

LEMMA TurnDelivery ==
    ASSUME UploadInv, DeliveryInv, NEW t \in Turns, hook = NoHook, hook'.at # "reply",
           UNCHANGED <<log, shown, injected, carried, st, op, unsure>>,
           \A u \in Turns : task'[u].gen = task[u].gen \/ (u = t /\ task[t].status = "new")
    PROVE  DeliveryInv'
<1>0. Typed /\ OwnKnown /\ NoEchoAhead /\ LogTrue
  BY DEF UploadInv, TypeOK, DeliveryInv
<1>1. \A n \in DOMAIN log : log[n].turn # NoTurn => task'[log[n].turn].gen = task[log[n].turn].gen
  BY <1>0, EventsAre DEF LogTrue
<1>2. Keeps
  BY <1>1 DEF Keeps, Own, Delivered
<1>3. OwnKnown'
  BY <1>0, <1>2, OwnStep
<1>4. Promised' \subseteq Promised
  BY DEF Promised, Delivered
<1>5. \A u \in Turns : st'.drafts[u] # NoDraft /\ OnItsWay(u) => OnItsWay(u)'
  BY DEF OnItsWay, Delivered, NoHook
<1> QED
  BY <1>0, <1>2, <1>3, <1>4, <1>5, QuietDelivery DEF NoEchoAhead

LEMMA UserDelivery ==
    ASSUME UploadInv, DeliveryInv, NEW t \in Turns,
           \/ Finish(t) \/ Interrupt(t) \/ \E hooked \in BOOLEAN : Prompt(t, hooked)
    PROVE  DeliveryInv'
<1>0. task \in [Turns -> Turn] /\ NoHook.at # "reply"
  BY DEF UploadInv, TypeOK, Typed, Turn, NoHook
<1>1. CASE Finish(t)
  <2>1. hook = NoHook /\ hook'.at # "reply" /\ UNCHANGED <<log, shown, injected, carried, st, op, unsure>>
    BY <1>0, <1>1 DEF Finish, Fire, server, native
  <2>2. \A u \in Turns : task'[u].gen = task[u].gen
    <3> DEFINE r == IF task[t].gen = st.gen THEN {p[1] : p \in Delivered} ELSE {}
    <3>1. task' = [task EXCEPT ![t].status = "completed", ![t].read = r]
      BY <1>1 DEF Finish
    <3> HIDE DEF r
    <3> QED
      BY <1>0, <3>1 DEF Turn
  <2> QED
    BY <2>1, <2>2, TurnDelivery
<1>2. CASE Interrupt(t)
  <2>1. hook = NoHook /\ hook'.at # "reply" /\ UNCHANGED <<log, shown, injected, carried, st, op, unsure>>
    BY <1>0, <1>2 DEF Interrupt, Fire, server, native
  <2>2. \A u \in Turns : task'[u].gen = task[u].gen
    BY <1>0, <1>2 DEF Interrupt, Turn
  <2> QED
    BY <2>1, <2>2, TurnDelivery
<1>3. ASSUME NEW hooked \in BOOLEAN, Prompt(t, hooked) PROVE DeliveryInv'
  <2>1. hook = NoHook /\ hook'.at # "reply" /\ UNCHANGED <<log, shown, injected, carried, st, op, unsure>>
    BY <1>0, <1>3 DEF Prompt, server, native
  <2>2. task[t].status = "new" /\ \A u \in Turns : u # t => task'[u] = task[u]
    BY <1>0, <1>3 DEF Prompt
  <2> QED
    BY <2>1, <2>2, TurnDelivery
<1> QED
  BY <1>1, <1>2, <1>3

\* The answer of a hook takes the capsule of a draft into the task the draft is of.
LEMMA ReplyDelivery == ASSUME UploadInv, DeliveryInv, HookReply PROVE DeliveryInv'
<1>0. Typed /\ OwnKnown /\ NoEchoAhead /\ TurnsLive
  BY DEF UploadInv, TypeOK, DeliveryInv
<1>1. hook.at = "reply" /\ hook'.at # "reply"
      /\ UNCHANGED <<log, task, injected, carried, st, op, unsure>>
  BY DEF HookReply, NoHook, server
<1>2. Delivered' = Promised
  BY <1>1 DEF HookReply, Promised, Delivered
<1>3. Promised' \subseteq Promised /\ Delivered \subseteq Delivered'
  BY <1>1, <1>2 DEF Promised
<1>4. Keeps
  BY <1>1, <1>3 DEF Keeps, Own
<1>5. OwnKnown'
  BY <1>0, <1>1, <1>4, OwnStep
<1>6. ASSUME NEW t \in Turns, st'.drafts[t] # NoDraft, OnItsWay(t) PROVE OnItsWay(t)'
  <2>1. task[t].gen = st.gen
    BY <1>0, <1>1, <1>6 DEF TurnsLive
  <2>2. st.drafts[t].pieces \subseteq Promised
    BY <1>6, <2>1 DEF OnItsWay, Promised
  <2> QED
    BY <1>1, <1>2, <2>2 DEF OnItsWay
<1> QED
  BY <1>0, <1>1, <1>3, <1>4, <1>5, <1>6, QuietDelivery DEF NoEchoAhead

\* The outbox moves, or the flags change.
LEMMA OutboxDelivery ==
    ASSUME UploadInv, DeliveryInv, UNCHANGED <<log, task, shown, injected, carried, hook, unsure>>,
           st'.gen = st.gen, st'.reset = st.reset,
           st'.delivery = st.delivery, st'.chk = st.chk, st'.projection = st.projection,
           st'.journal = st.journal,
           \A t \in Turns : st'.drafts[t] = st.drafts[t] \/ st'.drafts[t] = NoDraft,
           \A t \in Turns : st.bind[t] = "acked" => st'.bind[t] = "acked",
           op.step = "ack" => st'.bind[Head(st.pending).turn] = "acked",
           op' = op \/ (op'.kind \in {"none", "sync", "upload"} /\ op'.step \notin {"inject", "save"})
    PROVE  DeliveryInv'
<1>0. Typed /\ OwnKnown /\ NoEchoAhead
  BY DEF UploadInv, TypeOK, DeliveryInv
<1>1. Keeps
  BY KeepsFrame
<1>2. OwnKnown'
  BY <1>0, <1>1, EventsAre, OwnStep DEF Own
<1>3. /\ Promised' \subseteq Promised
      /\ \A t \in Turns : st'.drafts[t] # NoDraft /\ OnItsWay(t) => OnItsWay(t)'
  BY HookGone
<1> QED
  BY <1>0, <1>1, <1>2, <1>3, QuietDelivery DEF NoEchoAhead

LEMMA DiscoverDelivery == ASSUME UploadInv, DeliveryInv, Discover PROVE DeliveryInv'
<1>0. Typed /\ op.kind = "upload" /\ op.step = "work"
  BY DEF UploadInv, TypeOK, Discover, Working
<1>1. CASE TaskBusy
  BY <1>0, <1>1, AbandonDelivery DEF Discover, server, native
<1>2. CASE ~TaskBusy
  <2> DEFINE bind == [t \in Turns |-> IF t \in Discovered THEN "pending" ELSE st.bind[t]]
             pending == st.pending \o SetToSeq(Found)
  <2>1. st' = [st EXCEPT !.bind = bind, !.pending = pending] /\ op' = [op EXCEPT !.step = "send"]
        /\ UNCHANGED <<log, task, shown, injected, carried, hook, unsure>>
    BY <1>2 DEF Discover, Found, server, native
  <2>2. \A t \in Turns : st.bind[t] = "acked" => bind[t] = "acked"
    BY DEF Discovered
  <2> HIDE DEF bind, pending
  <2>3. op'.kind = "upload" /\ op'.step = "send"
    BY <1>0, <2>1 DEF Typed, Operation
  <2> QED
    BY <1>0, <2>1, <2>2, <2>3, OutboxDelivery DEF Typed, StateFile
<1> QED
  BY <1>1, <1>2

LEMMA SendDelivery == ASSUME UploadInv, DeliveryInv, Send PROVE DeliveryInv'
<1>0. Typed /\ OutboxTrue /\ op.kind \in {"sync", "upload"} /\ op.step \in {"work", "send"}
  BY DEF UploadInv, TypeOK, Send, Sending, Working
<1> DEFINE t == Head(st.pending).turn
<1>1. /\ st' = [st EXCEPT !.bind[t] = "unknown"] /\ op' = [op EXCEPT !.step = "commit"]
      /\ UNCHANGED <<log, task, shown, injected, carried, hook, unsure>> /\ st.pending # <<>>
  BY DEF Send, ToSend, server, native
<1>2. t \in Turns /\ st.bind[t] # "acked"
  BY <1>0, <1>1, FirstEntry DEF OutboxTrue
<1> HIDE DEF t
<1>3. op'.kind = op.kind /\ op'.step = "commit"
  BY <1>0, <1>1 DEF Typed, Operation
<1> QED
  BY <1>0, <1>1, <1>2, <1>3, OutboxDelivery DEF Typed, StateFile

LEMMA AckDelivery == ASSUME UploadInv, DeliveryInv, Ack PROVE DeliveryInv'
<1>0. Typed /\ op.kind \in {"sync", "upload"} /\ op.step = "ack" /\ st.pending # <<>>
  BY DEF UploadInv, TypeOK, Ack, OpShape
<1> DEFINE t == Head(st.pending).turn
<1>1. /\ st' = [st EXCEPT !.bind[t] = "acked", !.pending = Tail(@)]
      /\ op' = [op EXCEPT !.step = IF op.kind = "sync" THEN "work" ELSE "send"]
      /\ UNCHANGED <<log, task, shown, injected, carried, hook, unsure>>
  BY DEF Ack, server, native
<1>2. t \in Turns
  BY <1>0, FirstEntry
<1>3. op'.kind = op.kind /\ op'.step \in {"work", "send"}
  BY <1>0, <1>1 DEF Typed, Operation
<1>4. \A u : u = t => st'.bind[u] = "acked"
  BY <1>0, <1>1, <1>2 DEF Typed, StateFile
<1>5. /\ st'.gen = st.gen /\ st'.reset = st.reset /\ st'.delivery = st.delivery /\ st'.chk = st.chk
      /\ st'.projection = st.projection /\ st'.journal = st.journal /\ st'.drafts = st.drafts
      /\ \A u \in Turns : st.bind[u] = "acked" => st'.bind[u] = "acked"
  BY <1>0, <1>1, <1>2 DEF Typed, StateFile
<1> QED
  BY <1>0, <1>1, <1>3, <1>4, <1>5, OutboxDelivery

LEMMA FlagDelivery ==
    ASSUME UploadInv, DeliveryInv, NEW l \in BOOLEAN, NEW b \in BOOLEAN,
           st' = [st EXCEPT !.listed = l, !.auto = b], op.step # "ack",
           UNCHANGED <<log, task, shown, injected, carried, hook, op, unsure>>
    PROVE  DeliveryInv'
<1>0. st \in StateFile
  BY DEF UploadInv, TypeOK, Typed
<1> QED
  BY <1>0, OutboxDelivery DEF StateFile

LEMMA UnmanageDelivery == ASSUME UploadInv, DeliveryInv, Unmanage PROVE DeliveryInv'
<1>0. Typed /\ OutboxTrue /\ op.step # "ack"
  BY DEF UploadInv, TypeOK, Unmanage, NoOp
<1>1. UNCHANGED <<log, task, shown, injected, carried, hook, op, unsure>>
  BY DEF Unmanage, server, native
<1>2. CASE st' = st
  BY <1>0, <1>1, <1>2, OutboxDelivery
<1>3. CASE st' = ClearUncommitted(st)
  <2>1. /\ st'.gen = st.gen /\ st'.reset = st.reset
        /\ st'.delivery = st.delivery /\ st'.projection = st.projection /\ st'.chk = st.chk
        /\ st'.journal = st.journal /\ st'.drafts = NoDrafts
        /\ \A t \in Turns : st'.bind[t] = IF st.bind[t] = "pending" THEN "none" ELSE st.bind[t]
    BY <1>0, <1>3, ClearedIs
  <2>2. \A t \in Turns : st'.drafts[t] = NoDraft
    BY <2>1 DEF NoDrafts
  <2>3. \A t \in Turns : st.bind[t] = "acked" => st'.bind[t] = "acked"
    BY <2>1
  <2> QED
    BY <1>0, <1>1, <2>1, <2>2, <2>3, OutboxDelivery
<1> QED
  BY <1>2, <1>3 DEF Unmanage


-----------------------------------------------------------------------------
(* A task that is retired, and the one that takes its place.               *)

LEMMA RetiredDelivery ==
    ASSUME UploadInv, DeliveryInv, ~Current, st' = Retired(st),
           UNCHANGED <<log, revision, commits, task, shown, injected, carried, unsure>>,
           op'.kind \in {"hook", "project"} => op'.step = "rebuild",
           op'.step # "save", hook' = hook \/ (hook'.at # "reply" /\ hook.at # "reply")
    PROVE  DeliveryInv'
<1>0. Typed /\ Placed /\ NoEchoAhead /\ CursorsTrue /\ InjectedInOrder
  BY DEF UploadInv, TypeOK, DeliveryInv
<1>1. /\ st'.gen = st.gen /\ st'.delivery = st.delivery /\ st'.projection = st.projection
      /\ st'.chk = NoPiece /\ st'.journal = NoPiece /\ st'.reset
      /\ \A t \in Turns : st'.drafts[t] = NoDraft
  BY RetiredClauses DEF NoDrafts
<1>2. Keeps
  BY <1>1, KeepsFrame
<1>3. OwnKnown'
  BY <1>1 DEF OwnKnown
<1>4. Promised' \subseteq Promised
  BY <1>1, HookGone
<1>5. NoEchoAhead'
  <2>1. \A p \in Promised' : Harmless(p)
    BY <1>0, <1>4, AllHarmless
  <2>2. \A t \in Turns : \A p \in st'.drafts[t].pieces : Harmless(p)
    BY <1>1 DEF NoDraft
  <2> QED
    BY <1>1, <1>2, <2>1, <2>2, EchoStep
<1>6. JournalTrue'
  BY <1>1 DEF JournalTrue
<1>7. InjectedInOrder'
  BY <1>0 DEF InjectedInOrder, Before
<1>8. CursorsTrue'
  <2>1. st.delivery \in Nat /\ st.projection \in Nat
    BY <1>0 DEF Typed, StateFile
  <2> QED
    BY <1>0, <1>1, <1>2, <2>1, CursorsKept
<1>9. DraftsTrue'
  BY <1>1 DEF DraftsTrue
<1> QED
  BY <1>3, <1>5, <1>6, <1>7, <1>8, <1>9 DEF DeliveryInv

\* An operation begins with a task that is up to date, or retires it.
LEMMA BeginDelivery ==
    ASSUME UploadInv, DeliveryInv, NEW kind, Beginning(kind), op.step # "ack",
           UNCHANGED <<log, revision, commits, task, shown, injected, carried, hook, unsure>>
    PROVE  DeliveryInv'
<1>1. CASE op'.step = "work" /\ Current /\ UNCHANGED st
  BY <1>1, CoreDelivery DEF Current
<1>2. CASE op'.step = "rebuild" /\ ~Current /\ st' = Retired(st)
  BY <1>2, RetiredDelivery
<1> QED
  BY <1>1, <1>2 DEF Beginning

LEMMA HookBeginsDelivery == ASSUME UploadInv, DeliveryInv, BeginHook PROVE DeliveryInv'
<1>0. Typed /\ op' = Ensuring("hook")
  BY DEF UploadInv, TypeOK, BeginHook
<1>1. Beginning("hook") /\ op.step # "ack"
  BY <1>0, EnsuringIs DEF BeginHook, Beginning, Ready, NoOp
<1> QED
  BY <1>1, BeginDelivery DEF BeginHook, server, native

LEMMA CycleDelivery ==
    ASSUME UploadInv, DeliveryInv, NEW kind \in {"sync", "project"}, BeginCycle(kind)
    PROVE  DeliveryInv'
<1>0. Typed /\ op' = Ensuring(kind)
  BY DEF UploadInv, TypeOK, BeginCycle
<1>1. Beginning(kind) /\ op.step # "ack"
  BY <1>0, EnsuringIs DEF BeginCycle, Beginning, Ready, NoOp
<1> QED
  BY <1>1, BeginDelivery DEF BeginCycle, server, native

LEMMA JobDelivery == ASSUME UploadInv, DeliveryInv, ClaimJob PROVE DeliveryInv'
<1>0. Typed /\ op = NoOp /\ NoOp.step = "none" /\ NoOp.kind = "none"
      /\ UNCHANGED <<log, revision, commits, task, shown, injected, carried, hook, unsure>>
  BY DEF UploadInv, TypeOK, ClaimJob, Ready, NoOp, server, native
<1>1. CASE ~(writer /\ job.status \in {"pending", "claimed"})
  BY <1>0, <1>1, CoreDelivery DEF ClaimJob
<1>2. CASE /\ writer /\ job.status \in {"pending", "claimed"} /\ job.kind = "upload"
  <2>1. Beginning("upload")
    BY <1>0, <1>2, EnsuringIs DEF ClaimJob, Beginning
  <2> QED
    BY <1>0, <2>1, BeginDelivery
<1>3. CASE /\ writer /\ job.status \in {"pending", "claimed"} /\ job.kind # "upload"
  <2>1. op' = [kind |-> "import", step |-> "work", rev |-> revision, text |-> Readable(job.through),
               upto |-> job.through, done |-> 0, size |-> 0, resumed |-> FALSE]
    BY <1>3 DEF ClaimJob, NoOp
  <2>2. op'.kind = "import" /\ op'.step = "work" /\ UNCHANGED st
    BY <1>3, <2>1 DEF ClaimJob
  <2> QED
    BY <1>0, <2>2, CoreDelivery
<1> QED
  BY <1>1, <1>2, <1>3

\* The new task holds the history it was built from, and nothing was typed there.
LEMMA RenewedDelivery ==
    ASSUME UploadInv, DeliveryInv, NEW rev, NEW upto, NEW text, Renewed(rev, upto, text),
           \A n \in 1..upto : log[n].gone \/ \A k \in Chunks(n) : <<n, k>> \in text,
           UNCHANGED <<log, task, hook, unsure>>, op'.step \notin {"ack", "save", "inject"}
    PROVE  DeliveryInv'
<1>0. Typed /\ Placed /\ HooksTold /\ LogTrue
  BY DEF UploadInv, TypeOK
<1>1. /\ st'.gen = st.gen + 1 /\ ~st'.reset /\ st'.chk = st.chk
      /\ st'.delivery = upto /\ st'.projection = upto /\ st'.journal = NoPiece
      /\ \A t \in Turns : st'.drafts[t] = NoDraft
      /\ shown' = text /\ injected' = <<>> /\ carried' = st.chk
      /\ text \subseteq Places /\ upto <= Len(log) /\ upto \in Nat
  BY DEF Renewed, NoDrafts
<1>2. \A t \in Turns : task[t].gen # st'.gen
  <2>1. st.gen \in Nat /\ \A t \in Turns : task[t].gen \in Nat /\ task[t].gen <= st.gen
    BY <1>0 DEF Typed, Placed, StateFile
  <2> QED
    BY <1>1, <2>1
<1>3. \A n \in DOMAIN log : ~Own(n)'
  BY <1>0, <1>2, EventsAre DEF Own
<1>4. OwnKnown'
  BY <1>3 DEF OwnKnown
<1>5. Range(injected') = {}
  BY <1>1 DEF Range
<1>6. Delivered' = text /\ Promised' = text
  <2>1. hook.at = "reply" => hook.turn \in Turns
    BY <1>0 DEF HooksTold, NoHook
  <2> QED
    BY <1>1, <1>2, <1>5, <2>1 DEF Promised, Delivered
<1>7. NoEchoAhead'
  <2>1. \A p \in Promised' : Foreign(p)'
    BY <1>1, <1>3, <1>6 DEF Foreign, Places
  <2>2. \A t \in Turns : \A p \in st'.drafts[t].pieces : Foreign(p)'
    BY <1>1 DEF NoDraft
  <2> QED
    BY <1>1, <2>1, <2>2 DEF NoEchoAhead
<1>8. JournalTrue'
  BY <1>1, <1>5 DEF JournalTrue
<1>9. InjectedInOrder'
  BY <1>1 DEF InjectedInOrder
<1>10. CursorsTrue'
  <2>1. \A n \in 1..upto : Given(n)'
    BY <1>6 DEF Given, Has, Chunks
  <2>2. StartGiven(st.chk)'
    <3>1. st.chk # NoPiece => st.chk[1] \in DOMAIN log
      BY <1>0 DEF Placed, Places
    <3>2. \A k : k < st.chk[2] => TakenOver(<<st.chk[1], k>>)'
      BY <1>1 DEF TakenOver
    <3> QED
      BY <1>1, <3>1, <3>2 DEF StartGiven, Has, Chunks, TakenOver, Delivered
  <2> QED
    BY <1>1, <2>1, <2>2 DEF CursorsTrue
<1>11. DraftsTrue'
  BY <1>1 DEF DraftsTrue
<1> QED
  BY <1>4, <1>7, <1>8, <1>9, <1>10, <1>11 DEF DeliveryInv

LEMMA RebuildDelivery == ASSUME UploadInv, DeliveryInv, Rebuild PROVE DeliveryInv'
<1>0. Typed /\ Placed /\ OpFresh /\ op \in Operation
  BY DEF UploadInv, TypeOK, Typed
<1>1. op.rev \in Nat /\ op.upto \in Nat
  BY <1>0 DEF Operation
<1>2. Renewed(op.rev, op.upto, op.text)
  BY <1>0, <1>1, ImportedIs DEF Rebuild, Renewed, Switch, Placed, OpFresh, Building
<1>3. \A n \in 1..op.upto : log[n].gone \/ \A k \in Chunks(n) : <<n, k>> \in op.text
  BY <1>0 DEF Rebuild, OpFresh, Building
<1>4. op'.step = "work" /\ UNCHANGED <<log, task, hook, unsure>>
  BY <1>0 DEF Rebuild, Operation, server
<1> QED
  BY <1>2, <1>3, <1>4, RenewedDelivery

LEMMA ImportDelivery == ASSUME UploadInv, DeliveryInv, Import PROVE DeliveryInv'
<1>0. Typed /\ Placed /\ OpFresh /\ op \in Operation /\ op.step = "work" /\ Working("import")
  BY DEF UploadInv, TypeOK, Typed, Import, Working
<1>1. CASE Importable(st) /\ op.rev >= st.rev
  <2>1. op.rev \in Nat /\ op.upto \in Nat
    BY <1>0 DEF Operation
  <2>2. Renewed(op.rev, op.upto, op.text)
    BY <1>0, <1>1, <2>1, ImportedIs DEF Import, Renewed, Switch, Placed, OpFresh, Building
  <2>3. \A n \in 1..op.upto : log[n].gone \/ \A k \in Chunks(n) : <<n, k>> \in op.text
    BY <1>0 DEF OpFresh, Building
  <2>4. op'.step = "report" /\ UNCHANGED <<log, task, hook, unsure>>
    BY <1>0, <1>1 DEF Import, Operation, server
  <2> QED
    BY <2>2, <2>3, <2>4, RenewedDelivery
<1>2. CASE ~(Importable(st) /\ op.rev >= st.rev)
  BY <1>0, <1>2, AbandonDelivery DEF Import, server, native
<1> QED
  BY <1>1, <1>2

LEMMA ManageDelivery == ASSUME UploadInv, DeliveryInv, Manage PROVE DeliveryInv'
<1>0. Typed /\ st \in StateFile /\ op.step = "none" /\ UNCHANGED <<log, task, hook, unsure, op>>
  BY DEF UploadInv, TypeOK, Typed, Manage, NoOp, server
<1>1. CASE ~Current /\ Importable(st)
  <2>1. Len(log) \in Nat
    BY <1>0, EventsAre
  <2>2. \A n \in 1..Len(log) : log[n].gone \/ \A k \in Chunks(n) : <<n, k>> \in Readable(Len(log))
    BY <1>0, <2>1, ReadableIs
  <2> QED
    BY <1>0, <1>1, <2>2, ManageRenews, RenewedDelivery
<1>2. CASE ~(~Current /\ Importable(st))
  <2>1. st' = [st EXCEPT !.listed = TRUE, !.auto = st.auto] /\ st.auto \in BOOLEAN
    BY <1>0, <1>2 DEF Manage, StateFile
  <2>2. UNCHANGED <<shown, injected, carried>>
    BY <1>2 DEF Manage, native
  <2> QED
    BY <1>0, <2>1, <2>2, FlagDelivery
<1> QED
  BY <1>1, <1>2

LEMMA AutoDelivery == ASSUME UploadInv, DeliveryInv, NEW b \in BOOLEAN, SetAuto(b) PROVE DeliveryInv'
<1>0. st \in StateFile /\ op.step = "none"
  BY DEF UploadInv, TypeOK, Typed, SetAuto, Ready, NoOp
<1>1. st' = [st EXCEPT !.listed = st.listed, !.auto = b] /\ st.listed \in BOOLEAN
  BY <1>0 DEF SetAuto, StateFile
<1> QED
  BY <1>0, <1>1, FlagDelivery DEF SetAuto, server, native


-----------------------------------------------------------------------------
(* Native projection.                                                      *)

\* Acknowledged is what the task has of its own; nothing else of its own may be injected.
LEMMA AckedOwn ==
    ASSUME UploadInv, NEW n \in DOMAIN log, Acked(n) PROVE Given(n)
<1>1. log[n].turn \in Turns /\ st.bind[log[n].turn] = "acked"
  BY EventsAre DEF UploadInv, TypeOK, Acked
<1> QED
  BY <1>1 DEF UploadInv, TurnsLive, Acked, Own, Given

LEMMA UnknownForeign ==
    ASSUME UploadInv, DeliveryInv, ~st.reset, op.step # "ack", NEW n \in DOMAIN log, ~Acked(n)
    PROVE  \A p : p[1] = n => Harmless(p)
<1>1. log \in Seq(Event) /\ LogTrue
  BY DEF UploadInv, TypeOK, Typed, Event
<1>2. log[n] \in Event
  BY <1>1
<1>3. log[n].kind \in Kind
  BY <1>2 DEF Event
<1>4. Own(n) /\ log[n].kind # "tool" /\ log[n].turn \notin unsure => FALSE
  BY <1>1, <1>3 DEF DeliveryInv, OwnKnown, Own, Acked, LogTrue, Kind
<1> QED
  BY <1>4 DEF Harmless, Foreign

\* The cursors and the journal move, and at most the journal's chunk is injected.
LEMMA CursorDelivery ==
    ASSUME UploadInv, DeliveryInv, Cursors, UNCHANGED <<log, task, shown, carried, hook, unsure>>,
           ~st.reset, op.step # "ack", InjectedInOrder', JournalTrue',
           Range(injected) \subseteq Range(injected'),
           \A p \in Range(injected') : p \in Range(injected) \/ Harmless(p),
           st'.journal # NoPiece => Harmless(st'.journal),
           \A n \in 1..st'.delivery : n <= st.delivery \/ n <= st.projection \/ (n \in DOMAIN log /\ Given(n)),
           \A n \in 1..st'.projection : n <= st.delivery \/ n <= st.projection \/ (n \in DOMAIN log /\ Given(n))
    PROVE  DeliveryInv'
<1>0. Typed /\ Placed /\ OwnKnown /\ NoEchoAhead /\ CursorsTrue /\ DraftsTrue
  BY DEF UploadInv, TypeOK, DeliveryInv
<1>1. /\ st'.gen = st.gen /\ st'.reset = st.reset /\ st'.drafts = st.drafts /\ st'.bind = st.bind
      /\ st'.pending = st.pending /\ st'.chk \in {st.chk, NoPiece}
      /\ st'.delivery \in Nat /\ st'.projection \in Nat
  BY DEF Cursors, StateFile
<1>2. Delivered \subseteq Delivered'
  BY DEF Delivered
<1>3. Keeps
  BY <1>1, <1>2 DEF Keeps, Own
<1>4. OwnKnown'
  BY <1>0, <1>1, <1>3, OwnStep
<1>5. NoEchoAhead'
  <2>1. \A p \in Promised : Harmless(p)
    BY <1>0, AllHarmless
  <2>2. \A p \in Promised' : p \in Promised \/ Harmless(p)
    BY <1>1 DEF Promised, Delivered
  <2>3. \A t \in Turns : \A p \in st'.drafts[t].pieces : Harmless(p)
    BY <1>0, <1>1, AllHarmless
  <2> QED
    BY <1>1, <1>3, <2>1, <2>2, <2>3, EchoStep
<1>6. CursorsTrue'
  BY <1>0, <1>1, <1>3, CursorsKept
<1>7. DraftsTrue'
  <2> SUFFICES ASSUME NEW t \in Turns, st'.drafts[t] # NoDraft
               PROVE  DraftGiven(t)' /\ OnItsWay(t)'
    BY DEF DraftsTrue
  <2>1. DraftGiven(t) /\ OnItsWay(t)
    BY <1>0, <1>1 DEF DraftsTrue
  <2>2. OnItsWay(t)'
    BY <1>1, <1>2, <2>1 DEF OnItsWay
  <2> QED
    BY <1>0, <1>1, <1>3, <2>1, <2>2, DraftKept
<1> QED
  BY <1>4, <1>5, <1>6, <1>7 DEF DeliveryInv

\* The cursors move on to a position, all events up to which the task has.
LEMMA MovedDelivery ==
    ASSUME UploadInv, DeliveryInv, ~st.reset, op.step # "ack",
           UNCHANGED <<log, revision, task, shown, injected, carried, hook, unsure>>,
           op'.step \notin {"inject", "save"}, NEW n \in Nat, n <= Len(log), st' = MovedTo(st, n),
           \A m \in 1..n : m <= st.projection \/ Given(m)
    PROVE  DeliveryInv'
<1>0. Typed /\ Placed /\ StateFresh /\ NoEchoAhead /\ JournalTrue /\ InjectedInOrder /\ st \in StateFile
  BY DEF UploadInv, TypeOK, DeliveryInv, Typed
<1>1. st' = [MovedTo(st, n) EXCEPT !.journal = st.journal]
  BY <1>0 DEF MovedTo, StateFile
<1>2. /\ Cursors /\ st'.projection = Larger(st.projection, n)
      /\ st'.delivery = Larger(st.delivery, st'.projection) /\ st'.journal = st.journal
  BY <1>0, <1>1, MovedIs
<1>3. /\ st.projection \in Nat /\ st'.projection \in Nat /\ st.delivery \in Nat /\ st'.delivery \in Nat
      /\ st.projection <= st'.projection /\ DOMAIN log = 1..Len(log) /\ Len(log) \in Nat
  BY <1>0, <1>2, EventsAre DEF Cursors, StateFile
<1>4. \A m \in Nat : m <= st'.projection => m <= st.projection \/ m <= n
  BY <1>2, <1>3 DEF Larger
<1>5. \A m \in Nat : m <= st'.delivery => m <= st.delivery \/ m <= st'.projection
  BY <1>2, <1>3 DEF Larger
<1>6. \A m \in 1..st'.projection : m <= st.projection \/ (m \in DOMAIN log /\ Given(m))
  BY <1>3, <1>4
<1>7. \A m \in 1..st'.delivery : m <= st.delivery \/ m <= st.projection \/ (m \in DOMAIN log /\ Given(m))
  BY <1>3, <1>5, <1>6
<1>8. Keeps
  BY <1>2, KeepsFrame DEF Cursors
<1>9. JournalTrue'
  BY <1>0, <1>2, <1>3, <1>8, JournalStep DEF Cursors
<1>10. InjectedInOrder'
  BY <1>0 DEF InjectedInOrder, Before
<1>11. st'.journal # NoPiece => Harmless(st'.journal)
  BY <1>0, <1>2, AllHarmless
<1> QED
  BY <1>2, <1>6, <1>7, <1>9, <1>10, <1>11, CursorDelivery

LEMMA ProjectDelivery == ASSUME UploadInv, DeliveryInv, Project PROVE DeliveryInv'
<1>0. /\ Typed /\ Placed /\ NoEchoAhead /\ op.kind = "project" /\ op.step = "work" /\ op \in Operation
      /\ st \in StateFile
  BY DEF UploadInv, TypeOK, Project, Working, Typed, DeliveryInv
<1>1. /\ UNCHANGED <<log, revision, commits, task, shown, injected, carried, unsure>> /\ ~st.reset
      /\ NoOp.kind = "none" /\ NoOp.step = "none" /\ Len(log) \in Nat /\ DOMAIN log = 1..Len(log)
  BY <1>0, EventsAre DEF Project, server, native, NoEchoAhead, NoOp
<1>2. CASE revision # st.rev
  <2>1. op' = NoOp /\ hook' = hook /\ st' = Retired(st)
    BY <1>0, <1>2 DEF Project, Abandon
  <2> QED
    BY <1>1, <1>2, <2>1, RetiredDelivery DEF Current
<1>3. CASE revision = st.rev /\ NothingToInject /\ ~JournalAbsent
  <2>1. op' = NoOp /\ hook' = hook /\ st' = MovedTo(st, Len(log))
    BY <1>0, <1>3 DEF Project, Injectable, Abandon
  <2>2. st.projection \in Nat
    BY <1>0 DEF StateFile
  <2>3. \A m \in 1..Len(log) : m <= st.projection \/ Acked(m)
    BY <1>1, <1>3, <2>2 DEF NothingToInject
  <2>4. \A m \in 1..Len(log) : m <= st.projection \/ Given(m)
    BY <1>1, <2>3, AckedOwn
  <2> QED
    BY <1>0, <1>1, <2>1, <2>4, MovedDelivery
<1>4. CASE revision = st.rev /\ ~(NothingToInject /\ ~JournalAbsent) /\ ~Injectable
  <2>1. Abandon /\ UNCHANGED st
    BY <1>4 DEF Project, Injectable
  <2> QED
    BY <1>0, <1>1, <2>1, AbandonDelivery
<1>5. CASE revision = st.rev /\ Injectable
  <2>1. /\ op' = [op EXCEPT !.step = "inject", !.upto = Len(log), !.resumed = st.journal # NoPiece]
        /\ UNCHANGED <<st, hook>>
    BY <1>5 DEF Project, Injectable
  <2>2. op'.step = "inject" /\ (~op'.resumed => st.journal = NoPiece)
    <3> DEFINE b == st.journal # NoPiece
    <3>1. op' = [op EXCEPT !.step = "inject", !.upto = Len(log), !.resumed = b]
      BY <2>1
    <3>2. ~b => st.journal = NoPiece
      OBVIOUS
    <3> HIDE DEF b
    <3>3. op'.step = "inject" /\ op'.resumed = b
      BY <1>0, <3>1 DEF Operation
    <3> QED
      BY <3>2, <3>3
  <2> QED
    BY <1>0, <1>1, <2>1, <2>2, CoreDelivery
<1> QED
  BY <1>2, <1>3, <1>4, <1>5


\* What is injected comes after everything injected before.
LEMMA AppendOrder ==
    ASSUME NEW q, q \in Seq(Piece), NEW j \in Piece, \A i, k \in DOMAIN q : i < k => Before(q[i], q[k]),
           \A p \in Range(q) : Before(p, j)
    PROVE  /\ \A i, k \in DOMAIN Append(q, j) : i < k => Before(Append(q, j)[i], Append(q, j)[k])
           /\ Range(Append(q, j)) = Range(q) \cup {j}
<1> DEFINE r == Append(q, j)
<1>1. /\ DOMAIN r = 1..(Len(q) + 1) /\ DOMAIN q = 1..Len(q) /\ Len(q) \in Nat
      /\ r[Len(q) + 1] = j /\ \A i \in 1..Len(q) : r[i] = q[i]
  OBVIOUS
<1> HIDE DEF r
<1>2. Range(r) = Range(q) \cup {j}
  <2>1. \A i \in DOMAIN r : r[i] = j \/ \E k \in DOMAIN q : r[i] = q[k]
    BY <1>1
  <2>2. \A k \in DOMAIN q : k \in DOMAIN r /\ r[k] = q[k]
    BY <1>1
  <2>3. j \in Range(r)
    BY <1>1 DEF Range
  <2> QED
    BY <2>1, <2>2, <2>3 DEF Range
<1>3. ASSUME NEW i \in DOMAIN r, NEW k \in DOMAIN r, i < k PROVE Before(r[i], r[k])
  <2>1. i \in DOMAIN q /\ r[i] = q[i]
    BY <1>1, <1>3
  <2>2. CASE k \in DOMAIN q
    BY <1>1, <1>3, <2>1, <2>2
  <2>3. CASE k = Len(q) + 1
    <3>1. q[i] \in Range(q)
      BY <2>1 DEF Range
    <3> QED
      BY <1>1, <2>1, <2>3, <3>1
  <2> QED
    BY <1>1, <2>2, <2>3
<1> QED
  BY <1>2, <1>3 DEF r

LEMMA InjectDelivery == ASSUME UploadInv, DeliveryInv, Inject PROVE DeliveryInv'
<1>0. /\ Typed /\ Placed /\ StateFresh /\ OpShape /\ op.kind = "project" /\ op.step = "inject"
      /\ op \in Operation /\ st \in StateFile /\ NoEchoAhead /\ JournalTrue /\ InjectedInOrder
  BY DEF UploadInv, TypeOK, Inject, OpShape, Typed, DeliveryInv
<1> DEFINE n == st.projection + 1
<1>1. /\ op.upto \in Nat /\ op.upto <= Len(log) /\ Len(log) \in Nat /\ st.projection \in Nat
      /\ st.delivery \in Nat /\ st.projection <= Len(log) /\ st.delivery <= Len(log)
      /\ DOMAIN log = 1..Len(log) /\ DOMAIN log \subseteq Nat /\ ~st.reset
      /\ Range(injected) \subseteq Places /\ \A p \in Places : p[1] \in Nat
  <2>1. DOMAIN log = 1..Len(log) /\ Len(log) \in Nat /\ DOMAIN log \subseteq Nat
    BY <1>0, EventsAre
  <2> QED
    BY <1>0, <2>1 DEF Operation, Placed, Places, StateFile, NoEchoAhead
<1>2. UNCHANGED <<log, revision, task, shown, carried, unsure>>
  BY DEF Inject, server
<1>3. CASE n > op.upto
  <2>1. Abandon /\ st' = MovedTo(st, op.upto) /\ UNCHANGED injected
    BY <1>1, <1>3 DEF Inject
  <2>2. op'.step = "none" /\ hook' = hook
    BY <1>0, <2>1 DEF Abandon, NoOp
  <2>3. \A m \in 1..op.upto : m <= st.projection
    BY <1>1, <1>3
  <2> QED
    BY <1>0, <1>1, <1>2, <2>1, <2>2, <2>3, MovedDelivery
<1>4. CASE n <= op.upto /\ Acked(n)
  <2>1. /\ st' = [st EXCEPT !.projection = n, !.delivery = Larger(st.delivery, n)]
        /\ UNCHANGED <<injected, op, hook>>
    BY <1>1, <1>4 DEF Inject
  <2> DEFINE b == Larger(st.delivery, n)
  <2>2. n \in Nat /\ b \in Nat /\ st.projection <= n /\ n <= Len(log) /\ st.delivery <= b /\ b <= Len(log)
    BY <1>1, <1>4 DEF Larger
  <2>3. \A m \in Nat : (m <= n => m <= st.projection \/ m = n) /\ (m <= b => m <= st.delivery \/ m <= n)
    BY <1>1 DEF Larger
  <2>4. n \in DOMAIN log /\ Given(n)
    <3>1. n \in DOMAIN log
      BY <1>1, <1>4
    <3> HIDE DEF n
    <3> QED
      BY <1>4, <3>1, AckedOwn
  <2> HIDE DEF n, b
  <2>5. /\ st' \in StateFile /\ st'.gen = st.gen /\ st'.rev = st.rev /\ st'.reset = st.reset
        /\ st'.drafts = st.drafts /\ st'.bind = st.bind /\ st'.pending = st.pending
        /\ st'.delivery = b /\ st'.projection = n /\ st'.chk = st.chk /\ st'.journal = st.journal
    BY <1>0, <2>1, <2>2 DEF StateFile, b
  <2>6. Cursors
    BY <1>0, <1>2, <2>2, <2>5 DEF Cursors, Placed, StateFresh
  <2>7. Keeps
    BY <1>2, <2>1, <2>5, KeepsFrame
  <2>8. JournalTrue'
    BY <1>0, <2>1, <2>2, <2>5, <2>7, JournalStep
  <2>9. InjectedInOrder'
    BY <1>0, <2>1 DEF InjectedInOrder, Before
  <2>10. st'.journal # NoPiece => Harmless(st'.journal)
    BY <1>0, <2>5, AllHarmless
  <2>11. \A m \in Nat : m <= st'.delivery \/ m <= st'.projection =>
           m <= st.delivery \/ m <= st.projection \/ m = n
    BY <2>3, <2>5
  <2> QED
    BY <1>0, <1>1, <1>2, <2>1, <2>4, <2>6, <2>8, <2>9, <2>10, <2>11, CursorDelivery
<1>5. CASE n <= op.upto /\ ~Acked(n) /\ st.journal = NoPiece
  <2> DEFINE j == <<n, 1>>
  <2>1. /\ st' = [st EXCEPT !.journal = j]
        /\ UNCHANGED <<injected, op, hook>>
    BY <1>1, <1>5 DEF Inject
  <2>2. n \in Nat /\ n \in DOMAIN log /\ n > st.projection /\ n <= st.projection + 1
    BY <1>1, <1>5
  <2>3. j \in Piece /\ j \in Places /\ j # NoPiece /\ j[1] = n /\ j[2] = 1
    BY <2>2 DEF Piece, Places, NoPiece
  <2>4. st.rev = revision => ~log[n].gone
    BY <1>0, <1>1, <2>2 DEF StateFresh
  <2>5. Harmless(j)
    <3> HIDE DEF n
    <3> QED
      BY <1>0, <1>1, <1>5, <2>2, UnknownForeign
  <2>6. 1 \in Chunks(n) /\ \A k \in Chunks(n) : ~(k < 1)
    BY ChunksAre
  <2>7. \A p \in Range(injected) : p[1] <= st.projection
    BY <1>0, <1>1, <1>5 DEF JournalTrue
  <2>8. \A p \in Range(injected) : Before(p, j) /\ p # j
    BY <1>1, <2>2, <2>3, <2>7 DEF Before
  <2> HIDE DEF n, j
  <2>9. /\ st' \in StateFile /\ st'.gen = st.gen /\ st'.rev = st.rev /\ st'.reset = st.reset
        /\ st'.drafts = st.drafts /\ st'.bind = st.bind /\ st'.pending = st.pending
        /\ st'.delivery = st.delivery /\ st'.projection = st.projection /\ st'.chk = st.chk
        /\ st'.journal = j
    BY <1>0, <2>1, <2>3 DEF StateFile
  <2>10. Cursors
    BY <1>1, <1>2, <2>3, <2>4, <2>9 DEF Cursors
  <2>11. JournalNext'
    <3>1. \A m : Chunks(m)' = Chunks(m)
      BY <1>2 DEF Chunks
    <3>2. \A m : m = n => 1 \in Chunks(m)' /\ \A k \in Chunks(m)' : ~(k < 1)
      BY <2>6, <3>1
    <3> QED
      BY <1>2, <2>1, <2>2, <2>3, <2>8, <2>9, <3>2 DEF JournalNext, Before, Chunks
  <2>12. JournalTrue'
    BY <1>0, <2>1, <2>3, <2>9, <2>11 DEF JournalTrue
  <2>13. InjectedInOrder'
    BY <1>0, <2>1 DEF InjectedInOrder, Before
  <2>14. \A m \in Nat : (m <= st'.delivery => m <= st.delivery) /\ (m <= st'.projection => m <= st.projection)
    BY <2>9
  <2> QED
    BY <1>0, <1>1, <1>2, <2>1, <2>3, <2>5, <2>9, <2>10, <2>12, <2>13, <2>14, CursorDelivery
<1>6. CASE n <= op.upto /\ ~Acked(n) /\ st.journal # NoPiece /\ st.journal[1] = n
  <2> DEFINE j == st.journal
  <2>1. /\ injected' = IF NeedsInjection(j) THEN Append(injected, j) ELSE injected
        /\ op' = [op EXCEPT !.step = "save"] /\ UNCHANGED <<st, hook>>
    BY <1>1, <1>6 DEF Inject
  <2>2. op'.step = "save"
    BY <1>0, <2>1 DEF Operation
  <2>3. JournalNext /\ j \in Piece /\ injected \in Seq(Piece) /\ Harmless(j)
    BY <1>0, <1>6, AllHarmless DEF JournalTrue, StateFile, Typed
  <2>4. /\ \A p \in Range(injected) : p = j \/ Before(p, j)
        /\ ~op.resumed => j \notin Range(injected)
        /\ j[1] \in DOMAIN log /\ j[1] <= st.projection + 1 /\ j[2] \in Chunks(j[1])
        /\ \A k \in Chunks(j[1]) : k < j[2] => <<j[1], k>> \in Delivered
    BY <1>0, <2>3 DEF JournalNext
  <2> HIDE DEF j
  <2>5. InjectedInOrder' /\ Range(injected') = Range(injected) \cup {j}
    <3>1. CASE NeedsInjection(j)
      <4>1. injected' = Append(injected, j) /\ j \notin Range(injected)
        BY <2>1, <2>4, <3>1 DEF NeedsInjection
      <4>2. \A p \in Range(injected) : Before(p, j)
        BY <2>4, <4>1
      <4>3. \A i, k \in DOMAIN injected : i < k => Before(injected[i], injected[k])
        BY <1>0 DEF InjectedInOrder
      <4>4. /\ \A i, k \in DOMAIN injected' : i < k => Before(injected'[i], injected'[k])
            /\ Range(injected') = Range(injected) \cup {j}
        BY <2>3, <4>1, <4>2, <4>3, AppendOrder
      <4> QED
        BY <4>4 DEF InjectedInOrder, Before
    <3>2. CASE ~NeedsInjection(j)
      <4>1. injected' = injected /\ j \in Range(injected)
        BY <2>1, <3>2 DEF NeedsInjection
      <4> QED
        BY <1>0, <4>1 DEF InjectedInOrder, Before
    <3> QED
      BY <3>1, <3>2
  <2>6. JournalNext'
    <3>1. Delivered \subseteq Delivered'
      BY <1>2, <2>5 DEF Delivered
    <3>2. \A m : Chunks(m)' = Chunks(m)
      BY <1>2 DEF Chunks
    <3>3. st'.journal = j /\ st'.projection = st.projection /\ log' = log
      BY <1>2, <2>1 DEF j
    <3>4. \A m : m = j[1] => j[2] \in Chunks(m)' /\ \A k \in Chunks(m)' : k < j[2] => <<m, k>> \in Delivered'
      BY <2>4, <3>1, <3>2
    <3>5. \A p \in Range(injected') : p = j \/ Before(p, j)
      BY <2>4, <2>5
    <3> QED
      BY <2>2, <2>4, <3>3, <3>4, <3>5 DEF JournalNext, Before, Chunks
  <2>7. JournalTrue'
    BY <1>6, <2>1, <2>5, <2>6 DEF JournalTrue, j
  <2>8. Cursors
    BY <1>0, <1>1, <1>2, <2>1 DEF Cursors, Placed, StateFresh
  <2>9. st'.delivery = st.delivery /\ st'.projection = st.projection /\ st'.journal = j
    BY <2>1 DEF j
  <2>10. \A m \in Nat : (m <= st'.delivery => m <= st.delivery) /\ (m <= st'.projection => m <= st.projection)
    BY <2>9
  <2> QED
    BY <1>0, <1>1, <1>2, <2>1, <2>3, <2>5, <2>7, <2>8, <2>9, <2>10, CursorDelivery
<1>7. CASE n <= op.upto /\ ~Acked(n) /\ st.journal # NoPiece /\ st.journal[1] # n
  <2>1. Abandon /\ UNCHANGED <<injected, st>>
    BY <1>1, <1>7 DEF Inject
  <2> QED
    BY <1>0, <1>1, <1>2, <2>1, AbandonDelivery
<1> QED
  BY <1>1, <1>3, <1>4, <1>5, <1>6, <1>7

LEMMA SaveDelivery == ASSUME UploadInv, DeliveryInv, SaveInjected PROVE DeliveryInv'
<1>0. /\ Typed /\ Placed /\ StateFresh /\ op.kind = "project" /\ op.step = "save"
      /\ op \in Operation /\ st \in StateFile /\ st.journal # NoPiece /\ st.journal \in Places
      /\ NoEchoAhead /\ JournalTrue /\ JournalNext /\ InjectedInOrder /\ ~st.reset
  BY DEF UploadInv, TypeOK, SaveInjected, OpShape, Typed, Placed, DeliveryInv, NoEchoAhead, JournalTrue
<1> DEFINE p == st.journal
<1>1. /\ UNCHANGED <<log, revision, task, shown, injected, carried, hook, unsure>>
      /\ op' = [op EXCEPT !.step = "inject"]
  BY DEF SaveInjected, server, native
<1>2. op'.step = "inject"
  BY <1>0, <1>1 DEF Operation
<1>3. /\ p[1] \in DOMAIN log /\ p[1] \in Nat /\ p[1] <= Len(log) /\ p[2] \in {1, 2}
      /\ DOMAIN log = 1..Len(log) /\ Len(log) \in Nat
      /\ st.projection \in Nat /\ st.delivery \in Nat
      /\ p[1] <= st.projection + 1 /\ p[2] \in Chunks(p[1])
      /\ \A k \in Chunks(p[1]) : k < p[2] => <<p[1], k>> \in Delivered
      /\ \A q \in Range(injected) : q = p \/ Before(q, p)
      /\ \A q \in Range(injected) : q \in Places
  <2>1. DOMAIN log = 1..Len(log) /\ Len(log) \in Nat /\ DOMAIN log \subseteq Nat
    BY <1>0, EventsAre
  <2> QED
    BY <1>0, <2>1 DEF Places, JournalNext, StateFile, Placed
<1>4. p \in Delivered /\ p = <<p[1], p[2]>>
  BY <1>0 DEF JournalTrue, Delivered, Places
<1>5. Harmless(p)
  BY <1>0, AllHarmless
<1>6. InjectedInOrder'
  BY <1>0, <1>1 DEF InjectedInOrder, Before
<1>7. CASE p[2] < Cardinality(Chunks(p[1]))
  <2> DEFINE j == <<p[1], p[2] + 1>>
  <2>1. st' = [st EXCEPT !.journal = j]
    BY <1>7 DEF SaveInjected
  <2>2. p[2] = 1 /\ p[2] + 1 = 2 /\ 2 \in Chunks(p[1]) /\ Chunks(p[1]) \subseteq {1, 2}
    <3> DEFINE c == Chunks(p[1])
    <3>1. c \in {{1}, {1, 2}} /\ Cardinality(c) \in {1, 2} /\ Cardinality({1}) = 1
      BY ChunksAre, FS_Singleton
    <3>2. p[2] < Cardinality(c) /\ p[2] \in {1, 2}
      BY <1>3, <1>7
    <3> HIDE DEF c, p
    <3>3. p[2] = 1 /\ Cardinality(c) = 2
      BY <3>1, <3>2
    <3> QED
      BY <3>1, <3>3 DEF c
  <2>3. j \in Piece /\ j \in Places /\ j[1] = p[1] /\ j[2] = 2 /\ j # NoPiece
    BY <1>3, <2>2 DEF Piece, Places, NoPiece
  <2> HIDE DEF j, p
  <2>4. /\ st' \in StateFile /\ st'.gen = st.gen /\ st'.rev = st.rev /\ st'.reset = st.reset
        /\ st'.drafts = st.drafts /\ st'.bind = st.bind /\ st'.pending = st.pending
        /\ st'.delivery = st.delivery /\ st'.projection = st.projection /\ st'.chk = st.chk
        /\ st'.journal = j
    BY <1>0, <2>1, <2>3 DEF StateFile
  <2>5. st.delivery <= st.delivery /\ st.projection <= st.projection
    BY <1>3
  <2>6. Cursors
    <3>1. st.rev = revision => ~log[j[1]].gone
      BY <1>0, <2>3 DEF StateFresh, p
    <3> QED
      BY <1>0, <1>1, <2>3, <2>4, <2>5, <3>1 DEF Cursors, Placed
  <2>7. Harmless(j)
    BY <1>5, <2>3 DEF Harmless, Foreign
  <2>8. \A q \in Range(injected) : Before(q, j) /\ q # j
    <3>1. \A q \in Range(injected) : q[1] \in Nat /\ q[2] \in {1, 2}
      BY <1>3 DEF Places
    <3>2. \A q \in Range(injected) : Before(q, j)
      BY <1>3, <2>2, <2>3, <3>1 DEF Before
    <3> QED
      BY <1>3, <2>3, <3>1, <3>2 DEF Before
  <2>9. JournalNext'
    <3>1. \A m : m = p[1] => 2 \in Chunks(m)' /\ \A k \in Chunks(m)' : k < 2 => <<m, k>> \in Delivered'
      <4>1. Delivered' = Delivered
        BY <1>1 DEF Delivered
      <4>2. \A m : Chunks(m)' = Chunks(m)
        BY <1>1 DEF Chunks
      <4>3. \A k \in Chunks(p[1]) : k < 2 => <<p[1], k>> \in Delivered
        BY <1>4, <2>2
      <4> QED
        BY <2>2, <4>1, <4>2, <4>3
    <3> QED
      BY <1>1, <1>3, <2>3, <2>4, <2>8, <3>1 DEF JournalNext, Before, Chunks
  <2>10. JournalTrue'
    BY <1>2, <2>3, <2>4, <2>9 DEF JournalTrue
  <2>11. \A m \in Nat : (m <= st'.delivery => m <= st.delivery) /\ (m <= st'.projection => m <= st.projection)
    BY <2>4
  <2> QED
    BY <1>0, <1>1, <1>6, <2>4, <2>6, <2>7, <2>10, <2>11, CursorDelivery
<1>8. CASE ~(p[2] < Cardinality(Chunks(p[1])))
  <2>1. st' = [MovedTo(st, p[1]) EXCEPT !.journal = NoPiece]
    BY <1>8 DEF SaveInjected
  <2>2. /\ Cursors /\ st'.projection = Larger(st.projection, p[1])
        /\ st'.delivery = Larger(st.delivery, st'.projection) /\ st'.journal = NoPiece
    BY <1>0, <1>1, <1>3, <2>1, MovedIs
  <2>3. Given(p[1])
    <3>1. \A k \in Chunks(p[1]) : k = p[2] \/ k < p[2]
      BY <1>3, <1>8, ChunksAre
    <3> HIDE DEF p
    <3>2. \A k \in Chunks(p[1]) : <<p[1], k>> \in Delivered
      BY <1>3, <1>4, <3>1
    <3> QED
      BY <3>2 DEF Given, Has
  <2> HIDE DEF p
  <2>4. \A m \in Nat : m <= st'.projection => m <= st.projection \/ m = p[1]
    BY <1>3, <2>2 DEF Larger
  <2>5. \A m \in Nat : m <= st'.delivery => m <= st.delivery \/ m <= st'.projection
    BY <1>3, <2>2 DEF Larger
  <2>6. JournalTrue'
    <3>1. p[1] <= st'.projection /\ st'.projection \in Nat
      BY <1>3, <2>2 DEF Larger
    <3>2. \A q \in Range(injected) : q[1] \in Nat /\ q[1] <= p[1]
      BY <1>3 DEF Before, Places
    <3>3. \A q \in Range(injected') : q[1] <= st'.projection
      BY <1>1, <1>3, <3>1, <3>2
    <3> QED
      BY <1>2, <2>2, <3>3 DEF JournalTrue
  <2>7. /\ \A m \in 1..st'.projection : m <= st.projection \/ (m \in DOMAIN log /\ Given(m))
        /\ \A m \in 1..st'.delivery : m <= st.delivery \/ m <= st.projection \/ (m \in DOMAIN log /\ Given(m))
    BY <1>3, <2>3, <2>4, <2>5
  <2> QED
    BY <1>0, <1>1, <1>6, <2>2, <2>6, <2>7, CursorDelivery
<1> QED
  BY <1>7, <1>8


-----------------------------------------------------------------------------
(* Hooks.                                                                  *)

\* A plan that passes nothing over, given its capsule, and puts nothing of the task's own
\* into it.
Covers(c) ==
  /\ \A n \in 1..c.through :
       Own(n) \/ log[n].gone \/ \A k \in Chunks(n) : Has(<<n, k>>) \/ <<n, k>> \in c.pieces
  /\ c.chk # NoPiece => /\ c.chk[1] \in DOMAIN log
                        /\ \A k \in Chunks(c.chk[1]) :
                             k < c.chk[2] => Has(<<c.chk[1], k>>) \/ <<c.chk[1], k>> \in c.pieces
  /\ \A p \in c.pieces : Harmless(p)

LEMMA QueueCovers ==
    ASSUME UploadInv, DeliveryInv, NEW n \in DOMAIN log, n > st.delivery, ~Acked(n),
           NEW k \in Chunks(n)
    PROVE  Has(<<n, k>>) \/ <<n, k>> \in Queue
<1>0. Typed /\ Placed /\ CursorsTrue /\ st \in StateFile
  BY DEF UploadInv, TypeOK, DeliveryInv, Typed
<1>1. /\ DOMAIN log = 1..Len(log) /\ Len(log) \in Nat /\ st.delivery \in Nat /\ n \in Nat \ {0}
      /\ st.chk[2] \in Nat /\ k \in {1, 2}
  <2>1. DOMAIN log = 1..Len(log) /\ Len(log) \in Nat
    BY <1>0, EventsAre
  <2>2. st.chk \in Piece /\ st.delivery \in Nat
    BY <1>0 DEF StateFile
  <2> QED
    BY <2>1, <2>2, ChunksAre DEF Piece
<1>2. n \in (st.delivery + 1)..Len(log)
  BY <1>1
<1> DEFINE p == <<n, k>>
<1>3. p \in UNION {{m} \X Chunks(m) : m \in (st.delivery + 1)..Len(log)} /\ p[1] = n /\ p[2] = k
  BY <1>2
<1>4. CASE n = st.chk[1] => k >= st.chk[2]
  BY <1>3, <1>4 DEF Queue
<1>5. CASE n = st.chk[1] /\ k < st.chk[2]
  <2>1. st.chk # NoPiece
    BY <1>1, <1>5 DEF NoPiece
  <2>2. \A i \in Chunks(st.chk[1]) : i < st.chk[2] => Has(<<st.chk[1], i>>)
    BY <1>0, <2>1 DEF CursorsTrue, StartGiven
  <2> QED
    BY <1>5, <2>2
<1> QED
  BY <1>1, <1>4, <1>5

LEMMA CapsuleCovers ==
    ASSUME UploadInv, DeliveryInv, ~st.reset, op.step # "ack"
    PROVE  Covers(Capsule)
<1>0. Typed /\ Placed /\ CursorsTrue /\ st.delivery \in Nat
  BY DEF UploadInv, TypeOK, DeliveryInv, Typed, StateFile
<1>1. DOMAIN log = 1..Len(log) /\ Len(log) \in Nat
  BY <1>0, EventsAre
<1>2. \A p \in Queue : p \in Places /\ p[1] \in DOMAIN log /\ ~Acked(p[1]) /\ p[1] > st.delivery
  BY <1>0, QueueIs DEF Places, Queue
<1>3. \A p \in Queue : Harmless(p)
  BY <1>2, UnknownForeign
<1>4. ASSUME NEW n \in DOMAIN log
      PROVE  Own(n) \/ log[n].gone \/ \A k \in Chunks(n) : Has(<<n, k>>) \/ <<n, k>> \in Queue
  <2>1. CASE n <= st.delivery
    <3>1. n \in 1..st.delivery
      BY <1>0, <1>1, <2>1
    <3> QED
      BY <1>0, <3>1 DEF CursorsTrue, Given
  <2>2. CASE n > st.delivery /\ Acked(n)
    BY <2>2, AckedOwn DEF Given
  <2>3. CASE n > st.delivery /\ ~Acked(n)
    BY <2>3, QueueCovers
  <2> QED
    BY <1>0, <1>1, <2>1, <2>2, <2>3
<1>5. CASE Fitting = Queue
  <2>1. Capsule.pieces = Queue /\ Capsule.through = Len(log) /\ Capsule.chk = NoPiece
    BY <1>5 DEF Capsule, Whole
  <2> QED
    BY <1>1, <1>3, <1>4, <2>1 DEF Covers
<1>6. CASE Fitting # Queue
  <2> DEFINE c == NextChunk
  <2>1. /\ c \in Queue /\ c \in Places /\ c[1] \in DOMAIN log /\ c[1] \in Nat /\ c[1] > st.delivery
        /\ ~Acked(c[1]) /\ \A q \in Queue : Before(q, c) => q \in Fitting
    BY <1>0, <1>1, <1>2, <1>6, NextIs
  <2>2. /\ Capsule.pieces = Fitting /\ Capsule.through = c[1] - 1
        /\ Capsule.chk \in {c, NoPiece}
    BY <1>6 DEF Capsule
  <2>3. \A p \in Fitting : Harmless(p)
    BY <1>3 DEF Fitting
  <2> HIDE DEF c
  <2>4. ASSUME NEW n \in 1..(c[1] - 1)
        PROVE  Own(n) \/ log[n].gone \/ \A k \in Chunks(n) : Has(<<n, k>>) \/ <<n, k>> \in Fitting
    <3>1. n \in DOMAIN log /\ n < c[1]
      BY <1>1, <2>1
    <3>2. \A k : Before(<<n, k>>, c)
      BY <3>1 DEF Before
    <3> QED
      BY <1>4, <2>1, <3>1, <3>2
  <2>5. ASSUME NEW k \in Chunks(c[1]), k < c[2]
        PROVE  Has(<<c[1], k>>) \/ <<c[1], k>> \in Fitting
    <3>1. Before(<<c[1], k>>, c)
      BY <2>5 DEF Before
    <3>2. Has(<<c[1], k>>) \/ <<c[1], k>> \in Queue
      BY <2>1, QueueCovers
    <3> QED
      BY <2>1, <3>1, <3>2
  <2> QED
    BY <2>1, <2>2, <2>3, <2>4, <2>5 DEF Covers
<1> QED
  BY <1>5, <1>6

LEMMA NothingCovers == Covers(NoCapsule)
BY DEF Covers, NoCapsule

\* A draft that is promoted takes its cursor with it: the capsule has arrived.
LEMMA PromotedCursors ==
    ASSUME UploadInv, DeliveryInv, NEW t \in Turns, st.drafts[t] # NoDraft, hook.turn # t \/ hook.at # "reply",
           UNCHANGED <<log, shown, injected, carried, task>>, st'.gen = st.gen, unsure' = unsure,
           st'.projection = st.projection, st'.delivery = st.drafts[t].through,
           st'.chk = st.drafts[t].chk
    PROVE  CursorsTrue'
<1>0. DraftGiven(t) /\ st.drafts[t].pieces \subseteq Delivered /\ Typed /\ Placed /\ CursorsTrue
  BY DEF UploadInv, TypeOK, DeliveryInv, DraftsTrue, OnItsWay
<1>1. \A p : With(t, p) => Has(p)
  BY <1>0 DEF With, Has
<1>2. Keeps
  BY KeepsFrame
<1>3. /\ \A n \in DOMAIN log : Chunks(n)' = Chunks(n) /\ (Given(n) => Given(n)')
      /\ \A p : Has(p) => Has(p)'
  BY <1>2, Kept
<1>4. \A n \in 1..st.drafts[t].through : n \in DOMAIN log /\ Given(n)
  <2>1. DOMAIN log = 1..Len(log) /\ Len(log) \in Nat
    BY <1>0, EventsAre
  <2>2. st.drafts[t].through \in Nat /\ st.drafts[t].through <= Len(log)
    BY <1>0 DEF Typed, StateFile, Draft, Placed
  <2> QED
    BY <1>0, <1>1, <2>1, <2>2 DEF DraftGiven, Given
<1>5. \A n \in 1..st.projection : n \in DOMAIN log /\ Given(n)
  <2>1. DOMAIN log = 1..Len(log) /\ Len(log) \in Nat
    BY <1>0, EventsAre
  <2>2. st.projection \in Nat /\ st.projection <= Len(log)
    BY <1>0 DEF Typed, StateFile, Placed
  <2> QED
    BY <1>0, <2>1, <2>2 DEF CursorsTrue
<1> DEFINE c == st.drafts[t].chk
<1>6. c # NoPiece => c[1] \in DOMAIN log /\ \A k \in Chunks(c[1]) : k < c[2] => Has(<<c[1], k>>)
  BY <1>0, <1>1 DEF DraftGiven
<1>7. st'.chk = c
  OBVIOUS
<1> HIDE DEF c
<1>8. c # NoPiece => \A n : n = c[1] => n \in DOMAIN log' /\ \A k \in Chunks(n)' : k < c[2] => Has(<<n, k>>)'
  BY <1>3, <1>6
<1>9. StartGiven(st.chk)'
  BY <1>7, <1>8 DEF StartGiven, Chunks, Has, Delivered, TakenOver
<1> QED
  BY <1>3, <1>4, <1>5, <1>9 DEF CursorsTrue


LEMMA DraftedGiven ==
    ASSUME UploadInv, NEW t \in Turns, NEW c, Covers(c), c.through \in Nat, c.through <= Len(log), Keeps,
           st'.drafts[t] = [rev |-> st.rev, through |-> c.through, chk |-> c.chk, pieces |-> c.pieces]
    PROVE  DraftGiven(t)'
<1>1. \A n \in 1..c.through : n \in DOMAIN log
  <2>1. DOMAIN log = 1..Len(log) /\ Len(log) \in Nat
    BY EventsAre DEF UploadInv, TypeOK
  <2> QED
    BY <2>1
<1>2. /\ st'.drafts[t].through = c.through /\ st'.drafts[t].chk = c.chk
      /\ st'.drafts[t].pieces = c.pieces
  OBVIOUS
<1>3. \A p : Has(p) \/ p \in c.pieces => With(t, p)'
  BY <1>2, Kept DEF With
<1>4. ASSUME NEW n \in 1..c.through
      PROVE  Own(n)' \/ log'[n].gone \/ \A k \in Chunks(n)' : With(t, <<n, k>>)'
  <2>1. n \in DOMAIN log /\ Chunks(n)' = Chunks(n)
    BY <1>1, Kept
  <2>2. Own(n) \/ log[n].gone \/ \A k \in Chunks(n) : Has(<<n, k>>) \/ <<n, k>> \in c.pieces
    BY DEF Covers
  <2> QED
    BY <1>3, <2>1, <2>2 DEF Keeps
<1> DEFINE d == c.chk
<1>5. d # NoPiece => /\ d[1] \in DOMAIN log'
                     /\ \A n : n = d[1] => \A k \in Chunks(n)' : k < d[2] => With(t, <<n, k>>)'
  <2> SUFFICES ASSUME d # NoPiece
               PROVE  /\ d[1] \in DOMAIN log'
                      /\ \A n : n = d[1] => \A k \in Chunks(n)' : k < d[2] => With(t, <<n, k>>)'
    OBVIOUS
  <2>1. d[1] \in DOMAIN log
        /\ \A k \in Chunks(d[1]) : k < d[2] => Has(<<d[1], k>>) \/ <<d[1], k>> \in c.pieces
    BY DEF Covers
  <2>2. \A n : n = d[1] => Chunks(n)' = Chunks(n)
    BY <2>1, Kept
  <2> HIDE DEF d
  <2> QED
    BY <1>3, <2>1, <2>2 DEF Keeps
<1>6. st'.drafts[t].chk = d
  BY <1>2
<1> HIDE DEF d
<1> QED
  BY <1>2, <1>4, <1>5, <1>6 DEF DraftGiven, Chunks, With, Has, Delivered, TakenOver

LEMMA ServedDelivery ==
    ASSUME UploadInv, DeliveryInv, NEW t \in Turns, NEW name, NEW c, GoodPlan(c), Covers(c),
           Served(t, name, c),
           UNCHANGED <<log, task, shown, injected, carried, unsure>>, op.step # "ack",
           name = "stop" => hook.turn # t \/ hook.at # "reply",
           op'.kind \notin {"hook", "project"}, op'.step \notin {"inject", "save"},
           \/ hook' = hook /\ c.pieces = {}
           \/ hook.at # "reply" /\ hook'.at # "reply" /\ name # "prompt"
           \/ /\ hook.at # "reply" /\ hook'.at = "reply" /\ hook'.turn = t
              /\ hook'.pieces = st'.drafts[t].pieces
    PROVE  DeliveryInv'
<1>0. /\ Typed /\ Placed /\ TurnsLive /\ OwnKnown /\ NoEchoAhead /\ JournalTrue /\ InjectedInOrder
      /\ CursorsTrue /\ DraftsTrue
  BY DEF UploadInv, TypeOK, DeliveryInv
<1>1. /\ st.bind \in [Turns -> {"none", "pending", "unknown", "acked"}]
      /\ st.drafts \in [Turns -> Draft] /\ st.delivery \in Nat /\ st.projection \in Nat
      /\ c.through \in Nat /\ c.through <= Len(log) /\ NoDraft.pieces = {}
  BY <1>0 DEF Typed, StateFile, GoodPlan, NoDraft
<1>2. /\ st'.gen = st.gen /\ st'.rev = st.rev /\ st'.reset = st.reset
      /\ st'.projection = st.projection /\ st'.journal = st.journal
  BY DEF Served
<1>3. Keeps
  BY <1>2, KeepsFrame
<1>4. \A u \in Turns : st.bind[u] = "acked" => st'.bind[u] = "acked"
  BY <1>0, <1>1 DEF Served, Ignored, Drafted, Promoted, Cancelled, TurnsLive
<1>5. OwnKnown'
  BY <1>0, <1>2, <1>3, <1>4, EventsAre, OwnStep DEF Own
<1>6. \A u \in Turns : \/ st'.drafts[u] = st.drafts[u] \/ st'.drafts[u] = NoDraft
                       \/ /\ u = t /\ name = "prompt"
                          /\ st'.drafts[u] = [rev |-> st.rev, through |-> c.through,
                                              chk |-> c.chk, pieces |-> c.pieces]
  <2>1. CASE Ignored
    BY <2>1 DEF Ignored
  <2>2. CASE name = "prompt" /\ Drafted(t, c)
    <3> DEFINE d == [rev |-> st.rev, through |-> c.through, chk |-> c.chk, pieces |-> c.pieces]
    <3>1. st'.drafts = [st.drafts EXCEPT ![t] = d]
      BY <2>2 DEF Drafted
    <3> HIDE DEF d
    <3>2. \A u \in Turns : st'.drafts[u] = st.drafts[u] \/ (u = t /\ st'.drafts[u] = d)
      BY <1>1, <3>1
    <3> QED
      BY <2>2, <3>2 DEF d
  <2>3. CASE Promoted(t) \/ Cancelled(t)
    BY <1>1, <2>3 DEF Promoted, Cancelled
  <2> QED
    BY <2>1, <2>2, <2>3 DEF Served
<1>7. \A u \in Turns : \A p \in st'.drafts[u].pieces : Harmless(p)
  <2>1. \A u \in Turns : \A p \in st.drafts[u].pieces : Harmless(p)
    BY <1>0, AllHarmless
  <2>2. \A p \in c.pieces : Harmless(p)
    BY DEF Covers
  <2> SUFFICES ASSUME NEW u \in Turns PROVE \A p \in st'.drafts[u].pieces : Harmless(p)
    OBVIOUS
  <2>3. st'.drafts[u].pieces \in {st.drafts[u].pieces, {}, c.pieces}
    BY <1>1, <1>6
  <2> QED
    BY <2>1, <2>2, <2>3
<1>8. NoEchoAhead'
  <2>1. \A p \in Promised : Harmless(p)
    BY <1>0, AllHarmless
  <2>2. \A p \in Promised' : Harmless(p)
    BY <1>2, <1>7, <2>1 DEF Promised, Delivered
  <2>3. st'.journal # NoPiece => Harmless(st'.journal)
    BY <1>0, <1>2, AllHarmless
  <2> QED
    BY <1>3, <1>7, <2>2, <2>3, EchoStep
<1>9. JournalTrue'
  BY <1>0, <1>1, <1>2, <1>3, JournalStep
<1>10. InjectedInOrder'
  BY <1>0 DEF InjectedInOrder, Before
<1>11. CursorsTrue'
  <2>1. CASE st'.delivery = st.delivery /\ st'.chk = st.chk
    BY <1>0, <1>1, <1>2, <1>3, <2>1, CursorsKept
  <2>2. CASE /\ name = "stop" /\ st.drafts[t] # NoDraft
             /\ st'.delivery = st.drafts[t].through /\ st'.chk = st.drafts[t].chk
    BY <1>2, <2>2, PromotedCursors
  <2> QED
    BY <2>1, <2>2 DEF Served, Ignored, Drafted, Promoted, Cancelled
<1>12. DraftsTrue'
  <2> SUFFICES ASSUME NEW u \in Turns, st'.drafts[u] # NoDraft
               PROVE  DraftGiven(u)' /\ OnItsWay(u)'
    BY DEF DraftsTrue
  <2>1. CASE st'.drafts[u] = st.drafts[u]
    <3>1. DraftGiven(u) /\ OnItsWay(u)
      BY <1>0, <2>1 DEF DraftsTrue
    <3>2. DraftGiven(u)'
      BY <1>0, <1>3, <2>1, <3>1, DraftKept
    <3>3. OnItsWay(u)'
      BY <2>1, <3>1 DEF OnItsWay, Delivered
    <3> QED
      BY <3>2, <3>3
  <2>2. CASE /\ u = t /\ name = "prompt"
             /\ st'.drafts[u] = [rev |-> st.rev, through |-> c.through, chk |-> c.chk, pieces |-> c.pieces]
    <3>1. DraftGiven(u)'
      BY <1>1, <1>3, <2>2, DraftedGiven
    <3>2. OnItsWay(u)'
      BY <2>2 DEF OnItsWay
    <3> QED
      BY <3>1, <3>2
  <2> QED
    BY <1>6, <2>1, <2>2
<1> QED
  BY <1>5, <1>8, <1>9, <1>10, <1>11, <1>12 DEF DeliveryInv

LEMMA HookWorkDelivery == ASSUME UploadInv, DeliveryInv, HookWork PROVE DeliveryInv'
<1>0. /\ Typed /\ HooksTold /\ OpShape /\ op.kind = "hook" /\ op.step = "work" /\ ~st.reset
      /\ NoOp.kind = "none" /\ NoOp.step = "none" /\ NoHook.at = "none" /\ hook \in Hooks
  BY DEF UploadInv, TypeOK, HookWork, Working, DeliveryInv, NoEchoAhead, NoOp, NoHook, Typed, Hooks
<1>1. /\ hook.turn \in Turns /\ hook.name \in {"prompt", "stop", "cancel"} /\ hook.at = "sent"
  BY <1>0 DEF OpShape, HooksTold, NoHook, Typed
<1>2. UNCHANGED <<log, task, shown, injected, carried, unsure>>
  BY DEF HookWork, server, native
<1>3. CASE task[hook.turn].gen # st.gen
  <2>1. Abandon /\ UNCHANGED st
    BY <1>3 DEF HookWork
  <2> QED
    BY <1>0, <1>2, <2>1, AbandonDelivery
<1>4. CASE task[hook.turn].gen = st.gen
  <2>1. /\ st' = Handled(st, hook.turn, hook.name, Capsule) /\ op' = NoOp
        /\ hook' = IF hook.name = "prompt"
                   THEN [hook EXCEPT !.at = "reply", !.pieces = st'.drafts[hook.turn].pieces]
                   ELSE NoHook
    BY <1>4 DEF HookWork
  <2>2. GoodPlan(Capsule)
    BY <1>0, CapsuleGood
  <2>3. Served(hook.turn, hook.name, Capsule)
    BY <1>1, <2>1, <2>2, HandledIs
  <2>4. Covers(Capsule)
    BY <1>0, CapsuleCovers
  <2>5. \/ hook'.at # "reply" /\ hook.name # "prompt"
        \/ hook'.at = "reply" /\ hook'.turn = hook.turn /\ hook'.pieces = st'.drafts[hook.turn].pieces
    BY <1>0, <2>1 DEF Hooks
  <2> QED
    BY <1>0, <1>1, <1>2, <2>1, <2>2, <2>3, <2>4, <2>5, ServedDelivery
<1> QED
  BY <1>3, <1>4

LEMMA DrainDelivery == ASSUME UploadInv, DeliveryInv, DrainNext PROVE DeliveryInv'
<1>0. /\ Typed /\ Placed /\ HooksTold /\ OpShape /\ op.kind = "drain" /\ op.step = "work"
      /\ op \in Operation /\ op.done < op.size
  BY DEF UploadInv, TypeOK, DrainNext, Working, Typed
<1> DEFINE e == spool[op.done + 1]
           done == [op EXCEPT !.done = @ + 1]
<1>1. op.done + 1 \in DOMAIN spool
  <2>1. op.done \in Nat /\ op.size \in Nat /\ Len(spool) \in Nat /\ DOMAIN spool = 1..Len(spool)
        /\ op.size <= Len(spool)
    BY <1>0 DEF Operation, Typed, OpShape
  <2> QED
    BY <1>0, <2>1
<1>2. e.turn \in Turns /\ e.name \in {"prompt", "stop", "cancel"} /\ Told(e.name, e.turn)
  BY <1>0, <1>1, EntriesAre DEF HooksTold
<1>3. done.kind = "drain" /\ done.step = "work"
  BY <1>0 DEF Operation
<1>4. UNCHANGED <<log, revision, commits, task, shown, injected, carried, unsure>>
  BY DEF DrainNext, server, native
<1> HIDE DEF e, done
<1>5. CASE ~Allowed(e.turn)
  <2>1. op' = done /\ UNCHANGED <<st, hook>>
    BY <1>5 DEF DrainNext, e, done
  <2> QED
    BY <1>0, <1>3, <1>4, <2>1, CoreDelivery
<1>6. CASE Allowed(e.turn) /\ ~(conn.managed /\ Loadable(st))
  <2>1. Abandon /\ UNCHANGED st
    BY <1>6 DEF DrainNext, e, done
  <2> QED
    BY <1>0, <1>4, <2>1, AbandonDelivery
<1>7. CASE Allowed(e.turn) /\ conn.managed /\ Loadable(st) /\ ~Current
  <2>1. /\ op' = [op EXCEPT !.step = "rebuild", !.rev = revision,
                            !.upto = Len(log), !.text = Readable(Len(log))]
        /\ st' = Retired(st) /\ UNCHANGED hook
    BY <1>7 DEF DrainNext, e, done
  <2>2. op'.step = "rebuild"
    BY <1>0, <2>1 DEF Operation
  <2> QED
    BY <1>4, <1>7, <2>1, <2>2, RetiredDelivery
<1>8. CASE Allowed(e.turn) /\ conn.managed /\ Loadable(st) /\ Current
  <2>1. op' = done /\ st' = Handled(st, e.turn, e.name, NoCapsule) /\ UNCHANGED hook
    BY <1>8 DEF DrainNext, e, done
  <2>2. GoodPlan(NoCapsule) /\ NoCapsule.pieces = {}
    BY <1>0, CapsuleGood DEF NoCapsule
  <2>3. Served(e.turn, e.name, NoCapsule)
    BY <1>2, <2>1, <2>2, HandledIs
  <2>4. e.name = "stop" => hook.turn # e.turn \/ hook.at # "reply"
    BY <1>0, <1>2 DEF Told, HooksTold, NoHook
  <2> QED
    BY <1>0, <1>2, <1>3, <1>4, <2>1, <2>2, <2>3, <2>4, NothingCovers, ServedDelivery
<1> QED
  BY <1>5, <1>6, <1>7, <1>8


-----------------------------------------------------------------------------
(* The two invariants together.                                            *)

LEMMA DeliveryInit == Init => DeliveryInv
<1> SUFFICES ASSUME Init PROVE DeliveryInv
  OBVIOUS
<1>1. /\ log = <<>> /\ injected = <<>> /\ op = NoOp /\ hook = NoHook /\ shown = {}
      /\ \A t \in Turns : st.drafts[t] = NoDraft
      /\ st.delivery = 0 /\ st.projection = 0 /\ st.chk = NoPiece /\ st.journal = NoPiece
  BY DEF Init, NoDrafts
<1>2. DOMAIN log = {} /\ DOMAIN injected = {} /\ Range(injected) = {} /\ NoDraft.pieces = {}
  BY <1>1 DEF Range, NoDraft
<1>3. OwnKnown /\ InjectedInOrder /\ JournalTrue /\ DraftsTrue
  BY <1>1, <1>2 DEF OwnKnown, InjectedInOrder, JournalTrue, DraftsTrue, NoOp
<1>4. Promised = {}
  BY <1>1, <1>2 DEF Promised, Delivered, NoHook
<1>5. NoEchoAhead
  BY <1>1, <1>2, <1>4 DEF NoEchoAhead, NoOp
<1>6. CursorsTrue
  BY <1>1 DEF CursorsTrue, StartGiven
<1> QED
  BY <1>3, <1>5, <1>6 DEF DeliveryInv

LEMMA LoopDelivery ==
    ASSUME UploadInv, DeliveryInv, "reply" \notin Faults, Loop PROVE DeliveryInv'
<1>1. CASE \E kind \in {"sync", "project"} : BeginCycle(kind)
  BY <1>1, CycleDelivery
<1>2. CASE CycleFails \/ DrainEnds \/ SyncEnds \/ Report \/ Start \/ BeginDrain
  BY <1>2, IdleDelivery
<1>3. CASE ClaimJob \/ Rebuild \/ DrainNext
  BY <1>3, JobDelivery, RebuildDelivery, DrainDelivery
<1>4. CASE Discover \/ Send \/ Commit \/ Ack
  BY <1>4, DiscoverDelivery, SendDelivery, CommitDelivery, AckDelivery
<1>5. CASE Import \/ Project \/ Inject \/ SaveInjected
  BY <1>5, ImportDelivery, ProjectDelivery, InjectDelivery, SaveDelivery
<1>6. CASE Manage \/ Unmanage
  BY <1>6, ManageDelivery, UnmanageDelivery
<1> QED
  BY <1>1, <1>2, <1>3, <1>4, <1>5, <1>6 DEF Loop

LEMMA OthersDelivery ==
    ASSUME UploadInv, DeliveryInv, "reply" \notin Faults, Others PROVE DeliveryInv'
<1>1. CASE \E kind \in Kinds : Post(kind)
  BY <1>1, PostDelivery
<1>2. CASE \E n \in DOMAIN log : Erase(n)
  BY <1>2, EraseDelivery
<1>3. CASE \E b \in BOOLEAN : SetWriter(b) \/ SetAuto(b)
  BY <1>3, IdleDelivery, AutoDelivery
<1>4. CASE \E kind \in JobKinds : CreateJob(kind)
  BY <1>4, IdleDelivery
<1>5. CASE \E t \in Turns : Finish(t) \/ Interrupt(t) \/ \E hooked \in BOOLEAN : Prompt(t, hooked)
  BY <1>5, UserDelivery
<1> QED
  BY <1>1, <1>2, <1>3, <1>4, <1>5 DEF Others

LEMMA DeliveryStep ==
    ASSUME UploadInv, DeliveryInv, "reply" \notin Faults, [Next]_vars PROVE DeliveryInv'
<1>1. CASE Loop
  BY <1>1, LoopDelivery
<1>2. CASE HookRuns
  BY <1>2, HookBeginsDelivery, HookWorkDelivery, ReplyDelivery, IdleDelivery DEF HookRuns
<1>3. CASE Others
  BY <1>3, OthersDelivery
<1>4. CASE Failures
  BY <1>4, IdleDelivery DEF Failures
<1>5. CASE UNCHANGED vars
  BY <1>5, IdleDelivery
<1> QED
  BY <1>1, <1>2, <1>3, <1>4, <1>5 DEF Next

\* Unless the connector dies between saving a hook's answer and giving it, what reaches
\* the task is not its own turn coming back, is injected once and in order, and the cursors
\* pass nothing it did not get: for any number of turns, of posts and of upsets, any size
\* of capsule, and every mix of the other failures.
THEOREM DeliveryIsSound ==
    ASSUME "reply" \notin Faults
    PROVE  Spec => []DeliverySound
<1> DEFINE Inv == UploadInv /\ DeliveryInv
<1>1. Init => Inv
  BY UploadInit, DeliveryInit
<1>2. Inv /\ [Next]_vars => Inv'
  BY UploadStep, DeliveryStep
<1>3. Inv => DeliverySound
  <2> SUFFICES ASSUME UploadInv, DeliveryInv PROVE DeliverySound
    OBVIOUS
  <2>1. NoEcho
    BY DEF DeliveryInv, NoEchoAhead, Foreign, NoEcho, Promised
  <2>2. NothingOmitted
    BY DEF DeliveryInv, CursorsTrue, Given, Has, NothingOmitted
  <2> QED
    BY <2>1, <2>2 DEF DeliverySound, UploadInv, DeliveryInv
<1> HIDE DEF Inv
<1> QED
  BY <1>1, <1>2, <1>3, PTL DEF Spec
=============================================================================
