--------------------------- MODULE DesktopThread ---------------------------
(***************************************************************************)
(* One GatherThread session mirrored into the Codex task its user works in *)
(* (packages/bridge/src/codex-app-server.ts, the executor created with     *)
(* desktopHookOnly, and the loops of codex-connect.ts that drive it).      *)
(* Down: the session's events reach the task by native injection while it  *)
(* is idle, or in the capsule a UserPromptSubmit hook hands to the model.  *)
(* Up: a turn typed into the task is captured by its hooks (or found by a  *)
(* manual upload), put in a durable outbox, and committed on the server    *)
(* (database.ts, commitLocalTurn).  Hooks that find no connector are       *)
(* spooled (codex-hooks.ts).  An author's erasure retires the task: a new  *)
(* one is built from what is left.                                         *)
(*                                                                         *)
(* st is the file the executor saves with an atomic rename; an operation   *)
(* is cut into steps at each save, each native effect and each request.    *)
(* Every operation takes the executor's writer lock without waiting: one   *)
(* that finds it held fails.  op is the one that holds it; the server and  *)
(* the user move between any two of its steps.                             *)
(***************************************************************************)
EXTENDS Integers, Sequences, FiniteSets, SequencesExt, FiniteSetsExt

CONSTANTS Turns,       \* turns the user may type into the task
          NoTurn,
          ToolTurns,   \* the turns in which the model used tools
          Kinds,       \* what others post: "chat", or "long" (two chunks)
          JobKinds,    \* "upload" (local_turn_upload), "import" (visible_history_replace)
          Budget,      \* chunks that fit into one capsule
          Faults,      \* kinds of failure that may happen
          MaxPosts,    \* bounds: posts, and upsets (erasures, jobs, changes of
          MaxUpsets    \* role or consent, failures) in a behaviour

ASSUME DesktopAssumption ==
  /\ IsFiniteSet(Turns) /\ NoTurn \notin Turns
  /\ ToolTurns \subseteq Turns
  /\ Kinds \subseteq {"chat", "long"}
  /\ JobKinds \subseteq {"upload", "import"}
  /\ Budget \in Nat \ {0}
  /\ {MaxPosts, MaxUpsets} \subseteq Nat
  /\ Faults \subseteq {"crash", "reply", "lost", "timeout", "rebuild"}

VARIABLES
  log,        \* the session's events: [turn, kind, gone]
  revision,   \* sessions.content_revision
  commits,    \* local_turn_commits: what was committed for a turn
  writer,     \* whether the user may write in the session
  job,        \* the user's snapshot_requests row: [kind, status, through, rev, due]
  task,       \* the native turns: [status, gen, hooked, read]
  shown,      \* chunks the current task got from a capsule or an import
  injected,   \* chunks injected into the current task, in order
  carried,    \* the checkpoint the current task took over from the one before (history)
  hook,       \* the hook process under way: [turn, name, at, pieces]
  spool,      \* hook-outbox.jsonl
  st,         \* the executor's state file
  conn,       \* the connector process: [up, managed, phase, nativeOff]
  op,         \* the operation that holds the writer lock
  unsure,     \* turns whose acknowledgement was lost once (history)
  spent       \* what the bounds have let happen

vars == <<log, revision, commits, writer, job, task, shown, injected, carried, hook,
          spool, st, conn, op, unsure, spent>>

server == <<log, revision, commits, writer>>
native == <<shown, injected, carried>>
-----------------------------------------------------------------------------
NoPiece == <<0, 0>>
NoDraft == [rev |-> -1, through |-> 0, chk |-> NoPiece, pieces |-> {}]
NoHook == [turn |-> NoTurn, name |-> "none", at |-> "none", pieces |-> {}]
NoOp == [kind |-> "none", step |-> "none", rev |-> 0, text |-> {}, upto |-> 0,
            done |-> 0, size |-> 0, resumed |-> FALSE]
NoJob == [kind |-> "none", status |-> "none", through |-> 0, rev |-> 0, due |-> {}]
NoBody == [rev |-> -1, tools |-> FALSE]

Larger(a, b) == IF a >= b THEN a ELSE b
Before(p, q) == p[1] < q[1] \/ (p[1] = q[1] /\ p[2] < q[2])
Chunks(n) == IF log[n].kind = "long" THEN 1..2 ELSE {1}
Delivered == shown \cup Range(injected)

\* What the task holds natively because its user typed it there.
Own(n) == log[n].turn # NoTurn /\ task[log[n].turn].gen = st.gen

\* acknowledgedLocalEventIds: the request and the response of a turn whose
\* commit was acknowledged.  (Its tool events are not among them.)
Acked(n) == /\ log[n].turn # NoTurn
            /\ log[n].kind \in {"request", "response"}
            /\ st.bind[log[n].turn] = "acked"

-----------------------------------------------------------------------------
(* The hooks' view: capsules, drafts and the outbox.                       *)

\* The chunks after the delivery cursor and its checkpoint.
Queue == {p \in UNION {{n} \X Chunks(n) : n \in (st.delivery + 1)..Len(log)} :
            ~Acked(p[1]) /\ (p[1] = st.chk[1] => p[2] >= st.chk[2])}

\* As many of them as fit, and the first one that does not.
Fitting == {p \in Queue : Cardinality({q \in Queue : Before(q, p)}) < Budget}
NextChunk == CHOOSE p \in Queue \ Fitting : \A q \in Queue \ Fitting : ~Before(q, p)

Whole == [pieces |-> Queue, through |-> Len(log), chk |-> NoPiece]

\* The cursor goes to the event of the last chunk that fits.
Capsule_SkipsRest ==
  IF Fitting = Queue THEN Whole
  ELSE [pieces |-> Fitting, through |-> Max({p[1] : p \in Fitting}), chk |-> NoPiece]

\* renderHookCanonicalDelta: as many chunks as fit, and the transition the
\* turn's Stop will apply.
Capsule ==
  IF Fitting = Queue THEN Whole
  ELSE [pieces |-> Fitting, through |-> NextChunk[1] - 1,
        chk |-> IF NextChunk[2] > 1 THEN NextChunk ELSE NoPiece]

\* A spooled prompt is replayed with an unknown base and no context.
NoCapsule == [pieces |-> {}, through |-> 0, chk |-> NoPiece]

\* #applyDesktopRelayPlan: cursors never go back.
ApplyRelayPlan(s, d) ==
  IF \/ d.through < s.delivery
     \/ d.through = s.delivery /\ d.chk = NoPiece
     \/ d.through = s.delivery /\ s.chk # NoPiece
                               /\ ~(s.chk[1] = d.chk[1] /\ d.chk[2] > s.chk[2])
  THEN s ELSE [s EXCEPT !.delivery = d.through, !.chk = d.chk]

PromptHandled(s, t, capsule) ==
  IF s.drafts[t] # NoDraft \/ s.bind[t] # "none" THEN s
  ELSE [s EXCEPT !.bind[t] = "pending",
                 !.drafts[t] = [rev |-> s.rev, through |-> capsule.through,
                                chk |-> capsule.chk, pieces |-> capsule.pieces]]

Outboxed(s, t) == \E i \in DOMAIN s.pending : s.pending[i].turn = t

\* #promoteHookDraftWithoutThread
StopHandled(s, t) ==
  IF s.drafts[t] = NoDraft THEN s
  ELSE LET d == s.drafts[t]
           kept == IF Outboxed(s, t) THEN s.pending
                   ELSE Append(s.pending, [turn |-> t, rev |-> d.rev, tools |-> FALSE])
       IN  ApplyRelayPlan([s EXCEPT !.pending = kept, !.drafts[t] = NoDraft], d)

\* A Stop without an answer: the turn was cancelled.
CancelHandled(s, t) ==
  IF s.drafts[t] = NoDraft THEN s
  ELSE [s EXCEPT !.drafts[t] = NoDraft, !.bind[t] = "none"]

Handled(s, t, name, capsule) ==
  CASE name = "prompt" -> PromptHandled(s, t, capsule)
    [] name = "stop"   -> StopHandled(s, t)
    [] name = "cancel" -> CancelHandled(s, t)
-----------------------------------------------------------------------------
(* The state file as a whole.                                              *)

Unbound == [t \in Turns |-> "none"]
NoDrafts == [t \in Turns |-> NoDraft]

\* The entries of a sequence at some of its places, in their order.
Picked(q, places) ==
  [k \in 1..Cardinality(places) |->
     q[CHOOSE i \in places : Cardinality({j \in places : j < i}) = k - 1]]

\* clearUncommittedLocalPublishingState: what may have reached the server stays.
ClearUncommitted(s) ==
  [s EXCEPT !.drafts = NoDrafts,
            !.pending = Picked(@, {i \in DOMAIN @ : s.bind[@[i].turn] = "unknown"}),
            !.bind = [t \in Turns |-> IF @[t] = "pending" THEN "none" ELSE @[t]],
            !.listed = FALSE]

\* #retireDeletedProjection
Retired(s) ==
  [s EXCEPT !.reset = TRUE, !.pending = <<>>, !.bind = Unbound, !.drafts = NoDrafts,
            !.chk = NoPiece, !.journal = NoPiece]

\* importVisibleHistorySnapshot: a new task built from the history up to a
\* position takes the old one's place.
Imported(s, rev, upto) ==
  [s EXCEPT !.gen = @ + 1, !.rev = rev, !.reset = FALSE, !.delivery = upto,
            !.projection = upto, !.pending = <<>>, !.bind = Unbound,
            !.drafts = NoDrafts, !.journal = NoPiece]

\* The guard of an import that was not forced by an erasure.
Importable(s) == /\ s.pending = <<>>
                 /\ s.drafts = NoDrafts
                 /\ \A t \in Turns : s.bind[t] \in {"none", "acked"}

\* isCodexAppServerState: a file that fails it is refused by every operation.
Loadable(s) == s.chk = NoPiece \/ s.chk[1] > s.delivery

\* The session's revision is not read.
Current_Unread == ~st.reset

Current == revision = st.rev /\ ~st.reset

\* The hook registry lets only the bound, published task through.
Allowed(t) == st.listed /\ ~st.reset /\ task[t].gen = st.gen

TaskBusy == \E t \in Turns : task[t].status = "active" /\ task[t].gen = st.gen
-----------------------------------------------------------------------------
Init ==
  /\ log = <<>> /\ revision = 0 /\ writer = TRUE
  /\ commits = [t \in Turns |-> NoBody]
  /\ job = NoJob
  /\ task = [t \in Turns |-> [status |-> "new", gen |-> 0, hooked |-> FALSE, read |-> {}]]
  /\ shown = {} /\ injected = <<>> /\ carried = NoPiece
  /\ hook = NoHook /\ spool = <<>>
  /\ st = [gen |-> 1, rev |-> 0, reset |-> FALSE, listed |-> TRUE, auto |-> TRUE,
           delivery |-> 0, chk |-> NoPiece, projection |-> 0, journal |-> NoPiece,
           drafts |-> NoDrafts, pending |-> <<>>, bind |-> Unbound]
  /\ conn = [up |-> TRUE, managed |-> TRUE, phase |-> "sync", nativeOff |-> FALSE]
  /\ op = NoOp
  /\ unsure = {}
  /\ spent = [posts |-> 0, upsets |-> 0]

Upsetting == /\ spent.upsets < MaxUpsets
             /\ spent' = [spent EXCEPT !.upsets = @ + 1]
Failing(kind) == kind \in Faults /\ Upsetting
-----------------------------------------------------------------------------
(* The other members, on the server.                                       *)

Post(kind) ==
  /\ spent.posts < MaxPosts
  /\ log' = Append(log, [turn |-> NoTurn, kind |-> kind, gone |-> FALSE])
  /\ spent' = [spent EXCEPT !.posts = @ + 1]
  /\ UNCHANGED <<revision, commits, writer, job, task, native, hook, spool, st, conn, op, unsure>>

RequestOf(t) == CHOOSE n \in DOMAIN log : log[n].turn = t /\ log[n].kind = "request"

\* deleteMessage: outputs of every later request go with the message.
Erase(n) ==
  /\ Upsetting /\ n \in DOMAIN log
  /\ log[n].kind \in {"chat", "long", "request"} /\ ~log[n].gone
  /\ log' = Append([m \in DOMAIN log |->
                      IF \/ m = n
                         \/ log[m].kind \in {"tool", "response"} /\ RequestOf(log[m].turn) >= n
                      THEN [log[m] EXCEPT !.gone = TRUE] ELSE log[m]],
                   [turn |-> NoTurn, kind |-> "control", gone |-> FALSE])
  /\ revision' = revision + 1
  /\ job' = IF job = NoJob THEN job ELSE [job EXCEPT !.status = "failed", !.due = {}]
  /\ UNCHANGED <<commits, writer, task, native, hook, spool, st, conn, op, unsure>>

SetWriter(b) ==
  /\ Upsetting /\ writer # b
  /\ writer' = b
  /\ UNCHANGED <<log, revision, commits, job, task, native, hook, spool, st, conn, op, unsure>>

CreateJob(kind) ==
  /\ Upsetting /\ writer
  /\ job.status \in {"none", "completed", "failed"}
  /\ job' = [kind |-> kind, status |-> "pending", through |-> Len(log), rev |-> revision, due |-> {}]
  /\ UNCHANGED <<server, task, native, hook, spool, st, conn, op, unsure>>
-----------------------------------------------------------------------------
(* The user in the task, and the hook process.                             *)

\* Hooks of a task the registry does not list return at once.
Fire(t, name) ==
  hook' = IF task[t].hooked /\ Allowed(t)
          THEN [turn |-> t, name |-> name, at |-> "sent", pieces |-> {}] ELSE NoHook

\* A turn whose hooks do not run is typed while they are not trusted.
Prompt(t, hooked) ==
  /\ hook = NoHook /\ ~TaskBusy
  /\ task[t].status = "new"
  /\ task' = [task EXCEPT ![t] = [@ EXCEPT !.status = "active", !.gen = st.gen, !.hooked = hooked]]
  /\ hook' = IF hooked /\ st.listed /\ ~st.reset
             THEN [turn |-> t, name |-> "prompt", at |-> "sent", pieces |-> {}] ELSE NoHook
  /\ UNCHANGED <<server, job, native, spool, st, conn, op, unsure, spent>>

Finish(t) ==
  /\ hook = NoHook /\ task[t].status = "active"
  /\ task' = [task EXCEPT ![t].status = "completed",
                          ![t].read = IF task[t].gen = st.gen THEN {p[1] : p \in Delivered} ELSE {}]
  /\ Fire(t, "stop")
  /\ UNCHANGED <<server, job, native, spool, st, conn, op, unsure, spent>>

Interrupt(t) ==
  /\ hook = NoHook /\ task[t].status = "active"
  /\ task' = [task EXCEPT ![t].status = "interrupted"]
  /\ Fire(t, "cancel")
  /\ UNCHANGED <<server, job, native, spool, st, conn, op, unsure, spent>>

Spooled == Append(spool, [turn |-> hook.turn, name |-> hook.name])

\* The relay cannot be reached, or answers with an error: no session is managed,
\* the state cannot be loaded, or another operation holds the lock.
HookSpools ==
  /\ hook.at = "sent" /\ op.kind # "hook"
  /\ ~conn.up \/ ~conn.managed \/ ~Loadable(st) \/ op # NoOp
  /\ spool' = Spooled /\ hook' = NoHook
  /\ UNCHANGED <<server, job, task, native, st, conn, op, unsure, spent>>

\* The relay's answer becomes context of the prompt.
HookReply ==
  /\ hook.at = "reply"
  /\ shown' = IF task[hook.turn].gen = st.gen THEN shown \cup hook.pieces ELSE shown
  /\ hook' = NoHook
  /\ UNCHANGED <<server, job, task, injected, carried, spool, st, conn, op, unsure, spent>>
-----------------------------------------------------------------------------
(* The connector's loop: sync, project, jobs, drain, and again.            *)

AfterJob == IF spool # <<>> THEN "drain" ELSE "sync"
AfterProject == IF job.status \in {"pending", "claimed"} THEN "job" ELSE AfterJob
AfterSync == IF conn.nativeOff THEN AfterProject ELSE "project"
Following == CASE conn.phase \in {"sync", "project"} -> AfterProject
                  [] conn.phase = "job"                 -> AfterJob
                  [] conn.phase = "drain"               -> "sync"

JobFailed == IF job.status = "claimed" THEN [job EXCEPT !.status = "failed"] ELSE job

\* The operation ends with an error: a hook goes to the spool, a drain keeps
\* what it has not done, a job is reported as failed.
Abandon ==
  /\ op' = NoOp
  /\ hook' = IF op.kind = "hook" THEN NoHook ELSE hook
  /\ spool' = CASE op.kind = "hook"  -> Spooled
                [] op.kind = "drain" -> SubSeq(spool, op.done + 1, Len(spool))
                [] OTHER             -> spool
  /\ job' = IF op.kind \in {"upload", "import"} THEN JobFailed ELSE job
  /\ conn' = IF op.kind = "hook" THEN conn ELSE [conn EXCEPT !.phase = Following]

\* What an import started now would put into the new task.
Readable(upto) == UNION {{n} \X Chunks(n) : n \in {m \in 1..upto : ~log[m].gone}}

\* #ensureDeletionRevision: an operation that finds the task behind the
\* session's revision retires it, reads the history and imports that first.
Ensuring(kind) ==
  [NoOp EXCEPT !.kind = kind, !.step = IF Current THEN "work" ELSE "rebuild",
               !.rev = revision, !.upto = Len(log), !.text = Readable(Len(log)),
               !.size = IF kind = "drain" THEN Len(spool) ELSE 0]

Ready == conn.up /\ conn.managed /\ op = NoOp /\ Loadable(st)

BeginHook ==
  /\ Ready /\ hook.at = "sent"
  /\ op' = Ensuring("hook")
  /\ st' = IF Current THEN st ELSE Retired(st)
  /\ UNCHANGED <<server, job, task, native, hook, spool, conn, unsure, spent>>

BeginCycle(kind) ==
  /\ Ready /\ kind \in {"sync", "project"} /\ conn.phase = kind
  /\ op' = Ensuring(kind)
  /\ st' = IF Current THEN st ELSE Retired(st)
  /\ UNCHANGED <<server, job, task, native, hook, spool, conn, unsure, spent>>

\* The lock is held by a hook's operation, or the state cannot be loaded.
CycleFails ==
  /\ conn.up /\ conn.managed /\ conn.phase \in {"sync", "project", "job"}
  /\ op.kind = "hook" \/ (op = NoOp /\ ~Loadable(st))
  /\ conn' = [conn EXCEPT !.phase = Following]
  /\ job' = IF conn.phase = "job" /\ writer /\ job.status \in {"pending", "claimed"}
            THEN [job EXCEPT !.status = "failed"] ELSE job
  /\ UNCHANGED <<server, task, native, hook, spool, st, op, unsure, spent>>

\* claimSnapshotRequest: a reader's claim is refused and the job left alone.
ClaimJob ==
  /\ Ready /\ conn.phase = "job"
  /\ IF writer /\ job.status \in {"pending", "claimed"}
     THEN /\ job' = [job EXCEPT !.status = "claimed"]
          /\ IF job.kind = "upload"
             THEN /\ op' = Ensuring("upload")
                  /\ st' = IF Current THEN st ELSE Retired(st)
             ELSE /\ op' = [NoOp EXCEPT !.kind = "import", !.step = "work", !.rev = revision,
                                        !.upto = job.through, !.text = Readable(job.through)]
                  /\ UNCHANGED st
          /\ UNCHANGED conn
     ELSE /\ conn' = [conn EXCEPT !.phase = AfterJob]
          /\ UNCHANGED <<job, op, st>>
  /\ UNCHANGED <<server, task, native, hook, spool, unsure, spent>>

BeginDrain ==
  /\ conn.up /\ op = NoOp /\ spool # <<>>
  /\ conn.phase = "drain" \/ ~conn.managed
  /\ op' = [NoOp EXCEPT !.kind = "drain", !.step = "work", !.size = Len(spool)]
  /\ UNCHANGED <<server, job, task, native, hook, spool, st, conn, unsure, spent>>

Switch(s, text) == st' = s /\ shown' = text /\ injected' = <<>> /\ carried' = s.chk

\* The importer has built the new task and the state file names it.
Rebuild ==
  /\ op.step = "rebuild"
  /\ Switch(Imported(st, op.rev, op.upto), op.text)
  /\ op' = [op EXCEPT !.step = "work"]
  /\ UNCHANGED <<server, job, task, hook, spool, conn, unsure, spent>>

\* The history changed again before it was read, or the importer failed.
RebuildFails ==
  /\ op.step = "rebuild"
  /\ \/ revision # op.rev /\ UNCHANGED spent
     \/ Failing("rebuild")
  /\ Abandon
  /\ UNCHANGED <<server, task, native, st, unsure>>
-----------------------------------------------------------------------------
(* handleHookEvent, and drainCodexHookSpool                                *)

Working(kind) == op.kind = kind /\ op.step = "work"

HookWork ==
  /\ Working("hook")
  /\ LET t == hook.turn
         s == Handled(st, t, hook.name, Capsule)
     IN  IF task[t].gen # st.gen
         THEN Abandon /\ UNCHANGED st
         ELSE /\ st' = s
              /\ hook' = IF hook.name = "prompt"
                         THEN [hook EXCEPT !.at = "reply", !.pieces = s.drafts[t].pieces]
                         ELSE NoHook
              /\ op' = NoOp
              /\ UNCHANGED <<spool, job, conn>>
  /\ UNCHANGED <<server, task, native, unsure, spent>>

\* Events of a task that is no longer listed are dropped.
DrainNext ==
  /\ Working("drain") /\ op.done < op.size
  /\ LET e == spool[op.done + 1]
         done == [op EXCEPT !.done = @ + 1]
     IN  CASE ~Allowed(e.turn) ->
                op' = done /\ UNCHANGED <<st, hook, spool, job, conn>>
           [] Allowed(e.turn) /\ ~(conn.managed /\ Loadable(st)) ->
                Abandon /\ UNCHANGED st
           [] Allowed(e.turn) /\ conn.managed /\ Loadable(st) /\ ~Current ->
                /\ op' = [op EXCEPT !.step = "rebuild", !.rev = revision,
                                    !.upto = Len(log), !.text = Readable(Len(log))]
                /\ st' = Retired(st)
                /\ UNCHANGED <<hook, spool, job, conn>>
           [] Allowed(e.turn) /\ conn.managed /\ Loadable(st) /\ Current ->
                /\ op' = done
                /\ st' = Handled(st, e.turn, e.name, NoCapsule)
                /\ UNCHANGED <<hook, spool, job, conn>>
  /\ UNCHANGED <<server, task, native, unsure, spent>>

DrainEnds ==
  /\ Working("drain") /\ op.done = op.size
  /\ spool' = SubSeq(spool, op.size + 1, Len(spool))
  /\ op' = NoOp /\ conn' = [conn EXCEPT !.phase = "sync"]
  /\ UNCHANGED <<server, job, task, native, hook, st, unsure, spent>>
-----------------------------------------------------------------------------
(* synchronizeLocalTurns, and uploadLocalTurns                             *)

Sending == Working("sync") \/ (op.kind = "upload" /\ op.step = "send")
Forced == op.kind = "upload"
ToSend == st.pending # <<>> /\ (st.auto \/ Forced)

\* The completed turns of the task that no binding knows.
Discovered == {t \in Turns : /\ task[t].status = "completed" /\ task[t].gen = st.gen
                             /\ st.bind[t] = "none"}

Discover ==
  /\ Working("upload")
  /\ IF TaskBusy
     THEN Abandon /\ UNCHANGED st
     ELSE LET found == SetToSeq({[turn |-> t, rev |-> st.rev, tools |-> t \in ToolTurns] :
                                   t \in Discovered})
          IN  /\ st' = [st EXCEPT !.bind = [t \in Turns |-> IF t \in Discovered THEN "pending" ELSE @[t]],
                                  !.pending = @ \o found]
              /\ job' = IF job.status = "claimed"
                        THEN [job EXCEPT !.due = {e.turn : e \in Range(st'.pending)}] ELSE job
              /\ op' = [op EXCEPT !.step = "send"]
              /\ UNCHANGED <<hook, spool, conn>>
  /\ UNCHANGED <<server, task, native, unsure, spent>>

\* The binding is saved as unknown before the request leaves.
Send ==
  /\ Sending /\ ToSend
  /\ st' = [st EXCEPT !.bind[Head(st.pending).turn] = "unknown"]
  /\ op' = [op EXCEPT !.step = "commit"]
  /\ UNCHANGED <<server, job, task, native, hook, spool, conn, unsure, spent>>

Body(e) == [rev |-> e.rev, tools |-> e.tools]

\* What commitLocalTurn refuses: a reader's request, a retry with another body,
\* a turn based on removed history.
Refused(e) == \/ ~writer
              \/ commits[e.turn] # NoBody /\ commits[e.turn] # Body(e)
              \/ commits[e.turn] = NoBody /\ e.rev # revision

\* A retry is not recognised.
Retry_Never(e) == FALSE

Retry(e) == commits[e.turn] # NoBody

Appended(e) ==
  LET event(kind) == [turn |-> e.turn, kind |-> kind, gone |-> FALSE]
  IN  log \o <<event("request")>> \o (IF e.tools THEN <<event("tool")>> ELSE <<>>)
          \o <<event("response")>>

Commit ==
  /\ op.step = "commit"
  /\ LET e == Head(st.pending)
     IN  IF Refused(e)
         THEN Abandon /\ UNCHANGED <<log, commits>>
         ELSE /\ log' = IF Retry(e) THEN log ELSE Appended(e)
              /\ commits' = [commits EXCEPT ![e.turn] = Body(e)]
              /\ op' = [op EXCEPT !.step = "ack"]
              /\ UNCHANGED <<hook, spool, job, conn>>
  /\ UNCHANGED <<revision, writer, task, native, st, unsure, spent>>

Ack ==
  /\ op.step = "ack"
  /\ st' = [st EXCEPT !.bind[Head(st.pending).turn] = "acked", !.pending = Tail(@)]
  /\ op' = [op EXCEPT !.step = IF op.kind = "sync" THEN "work" ELSE "send"]
  /\ UNCHANGED <<server, job, task, native, hook, spool, conn, unsure, spent>>

AnswerLost ==
  /\ op.step = "ack" /\ Failing("lost")
  /\ unsure' = unsure \cup {Head(st.pending).turn}
  /\ Abandon
  /\ UNCHANGED <<server, task, native, st>>

SyncEnds ==
  /\ Working("sync") /\ ~ToSend
  /\ op' = NoOp /\ conn' = [conn EXCEPT !.phase = AfterSync]
  /\ UNCHANGED <<server, job, task, native, hook, spool, st, unsure, spent>>

\* finishSnapshotRequest: only a job that is still claimed takes a result.
Report ==
  /\ op.step = "report" \/ (op.step = "send" /\ ~ToSend)
  /\ job' = IF job.status = "claimed" THEN [job EXCEPT !.status = "completed"] ELSE job
  /\ op' = NoOp /\ conn' = [conn EXCEPT !.phase = AfterJob]
  /\ UNCHANGED <<server, task, native, hook, spool, st, unsure, spent>>
-----------------------------------------------------------------------------
(* importVisibleHistorySnapshot, for a job                                 *)

Import ==
  /\ Working("import")
  /\ IF Importable(st) /\ op.rev >= st.rev
     THEN /\ Switch(Imported(st, op.rev, op.upto), op.text)
          /\ op' = [op EXCEPT !.step = "report"]
          /\ UNCHANGED <<hook, spool, job, conn>>
     ELSE Abandon /\ UNCHANGED <<st, native>>
  /\ UNCHANGED <<server, task, unsure, spent>>
-----------------------------------------------------------------------------
(* synchronizeCanonicalHistory: native projection into the idle task       *)

\* The cursors move on to a position, and with them goes the checkpoint of a
\* capsule that stopped before it.
MovedTo(s, n) ==
  [s EXCEPT !.projection = Larger(@, n),
            !.delivery = Larger(@, Larger(s.projection, n)),
            !.chk = IF @[1] <= Larger(s.projection, n) THEN NoPiece ELSE @]

NothingToInject == \A n \in (st.projection + 1)..Len(log) : Acked(n)

\* What an injection that was cut off had begun is not among the events to come.
JournalAbsent == st.journal # NoPiece /\ st.journal[1] \notin (st.projection + 1)..Len(log)

Injectable == ~NothingToInject /\ ~JournalAbsent /\ st.drafts = NoDrafts /\ ~TaskBusy

Project ==
  /\ Working("project")
  /\ CASE revision # st.rev ->
            Abandon /\ st' = Retired(st)
       [] revision = st.rev /\ NothingToInject /\ ~JournalAbsent ->
            Abandon /\ st' = MovedTo(st, Len(log))
       [] revision = st.rev /\ Injectable ->
            /\ op' = [op EXCEPT !.step = "inject", !.upto = Len(log),
                                !.resumed = st.journal # NoPiece]
            /\ UNCHANGED <<st, hook, spool, job, conn>>
       [] OTHER -> Abandon /\ UNCHANGED st
  /\ UNCHANGED <<server, task, native, unsure, spent>>

\* thread/resume is not answered: no native projection until a restart.
ResumeTimesOut ==
  /\ Working("project") /\ revision = st.rev /\ Injectable
  /\ Failing("timeout")
  /\ op' = NoOp /\ conn' = [conn EXCEPT !.nativeOff = TRUE, !.phase = AfterProject]
  /\ UNCHANGED <<server, job, task, native, hook, spool, st, unsure>>

\* thread/inject_items: a chunk the recovered item list names is not sent again,
\* and a journal of another event than the next one is refused.
NeedsInjection(p) == ~(op.resumed /\ p \in Range(injected))

Inject ==
  /\ op.step = "inject"
  /\ LET n == st.projection + 1
     IN  \/ /\ n > op.upto
            /\ Abandon /\ st' = MovedTo(st, op.upto) /\ UNCHANGED injected
         \/ /\ n <= op.upto /\ Acked(n)
            /\ st' = [st EXCEPT !.projection = n, !.delivery = Larger(@, n)]
            /\ UNCHANGED <<injected, op, hook, spool, job, conn>>
         \/ /\ n <= op.upto /\ ~Acked(n) /\ st.journal = NoPiece
            /\ st' = [st EXCEPT !.journal = <<n, 1>>]
            /\ UNCHANGED <<injected, op, hook, spool, job, conn>>
         \/ /\ n <= op.upto /\ ~Acked(n) /\ st.journal # NoPiece
            /\ IF st.journal[1] = n
               THEN /\ injected' = IF NeedsInjection(st.journal)
                                   THEN Append(injected, st.journal) ELSE injected
                    /\ op' = [op EXCEPT !.step = "save"]
                    /\ UNCHANGED <<hook, spool, job, conn>>
               ELSE Abandon /\ UNCHANGED injected
            /\ UNCHANGED st
  /\ UNCHANGED <<server, task, shown, carried, unsure, spent>>

SaveInjected ==
  /\ op.step = "save"
  /\ LET p == st.journal
     IN  st' = IF p[2] < Cardinality(Chunks(p[1]))
               THEN [st EXCEPT !.journal = <<p[1], p[2] + 1>>]
               ELSE [MovedTo(st, p[1]) EXCEPT !.journal = NoPiece]
  /\ op' = [op EXCEPT !.step = "inject"]
  /\ UNCHANGED <<server, job, task, native, hook, spool, conn, unsure, spent>>

\* The App Server has taken the chunk, its answer does not come.
InjectUnanswered ==
  /\ op.step = "save" /\ Failing("timeout")
  /\ Abandon
  /\ UNCHANGED <<server, task, native, st, unsure>>
-----------------------------------------------------------------------------
(* Consent, permissions, crash and restart of the connector.               *)

SetAuto(b) ==
  /\ Ready /\ Upsetting /\ st.auto # b
  /\ st' = [st EXCEPT !.auto = b]
  /\ UNCHANGED <<server, job, task, native, hook, spool, conn, op, unsure>>

\* initializeProjectSession: the automatic import happens when the task is
\* behind the session's revision; local publishing is not activated for a task
\* that still waits for its replacement.
Manage ==
  /\ conn.up /\ ~conn.managed /\ writer /\ Loadable(st) /\ op = NoOp
  /\ IF ~Current /\ Importable(st)
     THEN Switch([Imported(st, revision, Len(log)) EXCEPT !.listed = TRUE], Readable(Len(log)))
     ELSE ~st.reset /\ st' = [st EXCEPT !.listed = TRUE] /\ UNCHANGED native
  /\ conn' = [conn EXCEPT !.managed = TRUE, !.phase = "sync"]
  /\ UNCHANGED <<server, job, task, hook, spool, op, unsure, spent>>

\* reconcileProjectSessionPermissions
Unmanage ==
  /\ conn.up /\ conn.managed /\ ~writer /\ op = NoOp
  /\ conn' = [conn EXCEPT !.managed = FALSE]
  /\ st' = IF Loadable(st) THEN ClearUncommitted(st) ELSE st
  /\ UNCHANGED <<server, job, task, native, hook, spool, op, unsure, spent>>

\* A hook that was being served goes to the spool; so does one whose answer
\* was on the way.
Crash ==
  /\ conn.up /\ Failing("crash")
  /\ hook.at = "reply" => "reply" \in Faults
  /\ conn' = [up |-> FALSE, managed |-> FALSE, phase |-> "sync", nativeOff |-> FALSE]
  /\ op' = NoOp
  /\ unsure' = IF op.step = "ack" THEN unsure \cup {Head(st.pending).turn} ELSE unsure
  /\ IF op.kind = "hook" \/ hook.at = "reply"
     THEN spool' = Spooled /\ hook' = NoHook
     ELSE UNCHANGED <<spool, hook>>
  /\ UNCHANGED <<server, job, task, native, st>>

Start ==
  /\ ~conn.up
  /\ conn' = [conn EXCEPT !.up = TRUE]
  /\ UNCHANGED <<server, job, task, native, hook, spool, st, op, unsure, spent>>
-----------------------------------------------------------------------------
Loop == \/ \E kind \in {"sync", "project"} : BeginCycle(kind)
        \/ CycleFails \/ ClaimJob \/ BeginDrain \/ Rebuild
        \/ DrainNext \/ DrainEnds \/ Discover \/ Send \/ Commit \/ Ack \/ SyncEnds
        \/ Report \/ Import \/ Project \/ Inject \/ SaveInjected
        \/ Manage \/ Unmanage \/ Start

HookRuns == BeginHook \/ HookWork \/ HookSpools \/ HookReply

Others == \/ \E kind \in Kinds : Post(kind)
          \/ \E n \in DOMAIN log : Erase(n)
          \/ \E b \in BOOLEAN : SetWriter(b) \/ SetAuto(b)
          \/ \E kind \in JobKinds : CreateJob(kind)
          \/ \E t \in Turns : Finish(t) \/ Interrupt(t) \/ \E hooked \in BOOLEAN : Prompt(t, hooked)

Failures == RebuildFails \/ AnswerLost \/ ResumeTimesOut \/ InjectUnanswered \/ Crash

Next == Loop \/ HookRuns \/ Others \/ Failures

\* The connector's loop, which looks at the permissions in every round, and a
\* hook that was fired go on by themselves; nothing is assumed of the members,
\* the user and the failures.
Fairness == WF_vars(Loop) /\ WF_vars(HookRuns) /\ SF_vars(Manage) /\ SF_vars(Unmanage)

Spec == Init /\ [][Next]_vars /\ Fairness
-----------------------------------------------------------------------------
Kind == {"chat", "long", "control", "request", "tool", "response"}
Piece == Nat \X Nat
Draft == [rev: Int, through: Nat, chk: Piece, pieces: SUBSET Piece]
Entry == [turn: Turns, rev: Nat, tools: BOOLEAN]
StateFile == [gen: Nat, rev: Nat, reset: BOOLEAN, listed: BOOLEAN, auto: BOOLEAN,
              delivery: Nat, chk: Piece, projection: Nat, journal: Piece,
              drafts: [Turns -> Draft], pending: Seq(Entry),
              bind: [Turns -> {"none", "pending", "unknown", "acked"}]]
Operation == [kind: {"none", "hook", "sync", "project", "drain", "upload", "import"},
              step: {"none", "work", "rebuild", "send", "commit", "ack", "report",
                     "inject", "save"},
              rev: Nat, text: SUBSET Piece, upto: Nat, done: Nat, size: Nat, resumed: BOOLEAN]

Typed ==
  /\ log \in Seq([turn: Turns \cup {NoTurn}, kind: Kind, gone: BOOLEAN])
  /\ revision \in Nat /\ writer \in BOOLEAN
  /\ commits \in [Turns -> [rev: Int, tools: BOOLEAN]]
  /\ job \in [kind: JobKinds \cup {"none"}, through: Nat, rev: Nat, due: SUBSET Turns,
              status: {"none", "pending", "claimed", "completed", "failed"}]
  /\ task \in [Turns -> [status: {"new", "active", "completed", "interrupted"}, gen: Nat,
                         hooked: BOOLEAN, read: SUBSET Nat]]
  /\ shown \subseteq Piece /\ injected \in Seq(Piece) /\ carried \in Piece
  /\ hook \in [turn: Turns \cup {NoTurn}, name: {"none", "prompt", "stop", "cancel"},
               at: {"none", "sent", "reply"}, pieces: SUBSET Piece]
  /\ spool \in Seq([turn: Turns, name: {"prompt", "stop", "cancel"}])
  /\ st \in StateFile
  /\ conn \in [up: BOOLEAN, managed: BOOLEAN, nativeOff: BOOLEAN,
               phase: {"sync", "project", "job", "drain"}]
  /\ op \in Operation
  /\ unsure \subseteq Turns
  /\ spent \in [posts: 0..MaxPosts, upsets: 0..MaxUpsets]

\* What names a place in the log names one it has; nothing is ahead of the session's
\* revision, no turn ahead of the current task.
Places == (DOMAIN log) \X {1, 2}
Placed ==
  /\ st.rev <= revision /\ op.rev <= revision
  /\ st.delivery <= Len(log) /\ st.projection <= Len(log)
  /\ op.upto <= Len(log) /\ job.through <= Len(log)
  /\ st.chk \in Places \cup {NoPiece} /\ st.journal \in Places \cup {NoPiece}
  /\ shown \subseteq Places /\ Range(injected) \subseteq Places
  /\ hook.pieces \subseteq Places /\ op.text \subseteq Places
  /\ \A t \in Turns : /\ task[t].gen <= st.gen /\ task[t].read \subseteq DOMAIN log
                      /\ st.drafts[t].through <= Len(log)
                      /\ st.drafts[t].pieces \subseteq Places
                      /\ st.drafts[t].chk \in Places \cup {NoPiece}

\* Every variable has its type.
TypeOK == Typed /\ Placed

\* A local turn is in the session once, whatever was lost, crashed or retried
\* between its commit and the acknowledgement the outbox waits for.
CommittedOnce ==
  \A t \in Turns : \A kind \in {"request", "response"} :
    Cardinality({n \in DOMAIN log : log[n].turn = t /\ log[n].kind = kind}) <= 1

\* The delivery cursor passes nothing the task has not got: every event up to it
\* is the task's own, has been erased, or all its chunks were handed over, by a
\* capsule, by native injection or by an import. (Not so for the chunks before a
\* checkpoint that an import carried over into a task which never got them.)
TakenOver(p) == p[1] = carried[1] /\ p[2] < carried[2]
NothingOmitted ==
  \A n \in 1..st.delivery :
    \/ Own(n) \/ log[n].gone
    \/ \A k \in Chunks(n) : <<n, k>> \in Delivered \/ TakenOver(<<n, k>>)

\* A turn does not come back into the task it was typed in: the outbox is
\* synchronised before events are projected, and acknowledged turns are known.
\* (Not so for the tool events of an uploaded turn, nor while an answer is lost.)
NoEcho ==
  \A p \in Delivered :
    Own(p[1]) => log[p[1]].kind = "tool" \/ log[p[1]].turn \in unsure

\* Native injection repeats and reorders nothing, across every crash between an
\* injection and the save that records it.
InjectedInOrder ==
  \A i, j \in DOMAIN injected : i < j => Before(injected[i], injected[j])

\* What waits in the outbox has its binding; without it no synchronisation of
\* the session would succeed again.
OutboxBound ==
  \A i \in DOMAIN st.pending : st.bind[st.pending[i].turn] \in {"pending", "unknown"}

\* An answer the model wrote after reading an erased message is not in the
\* session: erased with it, or refused.
ErasedStaysOut ==
  \A t \in Turns : \A n \in task[t].read :
    log[n].gone /\ log[n].kind \in {"chat", "long"} =>
      \A m \in DOMAIN log : log[m].turn = t /\ log[m].kind # "request" => log[m].gone

\* A completed upload has uploaded every turn that was in the outbox.
CompletedUploadIsDone ==
  job.status = "completed" => \A t \in job.due : commits[t] # NoBody

\* What reaches the task is new to it, in order, and all there is.
DeliverySound == TypeOK /\ NoEcho /\ InjectedInOrder /\ NothingOmitted

\* What reaches the session is there once, was written in its present context,
\* can be sent while it waits, and has arrived when that is reported.
UploadSound == CommittedOnce /\ ErasedStaysOut /\ OutboxBound /\ CompletedUploadIsDone

\* The state file can be read back.
StateLoadable == Loadable(st)

\* A turn in the outbox is committed, or given up for one of the reasons the
\* code has.
OutboxDrains ==
  \A t \in Turns : Outboxed(st, t) ~> ~Outboxed(st, t) \/ ~st.auto \/ ~writer \/ ~Loadable(st)

\* The task catches up with the session, unless native projection is off, the
\* task is busy or the session cannot be written.
TaskCatchesUp ==
  st.projection < Len(log) ~> \/ st.projection = Len(log)
                              \/ conn.nativeOff \/ st.drafts # NoDrafts \/ TaskBusy
                              \/ ~writer \/ ~Loadable(st)
=============================================================================
