# GatherThread: a TLA+ verification project

GatherThread lets several people and their coding Agents (Codex, Claude Code, DeepSeek
Harness, hosted cloud Agents) share the event log of a conversation.  One authoritative
server orders everything; each Agent runs on its owner's computer behind a connector
that polls the server.  This directory models the parts of that system where order,
failure and concurrency decide whether it is correct.

## 1. The system

### Parts and the state they keep

| Part | Source | State | Operations |
|---|---|---|---|
| Event log and requests | `apps/server/src/database.ts`, `service.ts` | `sessions.next_sequence`, `sessions.content_revision`, append-only `events` with per-session sequence and idempotency key | `appendEvent`, `appendTeamAgentRequest`, replay |
| Agent request claims | `database.ts` 4533-4963 | `agent_request_claims` (status, runtime, attempt, lease, execution_pending), detached exit holds | claim, reclaim, abandon, progress, tool events, complete, acknowledge stop, pause |
| Message erasure | `database.ts` 3386-3567 | tombstones, `content_revision`, deletion receipts | `deleteMessage`, `invalidateContextExecutions`, purge |
| Membership and devices | `database.ts` 1431-1458, 3206-3342 | device credentials, `session_member_visibility`, memberships, `runtimes` | revoke, hide/show, role changes, register, heartbeat |
| Team runs | `agent-teams.ts`, `agent-team-store.ts` | `agent_team_runs`, `agent_team_steps`, control receipts | start, pump, consume, control, cancel, end, recover, forget, prune |
| Connectors | `packages/bridge/src/bridge.ts`, `daemon.ts`, `codex-connect.ts`, `cursors.ts` | durable cursor and stop receipts, execution journal, native threads | poll, execute, report, answer, materialize history, recover |
| Native executors | `codex-app-server.ts`, `claude-code-executor.ts`, `process-execution-state.ts`, `native-stop-receipts.ts` | journal of prepared/started/settled attempts, exit receipts | execute, recover, acknowledge |
| Realtime | `server.ts` 1733-1800, `apps/web/src/realtime.js` | one cursor per socket, one-use tickets | subscribe, replay pages, live fan-out |
| Local turns | `database.ts` 4965, `codex-app-server.ts`, `codex-hooks.ts` | `local_turn_commits`; the executor's state file, its outbox, the hook spool | capture, stage, flush, commit, inject, import, rebuild |
| Snapshot jobs | `database.ts` 5065-5350 | `snapshot_requests` with leases | create, claim, finish |
| Shared Agents | `agent-sharing.ts`, `agent-sharing-store.ts`, `shared-agent-controller.ts` | grants, jobs with lease, reserved seconds, cleanup_pending | save, control, claim, renew, complete, abort |
| Hosted Agents | `hosted-agent.ts`, `hosted-github.ts`, `hosted-agent-pool.ts` | runs, pauses, slots, daily budgets, containers | request, pause, run, recover |
| Code repository | `code-repository.ts`, `code-storage-budget.ts`, `scripts/prune-code-objects.mjs` | branch heads in SQLite and git, receipts, storage reservations | enable, checkpoint, review, merge, update, clear, repair, prune |
| Code synchroniser | `packages/bridge/src/code-sync.ts` | workspace, `binding.json`, backups, operation lock | upload, download, recover |
| Accounts | `registration.ts`, `dsh-pairing.ts`, `test-gate.ts`, `rate-limit.ts` | OTP rows, pairing intents, admission grants, windows | send, verify, pair, admit, consume |
| DSH connector | `packages/dsh-host/src/` | one durable state per conversation, outbox, execution gate | project, capture, execute |
| Web, desktop, MCP, adapters, protocol | `apps/web`, `apps/desktop`, `packages/mcp`, `packages/adapters`, `packages/protocol` | pages, windows, parsers, validators | |

### How they interact

Every method of `CollaborationDatabase` that changes state runs in one
`BEGIN IMMEDIATE` transaction of the server's only process, so methods interleave but do
not overlap.  Events reach browsers over a WebSocket after the commit; connectors never
receive a push but poll `readEvents` behind a durable cursor.  A connector claims a
request, executes it for minutes to hours, and calls back with progress, tool events and
an answer, each call carrying the runtime id and the attempt number it was granted.  Team
runs are driven by a pump inside the server that posts one request at a time and consumes
its answer.  Pause, erasure, hide and revoke reach an executing connector only when it
asks again.

### What is hard here

* A message of an old attempt may arrive at any later time: after a reclaim, a pause, an
  erasure, a restart of its run.
* Two clocks (lease and presence) run out independently; one runtime has one slot.
* A native turn outlives the claim that started it; the server may give the runtime to
  somebody else only once the turn is known to be gone.
* The erasure of one message changes the meaning of everything an Agent did after reading
  it, and must end everything that is under way.
* Several operations are two transactions (`pauseTeamAgentRequest`, `control` then
  `cancel`), and a crash may fall between.
* One monotonic cursor is the connector's only way to discover work.
* Two paths feed a browser, replay pages over HTTP and a socket that replays and then
  follows live; whichever is late must not show twice, skip, or bring back what is erased.
* A native task is written by its user, by hooks, by injection and by uploads, each through
  the same state file and each able to die between an effect and the save that records it.
* A process outlives the connector that started it; only evidence on disk tells the server
  that the runtime is free again.
* Heads of shared code live in SQLite, their objects in a Git store that a maintenance job
  prunes from a snapshot, and their copy in refs that are repaired afterwards.

`PROJECT.json` lists these hazards one by one with the line where each bites and the
property that watches it.

### What makes each part correct

* Claims: one holder at a time, only the current attempt is heard, at most one ending per
  request, attempts bounded, a paused request stays paused, the slot of a runtime is
  exclusive and outlives the claim while the turn may run.
* Erasure: nothing derived from the erased message survives, everything older is settled.
* Team runs: one step at a time, budgets never exceeded, each answer consumed once, a
  stopped run dispatches nothing.
* Connectors: nothing skipped, nothing executed twice, no request blocks the next.
* Native executors: no attempt started twice, no exit reported that did not happen.
* Realtime: each subscriber sees what it may read once, in order, without what is erased.
* Local turns and snapshots: at most one commit per turn, no result of an expired lease.
* Shared and hosted Agents: no work after OFF, no slot or second lost or counted twice.
* Code repository: a merge contains exactly the reviewed head; refs follow the database; no
  head loses its objects; no request takes effect twice; no local edit is lost that the
  synchroniser could have seen.

## 2. The modules

| Module | What it models | Source |
|---|---|---|
| `RequestContract` | abstract: what the server promises about each `agent_request` | |
| `AgentClaims` | the claim protocol, its fences, erasure, membership, devices and the Team gate, from one author's point of view | `database.ts`, `bridge.ts`, `process-execution-state.ts` |
| `AgentClaimsContract` | the refinement mappings from `AgentClaims` to `RequestContract` and, for any one Team run (`Watched`), to `TeamControl` | |
| `Connector` | polling, cursor and execution loop of the connectors, composed with `AgentClaims` | `bridge.ts`, `daemon.ts`, `codex-connect.ts`, `cursors.ts` |
| `TeamControl` | abstract: what a Team run promises about its requests | |
| `TeamRun` | the coordinator of one Team run: steps, budget, call stack, deadline, controls, cancellation, crash and recovery | `agent-teams.ts`, `agent-team-store.ts`, `agent-team-schema.ts` |
| `AgentSharing` | sharing of a member's native Agents: grants, jobs, leases, allowance, OFF, the slot shared with ordinary claims | `agent-sharing.ts`, `agent-sharing-store.ts`, `database.ts`, `shared-agent-controller.ts` |
| `NativeExecution` | the processes of Team requests, their journal, owner file and exit receipts, and the holds of the server on one pool | `process-execution-state.ts`, `native-stop-receipts.ts`, `codex-connect.ts`, `bridge.ts`, `claude-code-executor.ts`, `database.ts` |
| `SessionSync` | one session between the server's log and a browser: replay pages, socket replay, fan-out, recovery | `realtime.js`, `api.js`, `server.ts`, `database.ts` |
| `DesktopThread` | one session mirrored into a Codex task: capsules, injection, hooks, outbox, uploads, imports, erasure | `codex-app-server.ts`, `codex-connect.ts`, `codex-hooks.ts`, `database.ts` |
| `CodeRepository` | the cloud code of a project: heads, reviews, receipts, Git objects and refs, daily maintenance | `code-repository.ts`, `database.ts`, `server.ts`, `prune-code-objects.mjs`, `code-sync.js`, `workspace-files.js` |
| `CodeSync` | one member's workspace beside it, composed with `CodeRepository` | `code-sync.ts` |
| `AgentClaimsProofs`, `TeamRunProofs`, `AgentSharingProofs`, `NativeExecutionProofs`, `CodeSyncProofs`, `DesktopThreadProofs`, `SessionSyncProofs` | theorems about the module each extends | |
| `AgentLogProofs` | theorems about `AgentClaims`, `AgentClaimsContract` and `Connector` together | |
| `MC...` | instances for TLC | |

`Connector` extends `AgentClaims`: a connector's step is a conjunction of a claim action
and of what it does to its cursor.  `CodeSync` extends `CodeRepository` in the same way: what
a device sends is a request of the repository, and every other step of the repository is its
environment.  `TeamRun` and `AgentClaims` meet in `TeamControl`: both implement it, `TeamRun`
because of what the coordinator does and `AgentClaims` because of what the server admits for
its abridged run, so what each assumes of the other is what the other delivers.  The other
modules stand alone and see a neighbour only through what it can do to them:
`AgentSharing` sees an ordinary claim as something that occupies a native slot (`turns`) and a
Team run as something that may refuse one of its jobs (`stopped`); `NativeExecution` sees the
claim protocol as grants, refusals and early ends, and details the part of it that
`AgentClaims` keeps as `exec` and `execution_pending`; `SessionSync` and `DesktopThread` see
each other's users as appends and erasures in the log.

Operators named `X_Y` are the definition `X` as a plausible bug would write it.  They are
part of no specification; they show that a property can tell the difference.

### AgentClaims

The variables are the rows of one session that concern one author: `head` and `revision`
are `sessions.next_sequence` and `content_revision`; `chats`, `request` and `work` are
`events` by type; `claim` is `agent_request_claims`; `run` is the part of `agent_team_runs`
that the gate `teamRequestMayExecute` reads; `presence`, `devices`, `visible` and
`blocked` are runtimes, device credentials and the membership cut-off.  `exec` alone is not
in the database: it is what the connector really does with each attempt it was granted, so
that a property can compare what the server believes with what runs.

Each method of `CollaborationDatabase` is one action, because it is one `BEGIN IMMEDIATE`
transaction: `ClaimFresh`, `Reclaim` and `Abandon` are the three successful outcomes of
`claimAgentRequest`; `Progress`, `Tool` and `Complete` share `Publish`, the fence that
`isCurrentClaimAttempt` and `assertRequestContextCurrent` put before every append; `Pause`
is `pauseAgentRequest`; `Erase` is `deleteMessage` with everything
`invalidateContextExecutions` appends.  `pauseTeamAgentRequest` commits twice and is
therefore two actions, `StubClaim` and `PauseStep`.  The deletion of a run's row fires the
trigger `agent_team_runs_native_claim_cleanup` (`CleanedUp`).

Abstractions: time is the remaining lease of each claim, counted down by `Tick`, with zero
for "expired" and NULL alike; the session stays active (archiving is not modelled);
idempotent repeats change nothing and are not steps; appends are never refused for quota;
a heartbeat is folded into `Register`; the deadline check of `teamRequestMayExecute` is
part of `HaltRun`; requests to hosted and shared Agents go to other tables and are left
out, as are detached exit holds and the capacity around them (`NativeExecution` has
those); Team prompts depend on earlier prompts and answers of their run, while
clarification messages, history summaries and context snapshots are left out.

### Connector

`cursor` is the durable server cursor of each connector, `hand` the request
`processAgentRequest` executes, both per runtime.  `Take`, `GiveUp` and `Pass` are the
outcomes of asking for the claim of the next event: it is executed, the claim call itself
ended it, or the cursor moves on because `isTerminalAgentRequestClaimConflict` recognises
the refusal; any other refusal leaves the cursor where it is.  `Deliver`, `ObserveStop`,
`Recheck` and `Throw` are the ways an execution returns.  `Restart` is a crash of a runtime
in `Crashing`, at any time and any number of times; a project connector (`Projecting`)
projects the whole authoritative history before it polls again.  Only ordinary requests are
modelled here, and the author stays connected.  Untargeted Codex requests may be reclaimed by
another Codex runtime, as `INTERFACE_CONTRACTS.md` exempts them from exact routing.

### TeamRun

`status`, `reason`, `calls`, `current`, `frame`, `deferred` are the columns of
`agent_team_runs`, `step` the rows of `agent_team_steps` with what became of the request of
each (`exec`, `answer`), `overdue` and `authorized` what the clock and
`assertTeamRunAuthority` say.  Handlers of the server do not overlap, but `control` and
`end` commit a decision first and cancel the execution under way afterwards: `todo` is the
uncommitted second half, during which only a crash may happen, and `Cancel` and `Proceed`
are those halves.  A cancellation that fails is swallowed (`cancel`'s empty `catch`);
`Retire` is the retry of `retryNativeCancellation`.

`Prepare` and `Ask` are `pending` and `accepted`; `Hear...` are the branches of `consume`;
`EndAs` is `end`; `Crash` runs `failInterruptedHostedAgentJobs`, the constructor of
`AgentSharing` and `recover` in the order `server.ts` does.  `exec` abstracts the three
executors (a claim, a hosted run, a shared job); a response the server publishes by itself
is "fenced" when the run no longer waited for the step and "ended" otherwise, which is the
distinction between `agent_team_stopped`/`access_changed` and a real result.

Left out: probes of a saved Team, storage charges and control receipts, the limit of two
active runs and start keys, answers from a wrong route, the fresh target check before a
resume (it only refuses), the exact delay of retries (any time).  That the author has
posted a clarification is assumed by `Clarify`.

### AgentSharing

`db` holds the tables the broker writes: `share` is `agent_shares`, `job` is
`agent_share_jobs`, `usage` is `agent_share_usage`, `log` what the requester's session
shows under each request.  They are one record because most handlers are two transactions
without anything between them, the pump and their own, so an action maps the tables through
`Pumped` and then through what it does itself.  `Finish` is `finish` of a broker that ends a
job with its account and its answer; `Fenced` is the shorter ending inside the transactions
of `database.ts` (membership, device, erasure), whose account and answer the next pump
settles.  `exec` is not in the tables: it is what the owner's computer does with a job it
was handed, until `complete` or `abort-ack` has been confirmed.

Abstractions: `cancelled`, `failed` and `timed_out` are one status, `over`; a duration is
counted in requests, of which each reserves one and uses one if it was handed out; lease and
deadline are flags the clock sets at any moment; two weeks are a change of day; each member
asks in one session.  `max_concurrent` is 1 by the schema, so the test of the pool implies
the test of the share.  The renewal of a lease and idempotent repeats change no state of
this model beyond their pump.

Left out: profiles and catalogs, changes of the limits by `save`, the capacities of queues
and receipts, the emergency barrier, the deletion of an account, the receipt files of the
computer, the isolation of the executor.

### NativeExecution

On the server `claim` and `pending` are the claim row and its `execution_pending`, `holds` the
rows of `agent_native_exit_holds` (where `DeleteSession` moves the pending ones), `Limit` the
capacity that `nativeHoldCapacityFull` compares with.  On disk, per session, `journal` holds
the entries of `ProcessExecutionState` by phase, `owner` says whether its `.owner` file is
there, `receipts` and `passed` are `stoppedExecutions` and the position of the cursor file.
`proc` is what the operating system knows.  `conn` is the single loop of the connector: which
session and request it is at, what it waits for, and what a recovery started with (`prev`).

A poll is `Face` (recover the session first), `SendReceipt`, `NoteExit`, `DropReceipt` for each
receipt that is still out, `Collect` and `Flushed`, then `Claim` (grant, refusal, or a request
that has ended), `Acquire` (owner file), `Execute` (journal entry "prepared"), `Spawn`,
`Started`, `Settle` or `GiveUp`, `Publish`, `PruneAnswered`, `PushReceipt`.  An answer that is
refused or lost is thrown (`Closing`): its receipt goes out all the same, and the cursor stays
before the request, which the next poll finds ended.  Every one of
these is a separate write or call, so that `Crash` and `Lost` may fall between any two.
`Crash` kills the connector alone: its processes live on until `Exit`.  `Scan` is the recovery
at the start of the connector, `Repair` the operator who removes a stale owner file.

Abstractions: a Team request never gets a second attempt, so requests stand for attempts; the
scan at the start and the recovery inside `connect()` are one; a session whose owner file was
left behind refuses as the code does when its journal exists; `ClaimEnds` is every way a claim
ends without this connector.

### SessionSync

`log`, `revision` and the constant page size are the server; `socket` holds both ends of each
connection, what is on the `wire` and where the server's replay of it stands; `receipts` are
deletion receipts on their way; `client` is the object `RealtimeSession`: phase, position,
events, gap buffer, content revision, reconnect timer, and the coroutines under way as records
(`recs` for `#recover`, `opening` for `#openSocket`).  What the client does between two awaits
is one action, written as a composition of operators on that record: `OnSocketEvent`,
`OnSocketPage`, `OnSocketCursor`, `Invalidate`, `DrainBuffer`, `TakePage`, `ResumeRecover`.  Pages
and the gap buffer are sets of rows, `InOrder` is the order in which the code reads them: a replay
page is sorted by position, and the buffer is drained by position.

On the server `Subscribe` and `PageSent` are the loop of the "connection" handler, which waits
for each page to leave before it asks for the next; `FanOut` in `AppendEvent` and `Erase` sends
to the sockets that replay no more.  A reader who is not the owner gets the position alone of
an owner-only event.  Failures: a dropped connection, a failed HTTP request, a refused ticket,
a replay that fails half-way, a refused subscription.  The sixth kind, `overlap`, is no failure
of the network but a retry (by the timer or by hand) while a refresh is still reading the whole
history again: `retry()` does not look for a recovery in flight.  Runs and theorems name
whether they allow it.

Abstractions: one session per socket, one reader; `reset()` starts a new generation after
which older coroutines change nothing, so they are dropped; heartbeats, rate limits and
revoked devices are left out.

### DesktopThread

`st` is the file the executor saves by an atomic rename: delivery and projection cursors,
checkpoint of an unfinished capsule, injection journal, drafts, outbox (`pending`), bindings
of turns, generation and revision.  `op` is the operation that holds the writer lock, cut into
steps at each save, each native effect and each call; `conn` the connector's loop (`sync`,
`project`, `job`, `drain`), `hook` a hook process, `spool` the file hooks leave when they find no
connector.  `task`, `shown` and `injected` are the native side: turns, and what the model was
given by capsules, imports and injection; `carried` remembers, for the properties alone, the
checkpoint a task took over from the one before it.  `log`, `commits`, `writer` and `job` are the server.

Down: `BeginHook`/`HookWork`/`HookReply` hand a capsule of at most `Budget` chunks to a prompt,
`Project`/`Inject`/`SaveInjected` inject while the task is idle, and refuse
a journal whose event is gone or is not the next one.  Up: `HookWork` captures a turn,
`Discover` finds it for a manual upload, `Send`, `Commit` (`commitLocalTurn`, with its digest),
`Ack`.  An erasure retires the task (`Rebuild`).  Faults: crash, lost answer, native time-out,
failed rebuild; the fault "reply" (the answer to a hook is lost) exists and is not used by a run,
see the last list of section 5.

Abstractions: an operation and its `#ensureDeletionRevision` are one critical section; the
behaviour starts after the first visible-history import; chunks are counted, not measured; the
background executor of requests is not part of it (`Connector`, `NativeExecution`).

### CodeRepository

`repo`, `branch`, `members` and `receipts` are the rows, `commits` and `stored` the Git store,
`refs` the copy of the heads in Git, `old` what is past the retention of the maintenance.  A
request goes through `Write` (its objects, which waits while the maintenance holds the lock),
`Commit` (rows and receipt in one transaction) and `Repair`, which may fail silently
(`repairRefs`); `Alter` is an operation that makes no commit, `Leave` the removal of a member,
`Refuse` everything that is not accepted.  `Crash` may fall between any two; SQLite rolls back.
`Send` and `Retry` are the browsers, whose replies may be lost: `Retry` repeats the same key.
`Decisions` are what the owner alone may ask for, `Contributions` what every member does with a
branch, the owner included when it is in `Writer`, `Departures` the removal of any other member.
`Age`, `Snapshot` and `Sweep` are the daily maintenance.  `submitted` and `applied` are history
variables for the properties.

A commit is its place in `commits` and keeps its tree and its ancestors; trees are functions
from files to contents and merge file by file against `MergeBases`.

### CodeSync

`binding` is `binding.json` (base commit, baseline tree, and whether an operation was torn),
`files` the workspace, `backups` what downloads and recoveries left aside, `dev` the operation
that holds `operation.lock`.  `Adopt`, `Post`, `Serve`, `Replay`, `Fail`, `Verify` are an upload with
its lost replies and its read-back; `Download`, then `Check` and `Put` for one file after the
other, deletions last (the last comparison with the baseline, code-sync.ts:694 and 702, and the
rename or unlink, 698 and 703), and `Placed` are a download; `Recover` and `Stop` what follows
a crash.  `Edit` is the member, at any moment, between `Check` and `Put` too.  `last` and
`overtaken` are history variables: what the member last left in each file, and the files that
`Put` replaced although they had been saved since their `Check`.

Abstractions: the two reads of the cloud, the reading of the files and their first checks are one
step, since each is checked again before it matters.

## 3. What the runs check

| Run | Instance | Question |
|---|---|---|
| `claims` | a Team step and an ordinary request on one runtime, a second device, 2 attempts, 1 chat, 1 output, 1 erasure | the slot of a runtime is exclusive and outlives the claim of a Team turn; the private claim rows and the public log tell one story; no grant over a Team turn; refines `RequestContract` and `TeamControl` |
| `serve` | 1 request, a projecting connector and a generic one that crashes, 2 attempts, 1 chat, 2 outputs, 2 erasures | no cursor passes work that is still owed; attempts are heard in order and nobody after the end; an erasure settles everything; every request is settled in the end |
| `delegate` | 3 nodes on three kinds of executor, a mutual pair and a helper, 3 calls, 3 steps, 2 faults | budget, lineage, call stack, order of the steps and of what is executed; the run ends in time and releases what it left; refines `TeamControl` |
| `sharing` | 1 share, 1 borrower, 2 Team jobs, 1 ordinary turn, one slot, 2 switches of the grant, 2 days, 1 interruption | no slot held twice, books that balance, no allowance exceeded, one answer per request whoever ends it, silence after OFF |
| `native` | 2 sessions with a Team request each in one pool of one hold, 1 deletion, 1 early end, 1 crash, 1 fault | the journal tells the truth, nothing runs twice, no confirmed exit is forgotten, no hold ends before its process, and every confirmed exit reaches the server |
| `follow` | an owner or another member, 3 events, pages of one event, 2 sockets, 1 erasure, 1 press of Retry, 2 recoveries in flight, 1 failure of any of five kinds | nothing is shown after its erasure; the owner misses nothing and sees nothing twice; the wire of a socket is complete; the client catches up |
| `desktop` | 1 turn with tools, 1 long post, capsules of one chunk, uploads and imports, 2 upsets | what is delivered is new, in order and complete; what is committed is committed once and belongs to the present context; both directions drain |
| `code` | 1 member beside the owner, 2 files, 4 commits, crashes, lost replies, maintenance, 1 workspace | no head loses its objects; main takes only what was submitted and every request takes effect once; no local edit is lost but one saved between the last check of a file and its replacement; refs catch up |
| `wedge_erasure` | as `serve`, a project connector alone, 2 requests, 1 erasure | finding 1 |
| `pause_crash` | 2 shared nodes, 2 calls, 1 fault | finding 2 |
| `import_checkpoint` | as `desktop` | finding 3 |
| `overlap` | as `follow`, with a dropped connection and a retry during a refresh | finding 4 |

The properties, each stated and explained beside its definition:

* `claims`: `TypeOK`, `SlotExclusive`, `ClaimMatchesLog` (with at most one live answer),
  `PendingHeld`, `ImplementsContract`, `NoGrantOverTeamTurn`, `RunImplementsTeamControl`.
* `serve`: `HeardInOrder` (`NothingSkipped`, `AttemptsInOrder`, `StopIsFinal`),
  `ErasureComplete` (`ErasureSettles`, `NoOutputFromErased`), `EventuallySettled`.
* `delegate`: `RunTypeOK`, `BudgetKept`, `Lineage`, `CallChain`, `StepsInOrder` (`RoomToAsk`,
  `NoAnswerLost`, `OneAtATime`), `ImplementsTeamControl`, `EndsInTime`, `CancelsWhatItLeft`
  (`NoSelfCancel`, `OutstandingEnds`).
* `sharing`: `BrokerTypeOK`, `SlotHeldByOne`, `BooksKept` (`ReservesBalance`, `BudgetKept`),
  `AnsweredOnce` (`AnswerIsLast`, `CompletedMeansAnswered`, `PumpAnswers`), `SilentAfterOff`.
* `native`: `JournalTrue` (`TypeOK`, `WhereItIs`, `ExitsAreReal`, `OneProcess`), `EvidenceKept`,
  `WithinCapacity`, `HoldUntilExit`, `ExitIsReported`.
* `follow`: `TimelineSound` (`TypeOK`, `ErasedStaysHidden`), `OwnerMissesNothing`
  (`NothingLost`, `TimelineOrdered` for an owner), `WireComplete`, `CatchesUp`.
* `desktop`: `DeliverySound` (`TypeOK`, `NoEcho`, `InjectedInOrder`, `NothingOmitted`), `UploadSound`
  (`CommittedOnce`, `ErasedStaysOut`, `OutboxBound`, `CompletedUploadIsDone`), `OutboxDrains`,
  `TaskCatchesUp`.
* `code`: `StoreSound` (`CodeTypeOK`, `HeadsStored`), `WorkspaceSound` (`SyncTypeOK`,
  `BaselineTrue`, `LocalWorkKept`, which excepts `overtaken` by name), `HistorySound` (`MergedIsInMain`, `MergedAsReviewed`,
  `AppliedOnce`, `FastForwardOnly`), `RefsCatchUp`.

### Bounds

* `Lease = 1`: a lease is running or has lapsed; its length plays no other part.
* `MaxAttempts = 2`: the real limit is 3; two attempts are enough for a late message of a
  superseded attempt, a reclaim by the same and by another runtime, and abandonment at
  the limit.  The theorems hold for every limit.
* `claims` starts in one of two families (`MCSpec`): with both devices and a log that is
  already long (`MaxHead` bounds it), or with one device and an empty log, where everything is
  appended.  Together they have the loss of a device and the full order of appends, which one
  instance cannot afford.  One runtime: that two runtimes race is what `serve` has.
* `serve`: one request is enough for a race of two connectors; 2 erasures because properties
  compare revisions (an answer between two erasures).  Crashes of the generic connector are
  unbounded.  The projecting one does not crash: a restart projects the history and moves the
  cursor past unexecuted requests, see the last list of section 5.
* `delegate`: 3 calls for the real 48, 3 steps for 49: enough to delegate, return, drop a step
  and reach each limit before the other.  `calls` and `step` are bounded by the code itself.
  `MaxFaults = 2`: a crash and a failed cancellation, in either order, or two of a kind.
* `sharing`: `MaxGrants = 2` (a grant, and one that replaces it), `MaxDay = 1` (a
  reservation that outlives its day), `MaxOutputs = 1`, `MaxFaults = 1` interruption: OFF of
  a source or the computer, silence, restart, loss of the borrower or the owner, erasure,
  halt of the Team run.  Lost executions, lapsed leases, deadlines and the new day are not
  counted, so each of them meets every interruption.  The allowance is two calls and the
  time of one, so that either limit refuses first.  The jobs are interchangeable, all are
  Team jobs, and all properties are safety: the symmetry is sound.
* `native`: `Limit = 1` so that the two sessions compete; one of them may be deleted
  (`Erasable`); `MaxEnds`, `MaxCrashes` and `MaxFaults` are 1.  An instance with a second request
  in the first session (817,607 states) satisfies the safety properties as well, and the
  theorems hold for every instance.
* `follow`: pages of one event, so that every replay has several; 3 events for one that is late,
  one that overtakes it and one that is erased; two sockets, the one that is closed and its
  successor; two recoveries in flight when a retry starts a third (`MaxRecs`); one failure of any
  kind.  Repeated failures repeat the same recovery.  The theorems hold for every bound.
* `desktop`: a post of two chunks against capsules of one, so that capsules stop within an
  event; `MaxUpsets = 2` erasures, jobs, changes of role or consent and faults together.
* `code`: five families of initial states (`Family` in `MCCodeSync`): an empty project and one
  with a submitted branch under maintenance and a crash; the same branch with three browser
  requests and a retry; a workspace with edits against a project whose main has moved; a
  workspace that may crash beside a branch.  One writer beside the owner: merges of two
  writers with conflicts and a branch of the owner's own are in the module, and not in the
  instance (with `Writer = {ana, owner}` it has 4,298,559 states, and all properties hold); the
  theorems are about any number of writers, the owner among them or not, and any number of
  files, requests and commits.

`CHECK_DEADLOCK FALSE` stands where the system may stop: all requests served, a run that was
forgotten, a session in which the bounds let nothing more happen.

### Fairness

* `Connector`: time passes (`Tick`), each connector keeps polling, and every execution
  returns or throws.  That is what `BridgeDaemon.run` and the project connector's loop do;
  nothing says that an execution succeeds or reports progress, and restarts are never fair.
* `TeamRun`: the deadline passes, the pump runs (`EndOverdue`, `Retire`, and `ServerEnds`
  for the hosted runner and the broker's own pump, both timers of the server), and a
  handler runs to its end unless the server crashes (`Cancel`, `Proceed`).  Executors,
  connectors and the author owe nothing.
* `AgentSharing` states none.  `PumpAnswers` is the safety half of "every accepted request is
  answered": one pass of the pump answers everything that is overdue or has ended.  The
  deadline of each job and the pump's timer, every 500 ms, are the other half.
* `NativeExecution`: the connector's loop goes on, it is started again after a crash, a process
  exits in the end; every session and request gets its turn again and again (strong fairness of
  `Scan` and `Face`: the loop serves its sessions one after the other), and an operator removes
  a stale owner file, as the error message asks.  No call is assumed to succeed more than
  `MaxFaults` allows to fail.
* `SessionSync`: what is on its way arrives (`Progress`: server loops, sockets, replies, deletion
  receipts) and the reconnect timer fires.  `CatchesUp` is about a client that met at
  most a dropped connection: other failures put it into a phase that waits for its user, and a
  press of Retry may start the cycle of section 5.
* `DesktopThread`: the connector's loop and the hook processes run, and the loop looks again at
  whether the task is managed (strong fairness of `Manage` and `Unmanage`).  The user owes
  nothing, nor does Codex.
* `CodeRepository`: calls end (`Commit`, `Serve`) and the maintenance runs every day
  (`Snapshot`, `Sweep`: `deploy/aliyun-ecs/gatherthread-code-retention.timer`).  `RefsCatchUp`
  holds where that timer is installed; without it only a later call of the same project repairs
  refs.

## 4. What is proved

All theorems hold for any finite number of requests, and for any runtimes, devices, runs,
plans, sessions, members, files, limits and bounds that satisfy `ConstantsAssumption`,
`PlanAssumption`, `SharingAssumption`, `NativeAssumption`, `DesktopAssumption`, or
`CodeAssumption` and `SyncAssumption`.

`AgentClaimsProofs`

* `TypeCorrect`: `TypeOK` is inductive.
* `OneClaimPerRuntime`: `SlotExclusive` is inductive relative to `TypeOK`.  A grant checks
  that the runtime is free (`GrantSlot`); every other action only frees slots
  (`ReleaseSlot`).
* `TeamTurnIsAwaited`: `PendingHeld` is inductive relative to `TypeOK`.  It is what the
  server must remember: the claim row of a Team attempt that may still run names it and
  waits for it, also after the run's record is gone.
* `TeamTurnKeepsItsRuntime`: the action property follows from `PendingHeld` and the check
  of the slot.

`AgentLogProofs`

* The claim rows are private and mutable, the log is public and only grows; the properties say
  that the two tell one story.  `RoomInvariant` is what ties them: where the rows stand
  (`RowsPlaced`), what a claim says of its past (`ClaimRows`), what each row of the log says of
  the claim of its request (`LogOfClaims`: a runtime was heard under no later attempt than the
  claim's, and what told the room of an end was no lie), and what an erasure leaves of a Team
  run (`RunsCut`: it forgets every run, so that no step is ever added behind an erased answer).
* `StepKinds` sorts the actions by what they do to the log: write nothing (`Quiet`), take a
  claim, ask, `Append` one row of a claimed request, or erase.  Each kind has one lemma for the
  invariant and one for the contract.
* An erasure is the only step that rewrites rows.  `EraseIsErasure` states once what
  `invalidateContextExecutions` and its closure do to chats, requests, outputs, claims and runs
  (`Erasure`); the notices it appends get distinct places behind the old head.  The closure is
  a recursive function of the number of rounds, of which `ClosureReach` and `FirstOutput`
  say what is needed by the least-number principle, not by induction.
* `OneAnswerPerRequest` and `ErasureIsComplete` are parts of the invariant.
  `ClaimsImplementContract` maps each kind of step to an action of `RequestContract` or to a
  stutter: the first refinement the runs check is a theorem.
* `RunsImplementControl` does the same for the Team run an observer looks at (`Watched`, any of
  `Run`).  `RoomInv` almost suffices: a request of the run that was asked means that the run
  exists, and one whose claim is open has no response yet.  What it lacks is that the run waits
  for one of its own requests (`StepIsOwn`).  With `RunImplementsControl` of `TeamRun`, the
  abridged run of `AgentClaims` and the coordinator promise the room the same, for every
  instance.
* `CursorsSkipNothing` adds `CursorInv` for the connectors: what an execution under way holds
  lies directly ahead of its cursor (`HandNext`), whatever the others do meanwhile.  It
  assumes `Crashing \cap Projecting = {}`: a project connector which restarts does skip
  requests (codex-connect.ts:984, section 5), so the promise ends there.

`TeamRunProofs`

* The invariant is `IInv = RunTypeOK /\ StepShape /\ CurrentIsFrame /\ Future /\ Lineage /\
  CallChain`.  `Lineage` alone is not inductive: a new step copies its caller from the
  frame, so the frame must be known to name the top of the stack (`CallChain`); the
  stack's members must have been heard and what a heard step said must never change
  (`StepShape`, lemma family `Frozen...`); and the frame kept for a repeated step must be
  the one its predecessor was asked with (`CurrentIsFrame`).
* All actions but six leave the plan where it is and only let executions evolve (`Quiet`);
  one lemma (`QuietStep`) serves them all.
* `TypeCorrect`, `OnlyDelegated`, `ReturnsToCaller` are its parts.  `BudgetHolds` adds a
  second induction on `calls = Cardinality(Asked)`.
* `OneStepAtATime`: what `StepsInOrder` says of a running run is decided while it is halted, so
  it needs a second invariant, `Ordered`.  `Steering` says which halves of a handler are
  possible, `Explained` that a run which waits for its author has heard the step it waits
  about, `CanPay` that a run without calls left still has an answer to use.
  `LeftBehind` counts what a cancellation that failed may leave executing; `Stilled` is why
  fewer than two faults cannot leave two: a run whose cancellations all succeeded has nothing
  executing at all when it is paused.
* `RunImplementsControl`: each action maps to one of `TeamControl` or to a stutter.  The
  substitution names the last request of a run, so `HasLast` (the requests of a run have a
  maximum) is carried as an invariant instead of being proved by induction over finite sets;
  `Calm` steps, which start no work and hear no directive, are told apart only by the phase
  they lead to.
* `NothingElseCutOff` is the action property `NoSelfCancel`, the safety half of
  `CancelsWhatItLeft`.  The guards carry it, given the types: what cancels is refused while the
  run goes on (`Cancel`, `Again`, `Retire`), and what cuts off a running step halts the run.

`AgentSharingProofs`

* The invariant is `IInv = BrokerTypeOK /\ Awaited /\ OneWaits /\ Guarded`.  `SlotHeldByOne` speaks of
  what the computer does, which the server does not see; the server's guard speaks of rows.
  `Guarded` ties them: a job whose process may exist has `cleanup_pending` set.  `Awaited` (a
  running job has it, an open or pruned one never) is what lets the pump and every fence end
  jobs without freeing a slot, and `OneWaits` is the exclusion among the rows.
* Each transformation of the tables (`Release`, `Tell`, `Finish`, `Fenced`, `Settled`, `Swept`,
  `Expired`, `Pumped`) has a lemma: it keeps the types and, as far as it should, which rows hold
  a slot (`SameHeld`).  All but four actions are then `Quiet`; `Claim` and `TakeTurn` take a
  slot they found free, `AckStopped` and `Complete` free the one of an execution that has exited.
* `TypeCorrect` and `SlotsAreExclusive` are its consequences.
* `AccountsKept`, `RequestsAnswered` and `GrantsEnd` share the invariant `Kept = IInv /\ Books(db)
  /\ Answers(db)`.  `Books` says that what an account has reserved is the number of its jobs
  which hold a reservation (`Holding`), that a limit is never passed, and that an account with
  reservations is in use; `Answers` relates each job to what its room was shown.
* Ends, fences and the pump are compositions of the same few transformations, so two relations
  between tables do most of the work: `Evolves` (jobs end or are deleted, grants are switched
  off, and who is not answered hears of the end, once) is transitive and keeps `Answers`;
  `SameBooks` keeps `Books`.  Only what settles an account needs cardinalities (`ReleaseBooks`,
  `SweptBooks`); the pump follows from its parts (`PumpedEvolves`).
* `GrantsEnd` is the action property `SilentAfterOff`: a job accepted under a grant that was
  switched off or changed is neither started nor heard again.  What starts a job or shows
  native text checks the grant it was accepted under, and the revision of a grant never returns.

`NativeExecutionProofs`

* `JournalCorrect`: `JournalTrue` is inductive, with one lemma for each of its conjuncts
  (`TypeStep`, `WhereStep`, `ExitsStep`, `ProcessStep`).  That no request runs twice
  (`OneProcess`) needs to know at each point of the loop what has been granted and written
  (`WhereItIs`), and that a receipt or a settled entry stands for a real exit (`ExitsAreReal`).
* `HoldsLast` and `CapacityKept` follow from what one step may do to the set of holds
  (`HoldStep`): nothing, end one whose process has exited, or add one while there is room.
* `EvidenceCorrect` needs more, because evidence is dropped in two places, the journal and the
  cursor file, each after a look at something else.  The invariant adds to `EvidenceKept` that
  an entry marked as reported has no hold (`Reported`), a living process an unsettled entry
  (`Living`), that the server has heard whenever the connector is about to drop something
  (`Heard`), that what a recovery carries is still there or was answered (`Carried`), and that
  everything settled was collected before a claim is made (`Collected`).  Three lemmas say what
  a step may do to an entry, a receipt and a process (`JournalMoves`, `ReceiptsStay`,
  `ProcessMoves`), and one from where each point of the loop is reached (`Arrives`).

`CodeSyncProofs`

* `StoreKept`, `WorkKept` and `HistoryKept` share one invariant of the repository and the
  workspace together, `Inv = RepositoryOK /\ RequestsOK /\ DeviceOK`.
* `RepositoryOK`: commits are made whole with a closed history (`GraphOK`); rows name commits,
  a merged branch is in main and a requested one stands at its submitted head (`RowsOK`);
  what a head, a ref or the snapshot of the maintenance reaches is stored (`StoreOK`).
  The maintenance is safe although it works from heads that may be stale: whatever the current
  heads reach *and is past the retention* is also reached from its snapshot (a commit made
  since is young, and one that is not new is reached from a head it names).  For a request
  between its Git objects and its transaction the same is said of the commit it wrote (`Ready`),
  together with everything its checks established: no other call can invalidate them, since
  a call does not yield.
* `RequestsOK`: a key belongs to one request; a key that took effect has a receipt, possibly a
  voided one, or, for a removal, which keeps none, a member who is gone.  A removal can thus
  only be applied once although nothing remembers it.  A receipt of an upload, whose key is the
  hash of base and files, names a commit with those files.
* `DeviceOK`: `BaselineTrue` and `LocalWorkKept`, and what an upload or a download under way has
  established: the commit of an answer has the files that were sent, the one being placed
  the files that are placed, the baseline it replaces is in a backup, and a file between its
  `Check` and its `Put` was seen as that baseline has it.  That is why a `Put` costs the member
  nothing unless the file was saved in between, which is the exception the property names: what
  was typed then is in no backup, and no lock of the synchroniser keeps the editor out (`docs/CODE_SYNC.md:97`).
* One lemma for each action and part (`...Repository`, `...Requests`, `...Device`), then `Step`.
  `Promises`, the action properties of `HistorySound`, follow in the same lemmas: only
  `Install` and `Leave` move heads.

`DesktopThreadProofs`

* `UploadIsSound` follows from `UploadInv`, of which `ErasedStaysOut` and `CompletedUploadIsDone`
  are two of thirteen parts.  What makes them inductive is spread over the whole file: a binding
  belongs to a turn of the current task (`TurnsLive`), a hook or a spooled line tells something
  that has happened (`HooksTold`), an entry of the outbox is finished, of the file's
  revision and alone with its turn, and only the first one may have reached the server
  (`OutboxTrue`), and an operation that waits for an answer still finds its entry (`OpShape`).
* An erasure meets a task in one of three states.  A task that is behind the session's revision
  may hold what was erased (`ReadsTrue`), and the server refuses its turns; one that is not holds
  nothing erased and gets nothing erased from where its cursors stand (`StateFresh`); one that is
  being built has a text that is either complete or of an older revision (`OpFresh`).
  The log tells the rest: the events of a turn follow its request, and what it read precedes it
  (`LogTrue`, `ReadsTrue`), so that the erasure takes its answer along.
* Actions that leave the log, the tasks and the state file alone are one lemma (`IdleStep`), the
  beginnings of operations another (`BeginStep`), a new task in place of the old one a third
  (`RenewedStep`); what a hook's event does to the file is summarised by `Served`, what the
  projection does to it by `Cursors`, what a commit does to the log by `Taken`.
* `TypesKept`: `TypeOK` is part of the invariant, with the places, revisions and tasks that
  cursors, capsules, drafts and reads may name (`Placed`).
* `DeliveryIsSound` assumes `"reply" \notin Faults`: the connector does not die between saving
  a hook's answer and giving it.  After that the file says delivered and the task has
  nothing (section 5), so the assumption cannot be dropped; every other failure is allowed.
* It needs a second invariant beside `UploadInv`, `DeliveryInv`.  `NoEcho` speaks of what is being
  injected, but what is injected was chosen at an earlier step: `NoEchoAhead` says it of
  every chunk that is promised, drafted or in the journal, and `OwnKnown` why the choice can
  tell, since an event of the task's own is acknowledged or its acknowledgement is being waited for.
  `InjectedInOrder` rests on `JournalTrue`: the chunk in the journal is the next one, also when it
  is taken up again after a crash, and without a journal nothing was injected past the cursor.
  `NothingOmitted` is proved as `CursorsTrue`, which speaks of the start of the checkpoint's
  event, too; a hook's cursors run ahead of the file's while its turn is open, so that
  `DraftsTrue` says the same of each draft together with its capsule, and that the capsule has
  reached the task or is the answer about to be given.
* Most actions only let the task gain chunks and the file forget none (`Keeps`); `KeepsFrame` and
  its relatives carry the cursors over them, so that each action's lemma is left with what
  it changes itself.

`SessionSyncProofs`

* `SyncInvariant` is about every value of the constants, overlapping retries included.  `SyncInv` has
  a part for each place where a copy of an event can be.  `LogTrue`: every content revision has a
  marker and nothing of that revision stands before it.  `Fresh`: a copy that shows a text as of
  some revision shows one which that revision had not erased; it survives later erasures since
  these carry later revisions (`FreshGrows`).  `PageTrue` says what a replay page is worth for as
  long as it is on its way, `ConnectionTrue` that a wire has no gap from message to message
  (`WireTrue`) and between its end and what the server sends next (`Joined`), and `ClientTrue`
  that the client's texts are fresh and a recovery which is not stale holds only fresh rows.
* `TimelineIsSound` and `WireIsComplete` are its consequences.  The gap in the wire that a marker
  allows is real: a text sent with an older revision is behind it, and the client throws it
  away and refreshes.
* `OwnerSeesAll` assumes `"overlap" \notin Faults`; finding 4 shows that the assumption is needed.
  `OwnerInv` adds that event `i` of the timeline is event `i` of the log, and says of everything
  that can move the cursor why it does not jump: a socket may only pass what the client has
  reached or what comes before on the wire (`HasBefore`), where `Reached` counts, during a refresh,
  what the refresh will not stop before (its head, and every marker of a revision it knows).  That
  a refresh is the only recovery which can still change the timeline is what an overlapping
  retry breaks.
* Steps of the client are compositions of operators on its record, and so are the lemmas:
  `Leads` (the client stays true, and what it has reached it keeps) is transitive and holds of
  `Apply`, `DrainBuffer`, `Invalidate`, `OnSocketEvent`, `TakePage` and `ResumeRecover`.  Steps of
  the server are those in which the log `Grows`.
* Rows in their order are a CHOOSE (`InOrder`); that the order exists, and that rows which fill an
  interval are numbered through, follows from the least-number principle (`OrderExists`,
  `OrderCounts`).

Only model-checked:

* Liveness and fairness (`EventuallySettled`, `EndsInTime`, `ExitIsReported`, `CatchesUp`,
  `TaskCatchesUp`, `OutboxDrains`, `RefsCatchUp`, the half `OutstandingEnds` of `CancelsWhatItLeft`), which are out
  of the prover's reach.

## 5. Findings

1. **An erasure can wedge a project connector** (`wedge_erasure`, bridge.ts:604).  The
   server refuses every surviving request asked before an erasure with `context_changed`
   although it has already published its failure.  The connector does not count that among
   the refusals that let its cursor pass, so it asks again on every poll and never reaches
   the requests behind.
2. **A pause can be heard as a failure** (`pause_crash`, agent-teams.ts:136).  If the
   server dies between the commit of a pause and the cancellation of the step, or that
   cancellation fails, the broker ends the execution under another code, which `control`
   does not recognise as the receipt of a fenced execution; the resumed run consumes it
   and fails.
3. **An import can make the state file unreadable** (`import_checkpoint`,
   codex-app-server.ts:1886).  A capsule that stopped within an event leaves a checkpoint.  A
   visible-history import moves the delivery cursor past it and keeps the checkpoint, a
   combination that `isCodexAppServerState` refuses, so that every later operation of the
   session fails.  If the imported position lies before the checkpoint's event, the file stays
   readable and the first capsule of the new task starts in the middle of that event, whose
   beginning the new task never got; `NothingOmitted` names exactly these chunks as its
   exception (`TakenOver`).  That takes two turns and is beyond the instance of `desktop`.
4. **Two refreshes can lose an event for good** (`overlap`, realtime.js:241).  A connection is
   lost while an erasure makes the browser read the whole history again; the reconnect timer
   calls `retry()`, which starts a second refresh beside the first.  The second one ends, shows
   event 3 and opens a socket after it; then the last page of the first one, asked for before
   event 3 existed, arrives: its recovery replaces the timeline by events 1 and 2 and moves the
   cursor back.  The socket's first replay page is empty and ends at 3, which
   `#onSocketCursor` takes for the new cursor.  Event 3 is on no path any more.  The theorem
   `OwnerSeesAll` says that nothing else can do this to an owner.

Seen and not counted as findings:

* Connectors: a restarted project connector projects the whole history and saves its end as
  the cursor without claiming the requests in between (codex-connect.ts:984, against
  `docs/adr/0023-lease-and-bounded-redispatch-agent-claims.md`); a claim paused by
  one runtime holds the cursor of another, projecting runtime of its author, which takes the
  refusal for a scope mismatch (http-client.ts:297).
* Team runs: a claim may be paused without a marker in the room when the run lost its
  authority; a resume gives up steps that have no answer, so a request may be asked twice
  although only one answer is ever heard; two faults, a failed cancellation of a pause and
  another one in the resume, leave two executions of one run.
* Shared Agents: a shared job whose claim reply is lost, or whose connector dies while it
  runs, keeps its slot and its reservation for ever (`shared-stop-receipts.ts` says that
  unknown orphan work never gets a receipt).
* Native execution: a Team attempt that was granted and never started has no exit to confirm
  and keeps its hold (SECURITY.md describes this as failing closed); an abort between the
  entry "prepared" and the spawn leaves an entry that blocks its session; the stale owner file
  of one session lets the recovery of all of them throw until it is removed; the exit of a
  deleted session that was not reported at once is reported at the next start of the
  connector only (codex-connect.ts:243).
* Browser: a member who may not read every event can lose one from the gap buffer without any
  failure, when a message that carries only a position overtakes it there (`NothingLost` without
  `owner`, with pages of two events and a log of four), and, when a late page has lowered the
  cursor, be shown an event twice, since `#drainBuffer` applies a buffered event without looking
  at `eventIds`; when the refresh after an invalidation fails while a socket is being opened, the
  phase goes back to "Live and caught up." (realtime.js:7) over a view without texts; a retry
  that replaces a connection which is still open is followed by the close event of the old one,
  whose timer replaces the new connection, and so on (`PRODUCT_SPEC.md:238` only says that
  clients resume after a reconnect).
* Codex task: the writer lock is not waited for, so that a hook which finds it held is spooled
  behind later ones (`PRODUCT_SPEC.md:189` speaks of order); when the answer to a hook is lost
  after its save, the capsule counts as delivered.
* Code: an upload of the same content on the same base after the branch was cleared is refused
  as a repeat until its voided receipt is removed, up to 30 days later; an upload whose
  acknowledgement is lost and whose files are edited before the retry needs a manual recovery;
  an edit saved between a download's last check of a file and its rename or unlink
  (code-sync.ts:694-698, 702-703) is overwritten and in no backup, which `LocalWorkKept`
  excepts (`docs/CODE_SYNC.md:97` says that the workspace lock does not lock editors); the storage
  budget scans the disk without the lock of the maintenance, and an object that is collected
  between its listing and its inspection ends the scan with an error that refuses
  code writes until a restart (code-storage-budget.ts:27).

## 6. Not modelled, and the plan

Left out of the modelled components, besides what section 2 names: quotas and the storage
budget (`code-storage-budget.ts` reserves, scans and refuses; the scan of the disk is I/O),
GitHub as provider of code, the connector's automatic synchronisation, branches of former
members, ownership transfer and deleted projects, the other kinds of snapshot jobs, the
closure of an erasure over summaries and snapshots and its physical purge, transcript import.

Components without a module: hosted cloud Agents, whose recovery depends on what the container
engine says; registration, pairing, the test gate and rate limits; the DSH connector, which
speaks the claim protocol of `AgentClaims` over its own durable state; idempotency keys and
quotas.  The MCP server, transcript adapters, protocol schemas, the views of the web client,
the desktop launcher and deployment hold no shared state of their own, or only translate, and
stay outside.  Three hazards of `PROJECT.json` have no property for these reasons: the recovery
of hosted containers, the storage budget and the mail between two transactions of a
registration.

What would be added next, in this order:

1. `HostedSlots`: runs, pauses, slots and daily budgets of cloud Agents, recovery.
2. `DshConnector`: projection, capture and the execution gate over one durable state.
3. `MessageErasure`: the dependencies `AgentClaims` leaves out, deletion receipts, purge.
4. `Registration`, `RateLimit`, `StorageBudget`.

Theorems worth proving next: that `SessionSync`
implements a log which its reader receives as a growing prefix.
