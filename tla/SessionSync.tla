---------------------------- MODULE SessionSync ----------------------------
(***************************************************************************)
(* The browser's copy of one session (apps/web/src/realtime.js), fed by    *)
(* the server's canonical log over two paths that race: HTTP replay pages  *)
(* and a WebSocket that first replays and then follows live                *)
(* (apps/server/src/server.ts, the "connection" handler and the fan-out).  *)
(* The reader is one member.  An owner reads every event; of an owner-only  *)
(* event, only the position reaches another member.                        *)
(*                                                                         *)
(* Every await of the client is a point where other callbacks run: an      *)
(* in-flight #recover is a record of client.recs, an in-flight #openSocket *)
(* an element of client.opening.  What the client does between two awaits  *)
(* is one step, written as a composition of operators on the client record.*)
(* reset() starts a new generation, after which the older coroutines and   *)
(* sockets can change nothing, so they are dropped from the state.         *)
(***************************************************************************)
EXTENDS Integers, Sequences, FiniteSets, SequencesExt

CONSTANTS Sockets,       \* connections that can exist at once (a bound)
          NoSocket,
          PageLimit,     \* events in one replay page (count or bytes)
          MaxSeq,        \* bound on the session's events
          MaxErase,      \* bound on author erasures
          MaxConnects,   \* bound on selecting the session
          MaxClicks,     \* bound on presses of the Retry button
          MaxRecs,       \* bound on recoveries in flight when a retry starts
          Faults,        \* the kinds of failure that may happen
          MaxFaults      \* bound on failures

ASSUME SyncAssumption ==
  /\ NoSocket \notin Sockets
  /\ PageLimit \in Nat \ {0}
  /\ {MaxSeq, MaxErase, MaxConnects, MaxClicks, MaxRecs, MaxFaults} \subseteq Nat
  /\ Faults \subseteq {"drop", "http", "ticket", "replay", "refused", "overlap"}

VARIABLES owner,      \* whether the reader may see owner-only events
          log,        \* the session's events: [readable, kind, rev, gone]
          revision,   \* sessions.content_revision
          socket,     \* both ends of each connection
          receipts,   \* deletion receipts on their way to this client
          client,     \* the SessionSync object
          failed,     \* the kinds of failure that have happened
          clicks, connects   \* what the bounds have let happen

vars == <<owner, log, revision, socket, receipts, client, failed, clicks, connects>>

Larger(a, b) == IF a >= b THEN a ELSE b
-----------------------------------------------------------------------------
(* The server's log and its replay pages.                                  *)

Row(n) == [seq |-> n, rev |-> log[n].rev, kind |-> log[n].kind,
           body |-> IF log[n].gone THEN "tombstone" ELSE "text"]

\* database.replay: at most PageLimit readable events after a position, in their
\* order; the page's cursor jumps over what the reader may not see.
ReplayPage(after) ==
  LET visible == {n \in (after + 1)..Len(log) : log[n].readable}
      shown   == {n \in visible : Cardinality({m \in visible : m <= n}) <= PageLimit}
      more    == shown # visible
  IN  [events |-> {Row(n) : n \in shown},
       more   |-> more,
       cursor |-> IF more THEN CHOOSE n \in shown : \A m \in shown : m <= n ELSE Len(log),
       rev    |-> revision]

\* Rows in the order of their positions, in which pages and buffers are read.
InOrder(rows) ==
  CHOOSE q \in [1..Cardinality(rows) -> rows] :
    \A i, j \in DOMAIN q : i < j => q[i].seq < q[j].seq

NoPage == [events |-> {}, more |-> FALSE, cursor |-> -1, rev |-> -1]
-----------------------------------------------------------------------------
(* The client between two awaits.                                          *)

IdleClient ==
  [on |-> FALSE, phase |-> "idle", cursor |-> 0, events |-> <<>>,
   rev |-> 0, refreshing |-> FALSE, head |-> 0, buffer |-> {},
   socket |-> NoSocket, timer |-> FALSE, recs |-> <<>>, opening |-> <<>>]

\* this.eventIds: emptied by an invalidation, rebuilt when the refresh ends.
EventIds(c) == IF c.refreshing THEN {} ELSE {e.seq : e \in Range(c.events)}

\* #recover up to its first await; "then" is what its caller does afterwards.
StartRecover(c, phase, then) ==
  [c EXCEPT !.phase = phase,
            !.recs  = Append(@, [then |-> then, stale |-> FALSE,
                                 replacing |-> c.refreshing, replacement |-> <<>>,
                                 position |-> c.cursor, before |-> c.cursor,
                                 page |-> NoPage])]

\* #openSocket up to its first await: the position is read now, the ticket is
\* asked for.
ContinueWith(c, then) ==
  IF then = "none" THEN c ELSE [c EXCEPT !.opening = Append(@, c.cursor)]

\* Bodies stay on the screen until the refresh has ended.
Invalidate_Unmasked(c, rev, seq, then) ==
  IF \/ rev < c.rev
     \/ rev = c.rev /\ (c.refreshing \/ seq \in EventIds(c))
  THEN c
  ELSE StartRecover([c EXCEPT !.rev = rev, !.head = Larger(@, Larger(c.cursor, seq)),
                              !.buffer = {}, !.cursor = 0, !.refreshing = TRUE,
                              !.recs = [i \in DOMAIN @ |-> [@[i] EXCEPT !.stale = TRUE]]],
                    "recovering", then)

\* invalidateContent: every cached body is masked, every recovery that is in
\* flight belongs to an older epoch, and the whole history is read again.
Invalidate(c, rev, seq, then) ==
  IF \/ rev < c.rev
     \/ rev = c.rev /\ (c.refreshing \/ seq \in EventIds(c))
  THEN c
  ELSE StartRecover(
         [c EXCEPT !.rev = rev,
                   !.head = Larger(@, Larger(c.cursor, seq)),
                   !.events = [i \in DOMAIN @ |-> [@[i] EXCEPT !.body = "masked"]],
                   !.buffer = {}, !.cursor = 0, !.refreshing = TRUE,
                   !.recs = [i \in DOMAIN @ |-> [@[i] EXCEPT !.stale = TRUE]]],
         "recovering", then)

Apply(c, e) == [c EXCEPT !.events = Append(@, e), !.cursor = e.seq]

\* #apply for one row after the other.
ApplyAll(c, rows) ==
  LET q == InOrder(rows)
  IN  IF rows = {} THEN c ELSE [c EXCEPT !.events = @ \o q, !.cursor = Last(q).seq]

\* The rows that follow the cursor without a gap leave the buffer, those it has
\* passed are dropped.
DrainBuffer(c) ==
  LET next == {e \in c.buffer : \A n \in (c.cursor + 1)..e.seq : \E d \in c.buffer : d.seq = n}
      run  == {e \in next : e.seq > c.cursor}
  IN  [ApplyAll(c, run) EXCEPT !.buffer = {e \in @ : e.seq > c.cursor} \ run]

OnSocketEvent(c, e) ==
  LET seen == IF c.refreshing THEN [c EXCEPT !.head = Larger(@, e.seq)] ELSE c
      held == [c EXCEPT !.buffer = {b \in @ : b.seq # e.seq} \cup {e}]
  IN  CASE e.rev < c.rev -> c
        [] e.rev > c.rev \/ (e.rev = c.rev /\ e.kind = "marker" /\ e.seq \notin EventIds(c)) ->
             Invalidate(seen, e.rev, e.seq, "none")
        [] e.rev = c.rev /\ ~(e.kind = "marker" /\ e.seq \notin EventIds(c)) ->
             CASE c.refreshing -> seen
               [] ~c.refreshing /\ (e.seq <= c.cursor \/ e.seq \in EventIds(c)) -> c
               [] ~c.refreshing /\ e.seq = c.cursor + 1 /\ e.seq \notin EventIds(c) ->
                    DrainBuffer(Apply(c, e))
               [] ~c.refreshing /\ e.seq > c.cursor + 1 /\ e.seq \notin EventIds(c) ->
                    IF c.phase = "recovering" THEN held
                    ELSE StartRecover(held, "recovering", "none")

OnSocketCursor(c, position) ==
  CASE position <= c.cursor -> c
    [] position > c.cursor /\ c.refreshing -> [c EXCEPT !.head = Larger(@, position)]
    [] position > c.cursor /\ ~c.refreshing -> DrainBuffer([c EXCEPT !.cursor = position])

\* A lost connection is reported but no timer is set.
OnOffline_NoTimer(c) == [c EXCEPT !.phase = "offline"]

OnLive(c) == IF c.phase = "recovering" THEN c ELSE [c EXCEPT !.phase = "live"]
OnOffline(c) == [c EXCEPT !.phase = "offline", !.timer = TRUE]

\* The rows of a socket's replay page, one after the other.
OnSocketPage(c, page) ==
  LET q == InOrder(page.events)
      heard[i \in 0..Len(q)] == IF i = 0 THEN c ELSE OnSocketEvent(heard[i - 1], q[i])
  IN  OnSocketCursor(heard[Len(q)], page.cursor)

\* The callbacks one socket message makes (api.js, the "message" listener).
OnMessage(c, m) ==
  CASE m.type = "event"      -> OnSocketEvent(c, m.event)
    [] m.type = "cursor"     -> OnSocketCursor(c, m.cursor)
    [] m.type = "replay"     -> OnSocketPage(c, m.page)
    [] m.type = "subscribed" -> OnLive(OnSocketCursor(c, m.cursor))
    [] m.type = "error"      -> c
    [] m.type = "close"      -> OnOffline(c)

\* #recover throws: connect and retry end in "blocked" without a socket; the
\* refresh that an outer recovery awaits swallows its error, and the outer one
\* goes on to open the socket.
RecoverThrows(c, then) ==
  LET blocked == [c EXCEPT !.phase = "blocked"]
  IN  IF then = "swallow" THEN ContinueWith(blocked, then) ELSE blocked

\* The loop of #recover: an answered page is applied, then the next one is
\* asked for or the recovery ends.
TakePage(c, r) ==
  LET page == r.page
      fresh(ids) == {e \in page.events : e.seq > r.before /\ e.seq \notin ids}
      stamped(ids) == {[e EXCEPT !.rev = page.rev] : e \in fresh(ids)}
      filled == IF r.replacing THEN c ELSE ApplyAll(c, stamped(EventIds(c)))
      moved  == IF r.replacing THEN c
                ELSE [filled EXCEPT !.cursor = Larger(@, page.cursor)]
      replacement == r.replacement \o InOrder(stamped({e.seq : e \in Range(r.replacement)}))
      position == IF r.replacing THEN Larger(r.position, page.cursor) ELSE moved.cursor
      more == page.more \/ (r.replacing /\ position < c.head)
      again == [r EXCEPT !.replacement = replacement, !.position = position,
                         !.before = position, !.page = NoPage]
      replaced == [moved EXCEPT !.events = replacement, !.cursor = position,
                                !.refreshing = FALSE, !.head = 0]
      drained == DrainBuffer(IF r.replacing THEN replaced ELSE moved)
      ended == [drained EXCEPT !.phase = IF drained.buffer = {} THEN "live" ELSE "blocked"]
  IN  CASE more /\ position <= r.before -> RecoverThrows(moved, r.then)
        [] more /\ position > r.before -> [moved EXCEPT !.recs = Append(@, again)]
        [] ~more -> ContinueWith(ended, r.then)

\* #recover when its page has arrived.
ResumeRecover(c, r) ==
  CASE r.stale -> ContinueWith(c, r.then)
    [] ~r.stale /\ r.page.rev < c.rev -> RecoverThrows(c, r.then)
    [] ~r.stale /\ r.page.rev > c.rev ->
         Invalidate(c, r.page.rev, 0, IF r.then = "none" THEN "none" ELSE "swallow")
    [] ~r.stale /\ r.page.rev = c.rev -> TakePage(c, r)
-----------------------------------------------------------------------------
(* Connections.  A message list ends in "close" once nothing more can come.*)

NoConnection == [state |-> "none", wire |-> <<>>, after |-> -1, page |-> NoPage,
                 replaying |-> FALSE, session |-> FALSE, cursor |-> 0]

Closing(wire) == [NoConnection EXCEPT !.state = "closing",
                                      !.wire = Append(wire, [type |-> "close"])]

\* WebSocket.close() of the client's current socket: what was still on the wire
\* is not delivered any more, the close event is.
Closed(sockets, s) ==
  IF s # NoSocket /\ sockets[s].state = "open"
  THEN [sockets EXCEPT ![s] = Closing(<<>>)] ELSE sockets

Send(conn, m) == [conn EXCEPT !.wire = Append(@, m)]

\* Live events are also sent to a connection that is still replaying.
FanOut_WhileReplaying(sockets, n, readable, row) ==
  [s \in Sockets |->
     IF sockets[s].session /\ n > sockets[s].cursor
     THEN [Send(sockets[s], IF readable THEN [type |-> "event", event |-> row]
                            ELSE [type |-> "cursor", cursor |-> n]) EXCEPT !.cursor = n]
     ELSE sockets[s]]

\* service.onEvent: a published event goes to every connection that follows the
\* session, is not replaying and has not passed it.
FanOut(sockets, n, readable, row) ==
  [s \in Sockets |->
     IF sockets[s].session /\ ~sockets[s].replaying /\ n > sockets[s].cursor
     THEN [Send(sockets[s], IF readable THEN [type |-> "event", event |-> row]
                            ELSE [type |-> "cursor", cursor |-> n]) EXCEPT !.cursor = n]
     ELSE sockets[s]]

Init ==
  /\ owner \in BOOLEAN
  /\ log = <<>> /\ revision = 0
  /\ socket = [s \in Sockets |-> NoConnection]
  /\ receipts = {}
  /\ client = IdleClient
  /\ failed = {} /\ clicks = 0 /\ connects = 0

\* An accepted event: appended in a transaction, then published.  presentEvent
\* stamps the copy that is sent with the session's current revision.
AppendEvent(readable) ==
  /\ Len(log) < MaxSeq
  /\ owner => readable
  /\ log' = Append(log, [readable |-> readable, kind |-> "message", rev |-> revision, gone |-> FALSE])
  /\ socket' = FanOut(socket, Len(log) + 1, readable,
                      [seq |-> Len(log) + 1, rev |-> revision, kind |-> "message", body |-> "text"])
  /\ UNCHANGED <<owner, revision, receipts, client, failed, clicks, connects>>

\* deleteMessage: the affected events become tombstones of the new revision; a
\* running request's failure may be appended but is not published; the marker
\* is published.  When this client deleted, its receipt is on the way.
Erase(gone, failure, mine) ==
  LET rev    == revision + 1
      erased == [n \in DOMAIN log |-> IF n \in gone THEN [log[n] EXCEPT !.gone = TRUE, !.rev = rev]
                                      ELSE log[n]]
      entry(kind) == [readable |-> TRUE, kind |-> kind, rev |-> rev, gone |-> FALSE]
      tail   == (IF failure THEN <<entry("message")>> ELSE <<>>) \o <<entry("marker")>>
      n      == Len(log) + Len(tail)
  IN  /\ revision < MaxErase
      /\ n <= MaxSeq
      /\ gone # {} /\ \A g \in gone : log[g].kind = "message" /\ ~log[g].gone
      /\ log' = erased \o tail
      /\ revision' = rev
      /\ receipts' = IF mine THEN receipts \cup {[rev |-> rev, seq |-> n]} ELSE receipts
      /\ socket' = FanOut(socket, n, TRUE, [seq |-> n, rev |-> rev, kind |-> "marker", body |-> "text"])
      /\ UNCHANGED <<owner, client, failed, clicks, connects>>

\* The subscribe message: the first page is sent while live events are held off.
Subscribe(s) ==
  /\ socket[s].state = "open" /\ socket[s].after >= 0
  /\ LET page == ReplayPage(socket[s].after)
     IN  socket' = [socket EXCEPT ![s] =
           [Send(@, [type |-> "replay", page |-> page]) EXCEPT
              !.after = -1, !.session = TRUE, !.replaying = TRUE,
              !.cursor = socket[s].after, !.page = page]]
  /\ UNCHANGED <<owner, log, revision, receipts, client, failed, clicks, connects>>

\* Live as soon as the last page was sent, without looking for what was appended
\* while it was on its way; the position is read again.
PageSent_NoSecondLook(s) ==
  /\ socket[s].replaying
  /\ LET sent == socket[s].page
         next == ReplayPage(sent.cursor)
     IN  socket' = [socket EXCEPT ![s] =
           IF ~sent.more
           THEN [Send(@, [type |-> "subscribed", cursor |-> next.cursor]) EXCEPT
                   !.replaying = FALSE, !.cursor = next.cursor, !.page = NoPage]
           ELSE [Send(@, [type |-> "replay", page |-> next]) EXCEPT
                   !.cursor = sent.cursor, !.page = next]]
  /\ UNCHANGED <<owner, log, revision, receipts, client, failed, clicks, connects>>

\* The page was written to the socket: go on to the next one, or become live in
\* the same step that found nothing more.
PageSent(s) ==
  /\ socket[s].replaying
  /\ LET sent == socket[s].page
         next == ReplayPage(sent.cursor)
         done == ~sent.more /\ next.events = {} /\ next.cursor = sent.cursor
     IN  socket' = [socket EXCEPT ![s] =
           IF done
           THEN [Send(@, [type |-> "subscribed", cursor |-> sent.cursor]) EXCEPT
                   !.replaying = FALSE, !.cursor = sent.cursor, !.page = NoPage]
           ELSE [Send(@, [type |-> "replay", page |-> next]) EXCEPT
                   !.cursor = sent.cursor, !.page = next]]
  /\ UNCHANGED <<owner, log, revision, receipts, client, failed, clicks, connects>>

Fault(kind) == kind \in Faults \ failed /\ Cardinality(failed) < MaxFaults /\ failed' = failed \cup {kind}

\* Reading the next page throws something other than 401, 403 or 404: the socket
\* stays subscribed at the page it sent and live events follow.
ReplayFails(s) ==
  /\ Fault("replay")
  /\ socket[s].replaying
  /\ socket' = [socket EXCEPT ![s] = [Send(@, [type |-> "error"]) EXCEPT
                   !.replaying = FALSE, !.cursor = socket[s].page.cursor, !.page = NoPage]]
  /\ UNCHANGED <<owner, log, revision, receipts, client, clicks, connects>>

\* The subscribe message is refused (rate limit): nothing will ever be sent.
SubscribeRefused(s) ==
  /\ Fault("refused")
  /\ socket[s].state = "open" /\ socket[s].after >= 0
  /\ socket' = [socket EXCEPT ![s] = [Send(@, [type |-> "error"]) EXCEPT !.after = -1]]
  /\ UNCHANGED <<owner, log, revision, receipts, client, clicks, connects>>

\* The connection is lost, or the server gives up on a slow reader: a prefix of
\* what was sent still arrives.
Drop(s, arrives) ==
  /\ Fault("drop")
  /\ socket[s].state = "open"
  /\ arrives \in 0..Len(socket[s].wire)
  /\ socket' = [socket EXCEPT ![s] = Closing(SubSeq(@.wire, 1, arrives))]
  /\ UNCHANGED <<owner, log, revision, receipts, client, clicks, connects>>

\* One message of the socket reaches the client.
Receive(s) ==
  /\ socket[s].wire # <<>>
  /\ LET m == Head(socket[s].wire)
         seen == OnMessage(client, m)
     IN  IF m.type = "close"
         THEN /\ socket' = [socket EXCEPT ![s] = NoConnection]
              /\ client' = [seen EXCEPT !.socket = IF @ = s THEN NoSocket ELSE @]
         ELSE /\ socket' = [socket EXCEPT ![s].wire = Tail(@)]
              /\ client' = seen
  /\ UNCHANGED <<owner, log, revision, receipts, failed, clicks, connects>>

\* The server answers the page request of recovery i.
ReplayAnswered(i) ==
  /\ i \in DOMAIN client.recs /\ client.recs[i].page = NoPage
  /\ client' = [client EXCEPT !.recs[i].page = ReplayPage(client.recs[i].before)]
  /\ UNCHANGED <<owner, log, revision, socket, receipts, failed, clicks, connects>>

ReplayArrives(i) ==
  /\ i \in DOMAIN client.recs /\ client.recs[i].page # NoPage
  /\ client' = ResumeRecover([client EXCEPT !.recs = RemoveAt(@, i)], client.recs[i])
  /\ UNCHANGED <<owner, log, revision, socket, receipts, failed, clicks, connects>>

\* The page request fails.
ReplayLost(i) ==
  /\ Fault("http")
  /\ i \in DOMAIN client.recs
  /\ LET r == client.recs[i]
         c == [client EXCEPT !.recs = RemoveAt(@, i)]
     IN  client' = IF r.stale THEN ContinueWith(c, r.then) ELSE RecoverThrows(c, r.then)
  /\ UNCHANGED <<owner, log, revision, socket, receipts, clicks, connects>>

\* openRealtime got its ticket: the WebSocket exists and the phase is "live"
\* before the server has seen the subscription.
SocketOpens(i, s) ==
  /\ i \in DOMAIN client.opening /\ socket[s].state = "none"
  /\ socket' = [socket EXCEPT ![s] = [NoConnection EXCEPT !.state = "open",
                                                          !.after = client.opening[i]]]
  /\ client' = OnLive([client EXCEPT !.opening = RemoveAt(@, i), !.socket = s])
  /\ UNCHANGED <<owner, log, revision, receipts, failed, clicks, connects>>

TicketFails(i) ==
  /\ Fault("ticket")
  /\ i \in DOMAIN client.opening
  /\ client' = [client EXCEPT !.opening = RemoveAt(@, i), !.phase = "blocked"]
  /\ UNCHANGED <<owner, log, revision, socket, receipts, clicks, connects>>

\* retry() does not look for a recovery in flight.  The failure "overlap" is a retry
\* while the whole history is still being read again.
Retry ==
  /\ client.on /\ Len(client.recs) < MaxRecs
  /\ (\E r \in Range(client.recs) : r.replacing /\ ~r.stale) => "overlap" \in Faults
  /\ socket' = Closed(socket, client.socket)
  /\ client' = StartRecover([client EXCEPT !.timer = FALSE, !.socket = NoSocket], "replaying", "open")

TimerFires ==
  /\ client.timer
  /\ Retry
  /\ UNCHANGED <<owner, log, revision, receipts, failed, clicks, connects>>

\* The Retry button is only shown while the phase is "offline" or "blocked".
RetryClicked ==
  /\ client.phase \in {"offline", "blocked"} /\ clicks < MaxClicks
  /\ clicks' = clicks + 1
  /\ Retry
  /\ UNCHANGED <<owner, log, revision, receipts, failed, connects>>

\* The response to this client's own deletion arrives.
ReceiptArrives(r) ==
  /\ r \in receipts
  /\ receipts' = receipts \ {r}
  /\ client' = IF client.on THEN Invalidate(client, r.rev, r.seq, "none") ELSE client
  /\ UNCHANGED <<owner, log, revision, socket, failed, clicks, connects>>

\* The user selects the session (again): reset, then connect.
Connect ==
  /\ connects < MaxConnects
  /\ connects' = connects + 1
  /\ socket' = [s \in Sockets |-> NoConnection]
  /\ client' = StartRecover([IdleClient EXCEPT !.on = TRUE], "replaying", "open")
  /\ UNCHANGED <<owner, log, revision, receipts, failed, clicks>>

Disconnect ==
  /\ client.on
  /\ socket' = [s \in Sockets |-> NoConnection]
  /\ client' = IdleClient
  /\ UNCHANGED <<owner, log, revision, receipts, failed, clicks, connects>>

Next ==
  \/ \E readable \in BOOLEAN : AppendEvent(readable)
  \/ \E gone \in SUBSET DOMAIN log, failure, mine \in BOOLEAN : Erase(gone, failure, mine)
  \/ \E s \in Sockets : \/ Subscribe(s) \/ PageSent(s) \/ Receive(s)
                        \/ ReplayFails(s) \/ SubscribeRefused(s)
                        \/ \E k \in 0..Len(socket[s].wire) : Drop(s, k)
  \/ \E i \in DOMAIN client.recs : ReplayAnswered(i) \/ ReplayArrives(i) \/ ReplayLost(i)
  \/ \E i \in DOMAIN client.opening : TicketFails(i) \/ \E s \in Sockets : SocketOpens(i, s)
  \/ TimerFires \/ RetryClicked \/ Connect \/ Disconnect
  \/ \E r \in receipts : ReceiptArrives(r)

Spec == Init /\ [][Next]_vars

\* The server's loops and the network make progress and timers fire; nobody is
\* obliged to write, to delete, to fail or to click.
Progress ==
  \/ \E s \in Sockets : Subscribe(s) \/ PageSent(s) \/ Receive(s)
  \/ \E i \in DOMAIN client.recs : ReplayAnswered(i) \/ ReplayArrives(i)
  \/ \E i \in DOMAIN client.opening, s \in Sockets : SocketOpens(i, s)
  \/ \E r \in receipts : ReceiptArrives(r)

Fairness == WF_vars(Progress) /\ WF_vars(TimerFires)

FairSpec == Spec /\ Fairness
-----------------------------------------------------------------------------
Phases == {"idle", "connecting", "replaying", "live", "recovering", "offline", "blocked"}

Readable == {n \in DOMAIN log : log[n].readable}
Shown == {e.seq : e \in Range(client.events)}

\* The shape of the state, with the coroutine positions that belong together.
TypeOK ==
  /\ client.phase \in Phases /\ (client.phase = "idle" <=> ~client.on)
  /\ client.cursor \in 0..Len(log) /\ client.head \in 0..Len(log)
  /\ client.rev \in 0..revision
  /\ client.socket \in Sockets \cup {NoSocket}
  /\ \A r \in Range(client.recs) : r.before \in 0..Len(log) /\ r.then \in {"none", "open", "swallow"}
  /\ \A s \in Sockets : socket[s].state \in {"none", "open", "closing"}
  /\ Len(log) <= MaxSeq /\ revision <= MaxErase

\* Once the client knows a content revision, no body that the revision erased is
\* shown or waits in the gap buffer.
ErasedStaysHidden ==
  \A e \in Range(client.events) \cup client.buffer :
    e.body = "text" => ~(log[e.seq].gone /\ log[e.seq].rev <= client.rev)

\* What the timeline shows, it may show.
TimelineSound == TypeOK /\ ErasedStaysHidden

\* Nothing the reader may see is lost below the cursor: with no recovery in
\* flight, all of it up to the cursor is shown.
NothingLost ==
  client.on /\ client.recs = <<>> /\ ~client.refreshing =>
    \A n \in Readable : n <= client.cursor => n \in Shown

\* What a connection still has to deliver leaves out no readable event that is
\* not below a content-revision marker: page after page, then live.
Reaches(m) == CASE m.type = "event" -> m.event.seq
                [] m.type = "replay" -> m.page.cursor
                [] m.type \in {"cursor", "subscribed"} -> m.cursor
                [] m.type \in {"error", "close"} -> 0
Carries(m) == CASE m.type = "event" -> {m.event.seq}
                [] m.type = "replay" -> {e.seq : e \in m.page.events}
                [] m.type \in {"cursor", "subscribed", "error", "close"} -> {}
WireComplete ==
  \A s \in Sockets : \A i, j \in DOMAIN socket[s].wire :
    LET w == socket[s].wire
        between == {n \in Readable : Reaches(w[i]) < n /\ n <= Reaches(w[j])}
    IN  j = i + 1 /\ Reaches(w[i]) > 0 /\ Reaches(w[j]) > 0
          => \/ between \subseteq Carries(w[j])
             \/ \E n \in between : log[n].kind = "marker"

\* The timeline is in the order of the log, and no event is in it twice, whichever of
\* the two paths delivered it first.
TimelineOrdered == \A i, j \in DOMAIN client.events :
                     i < j => client.events[i].seq < client.events[j].seq

\* The owner's view: nothing is lost below the cursor, and the timeline is in the
\* order of the log.
OwnerMissesNothing == owner => NothingLost /\ TimelineOrdered

\* When writing, deleting and losing connections end, and neither a request has
\* failed nor a live connection was replaced by hand, the client ends up live at the current
\* content revision with nothing masked, and an owner's client shows every event.
Ordinary == failed \subseteq {"drop"} /\ clicks = 0
CaughtUp == /\ client.phase = "live" /\ ~client.refreshing
            /\ client.rev = revision
            /\ owner => Shown = Readable
CatchesUp == <>[](client.on /\ Ordinary => CaughtUp)

=============================================================================
