------------------------- MODULE SessionSyncProofs -------------------------
(***************************************************************************)
(* Theorems of SessionSync, for every value of its constants: what the     *)
(* timeline shows it may show, a socket leaves nothing out, and an owner   *)
(* misses nothing unless a retry overtakes a refresh.                      *)
(***************************************************************************)
EXTENDS SessionSync, FiniteSetTheorems, SequenceTheorems, WellFoundedInduction, TLAPS

-----------------------------------------------------------------------------
(* Positions and rows in their order.                                      *)

\* A set of numbers has a least element, and a bounded one a greatest.
LEMMA LeastNat ==
    ASSUME NEW T \in SUBSET Nat, T # {}
    PROVE  \E m \in T : \A k \in T : m <= k
<1> DEFINE R == {ss \in Nat \X Nat : ss[1] < ss[2]}
<1>1. IsWellFoundedOn(R, Nat)
  BY NatLessThanWellFounded, Zenon DEF OpToRel
<1>2. PICK m \in T : \A k \in T : ~ (<<k, m>> \in R)
  <2> HIDE DEF R
  <2> QED BY <1>1, WFMin, Zenon
<1>3. \A k \in T : ~(k < m)
  BY <1>2
<1> QED
  BY <1>3

LEMMA GreatestNat ==
    ASSUME NEW T \in SUBSET Nat, T # {}, NEW b \in Nat, \A k \in T : k <= b
    PROVE  \E m \in T : \A k \in T : k <= m
<1> DEFINE U == {n \in Nat : \A k \in T : k <= n}
<1>1. U # {} /\ U \in SUBSET Nat
  OBVIOUS
<1>2. PICK m \in U : \A k \in U : m <= k
  BY <1>1, LeastNat
<1>3. m \in T
  <2> SUFFICES ASSUME m \notin T PROVE FALSE
    OBVIOUS
  <2>1. m # 0
    <3> SUFFICES ASSUME m = 0 PROVE FALSE
      OBVIOUS
    <3>1. PICK k \in T : TRUE
      OBVIOUS
    <3>2. k <= 0 /\ k \in Nat
      BY <1>2, <3>1
    <3> QED
      BY <3>2, <3>1
  <2>2. \A k \in T : k <= m - 1
    BY <1>2
  <2>3. m - 1 \in U
    BY <1>2, <2>1, <2>2
  <2> QED
    BY <1>2, <2>3
<1> QED
  BY <1>2, <1>3

Rows == [seq: Nat, rev: Nat, kind: {"message", "marker"}, body: {"text", "tombstone", "masked"}]
Distinct(rows) == \A d, e \in rows : d.seq = e.seq => d = e
Rising(q) == \A i, j \in DOMAIN q : i < j => q[i].seq < q[j].seq

\* Finitely many rows with distinct positions can be listed by position: the least bound
\* for which they could not is a contradiction.
LEMMA OrderExists ==
    ASSUME NEW k \in Nat, NEW rows \in SUBSET Rows, \A e \in rows : e.seq < k, Distinct(rows)
    PROVE  IsFiniteSet(rows) /\ \E q \in [1..Cardinality(rows) -> rows] : Rising(q)
<1> DEFINE Good(S) == IsFiniteSet(S) /\ \E q \in [1..Cardinality(S) -> S] : Rising(q)
           Bad == {n \in Nat : \E S \in SUBSET Rows : (\A e \in S : e.seq < n) /\ Distinct(S) /\ ~Good(S)}
<1> SUFFICES ASSUME ~Good(rows) PROVE FALSE
  OBVIOUS
<1> HIDE DEF Good
<1>1. Bad # {} /\ Bad \in SUBSET Nat
  OBVIOUS
<1>2. PICK n \in Bad : \A m \in Bad : n <= m
  BY <1>1, LeastNat
<1>3. PICK S \in SUBSET Rows : (\A e \in S : e.seq < n) /\ Distinct(S) /\ ~Good(S)
  BY <1>2
<1>4. Good({})
  <2>1. Cardinality({}) = 0 /\ IsFiniteSet({})
    BY FS_EmptySet
  <2> DEFINE q == [i \in 1..0 |-> i]
  <2>2. q \in [1..0 -> {}] /\ Rising(q)
    BY DEF Rising
  <2> QED
    BY <2>1, <2>2 DEF Good
<1>5. S # {} /\ n # 0
  BY <1>3, <1>4 DEF Rows
<1>6. n - 1 \in Nat /\ n - 1 \notin Bad
  BY <1>1, <1>2, <1>5
<1>7. PICK d \in S : ~(d.seq < n - 1)
  BY <1>3, <1>6
<1>8. d.seq = n - 1
  BY <1>3, <1>6, <1>7 DEF Rows
<1> DEFINE T == S \ {d}
<1>9. T \in SUBSET Rows /\ Distinct(T) /\ \A e \in T : e.seq < n - 1
  BY <1>3, <1>8 DEF Distinct, Rows
<1>10. Good(T)
  BY <1>6, <1>9
<1>11. PICK q \in [1..Cardinality(T) -> T] : Rising(q)
  BY <1>10 DEF Good
<1>12. IsFiniteSet(T) /\ Cardinality(T) \in Nat /\ d \notin T /\ S = T \cup {d}
  BY <1>7, <1>10, FS_CardinalityType DEF Good
<1>13. IsFiniteSet(S) /\ Cardinality(S) = Cardinality(T) + 1
  <2> HIDE DEF T
  <2>1. IsFiniteSet(T \cup {d}) /\ Cardinality(T \cup {d}) = Cardinality(T) + 1
    BY <1>12, FS_AddElement
  <2> QED
    BY <1>12, <2>1
<1> DEFINE c == Cardinality(T)
           p == [i \in 1..c + 1 |-> IF i = c + 1 THEN d ELSE q[i]]
<1>14. p \in [1..c + 1 -> S]
  <2> HIDE DEF T
  <2>1. \A i \in 1..c + 1 : i # c + 1 => i \in 1..c
    BY <1>12
  <2> HIDE DEF c
  <2>2. ASSUME NEW i \in 1..c + 1 PROVE (IF i = c + 1 THEN d ELSE q[i]) \in S
    BY <1>11, <1>12, <2>1 DEF c
  <2> QED
    BY <2>2
<1>15. Rising(p)
  <2> SUFFICES ASSUME NEW i \in 1..c + 1, NEW j \in 1..c + 1, i < j PROVE p[i].seq < p[j].seq
    BY DEF Rising
  <2> HIDE DEF T
  <2>1. CASE j = c + 1
    <3>1. i \in 1..c /\ p[i] = q[i] /\ q[i] \in T /\ p[j] = d
      BY <1>11, <1>12, <2>1
    <3> QED
      BY <3>1, <1>8, <1>9
  <2>2. CASE j # c + 1
    <3>1. i \in 1..c /\ j \in 1..c /\ p[i] = q[i] /\ p[j] = q[j]
      BY <1>12, <2>2
    <3> QED
      BY <1>11, <3>1 DEF Rising
  <2> QED
    BY <2>1, <2>2
<1> QED
  BY <1>3, <1>13, <1>14, <1>15 DEF Good

\* InOrder lists every row once, by its position.
LEMMA InOrderIs ==
    ASSUME NEW k \in Nat, NEW rows \in SUBSET Rows, \A e \in rows : e.seq <= k, Distinct(rows)
    PROVE  /\ IsFiniteSet(rows) /\ InOrder(rows) \in Seq(rows)
           /\ Len(InOrder(rows)) = Cardinality(rows)
           /\ Rising(InOrder(rows)) /\ \A e \in rows : \E i \in DOMAIN InOrder(rows) : InOrder(rows)[i] = e
<1> DEFINE q == InOrder(rows)
<1>1. \A e \in rows : e.seq < k + 1
  BY DEF Rows
<1>2. IsFiniteSet(rows) /\ \E s \in [1..Cardinality(rows) -> rows] : Rising(s)
  <2>1. k + 1 \in Nat
    OBVIOUS
  <2> QED
    BY <1>1, <2>1, OrderExists
<1>3. q \in [1..Cardinality(rows) -> rows] /\ Rising(q)
  BY <1>2 DEF InOrder, Rising
<1>4. Cardinality(rows) \in Nat
  BY <1>2, FS_CardinalityType
<1> HIDE DEF q
<1>5. q \in Seq(rows) /\ Len(q) = Cardinality(rows)
  BY <1>3, <1>4
<1>6. q \in Injection(1..Cardinality(rows), rows)
  <2>1. ASSUME NEW i \in 1..Cardinality(rows), NEW j \in 1..Cardinality(rows), q[i] = q[j]
        PROVE  i = j
    <3>1. q[i] \in rows /\ q[j] \in rows /\ q[i].seq \in Nat /\ DOMAIN q = 1..Cardinality(rows)
      BY <1>3 DEF Rows
    <3>2. i < j => q[i].seq < q[j].seq
      BY <1>3, <3>1 DEF Rising
    <3>3. j < i => q[j].seq < q[i].seq
      BY <1>3, <3>1 DEF Rising
    <3> QED
      BY <2>1, <3>1, <3>2, <3>3, <1>4
  <2> QED
    BY <1>3, <2>1 DEF Injection, IsInjective
<1>7. Cardinality(1..Cardinality(rows)) = Cardinality(rows)
  <2>1. 1 \in Int /\ Cardinality(rows) \in Int
    BY <1>4
  <2> QED
    BY <2>1, <1>4, FS_Interval
<1>8. q \in Surjection(1..Cardinality(rows), rows)
  BY <1>2, <1>6, <1>7, FS_Injection
<1>9. \A e \in rows : \E i \in DOMAIN q : q[i] = e
  BY <1>3, <1>8 DEF Surjection
<1> QED
  BY <1>2, <1>3, <1>5, <1>9 DEF q

-----------------------------------------------------------------------------
(* The inductive invariant.                                                *)

Entries == [readable: BOOLEAN, kind: {"message", "marker"}, rev: Nat, gone: BOOLEAN]
Pages == [events: SUBSET Rows, more: BOOLEAN, cursor: Int, rev: Int]
Recs == [then: {"none", "open", "swallow"}, stale: BOOLEAN, replacing: BOOLEAN,
         replacement: Seq(Rows), position: Nat, before: Nat, page: Pages]
Clients == [on: BOOLEAN, phase: Phases, cursor: Nat, events: Seq(Rows), rev: Nat,
            refreshing: BOOLEAN, head: Nat, buffer: SUBSET Rows, socket: Sockets \cup {NoSocket},
            timer: BOOLEAN, recs: Seq(Recs), opening: Seq(Nat)]
Messages == [type: {"event"}, event: Rows] \cup [type: {"cursor", "subscribed"}, cursor: Nat]
              \cup [type: {"replay"}, page: Pages] \cup [type: {"error", "close"}]
Connections == [state: {"none", "open", "closing"}, wire: Seq(Messages), after: Int, page: Pages,
                replaying: BOOLEAN, session: BOOLEAN, cursor: Nat]

\* Position n stands before every marker of a revision after rev; p is not before any
\* marker of a revision up to rev.
Precedes(n, rev) == \A m \in DOMAIN log : log[m].kind = "marker" /\ log[m].rev > rev => n < m
Covers(p, rev) == \A m \in DOMAIN log : log[m].kind = "marker" /\ log[m].rev <= rev => m <= p

\* Every revision has a marker, and nothing of the revision stands before it.
LogTrue ==
  /\ log \in Seq(Entries) /\ revision \in Nat /\ owner \in BOOLEAN
  /\ Len(log) <= MaxSeq /\ revision <= MaxErase
  /\ \A n \in DOMAIN log : /\ log[n].rev <= revision /\ Precedes(n, log[n].rev)
                           /\ owner => log[n].readable
                           /\ log[n].kind = "marker" => log[n].rev > 0
  /\ \A rev \in 1..revision : \E m \in DOMAIN log : log[m].kind = "marker" /\ log[m].rev = rev

\* Copies of events: what a text of revision rev shows had not been erased then.
Fresh(e, rev) == /\ e.seq \in DOMAIN log
                 /\ e.body = "text" /\ log[e.seq].gone => log[e.seq].rev > rev
RowTrue(e) == Fresh(e, e.rev) /\ e.rev <= revision /\ Precedes(e.seq, e.rev)
PageTrue(page, after) ==
  /\ page.cursor \in after..Len(log) /\ page.rev \in 0..revision
  /\ Distinct(page.events)
  /\ \A e \in page.events : /\ e.seq \in (after + 1)..page.cursor
                            /\ RowTrue(e) /\ Fresh(e, page.rev)
  /\ \A n \in (after + 1)..page.cursor : log[n].readable => \E e \in page.events : e.seq = n
  /\ ~page.more => Covers(page.cursor, page.rev)

\* One end of a connection.
MessageTrue(m) ==
  /\ m.type = "event" => RowTrue(m.event)
  /\ m.type \in {"cursor", "subscribed"} => m.cursor <= Len(log)
  /\ m.type = "replay" => \E a \in 0..Len(log) : PageTrue(m.page, a)
Complete(a, b) ==
  LET between == {n \in Readable : Reaches(a) < n /\ n <= Reaches(b)}
  IN  Reaches(a) > 0 /\ Reaches(b) > 0 =>
        between \subseteq Carries(b) \/ \E n \in between : log[n].kind = "marker"
WireTrue(w) ==
  /\ \A i \in DOMAIN w : MessageTrue(w[i])
  /\ \A i \in DOMAIN w : i + 1 \in DOMAIN w => Complete(w[i], w[i + 1])
\* What is sent next goes on where the wire ends.
Joined(k) ==
  k.session /\ k.wire # <<>> /\ Reaches(k.wire[Len(k.wire)]) > 0 =>
    Reaches(k.wire[Len(k.wire)]) = IF k.replaying THEN k.page.cursor ELSE Len(log)
ConnectionTrue(k) ==
  /\ k \in Connections /\ k.cursor <= Len(log)
  /\ k.state # "open" => ~k.session /\ k.after = -1
  /\ k.state = "none" => k.wire = <<>>
  /\ k.after >= 0 => k.wire = <<>> /\ ~k.session /\ k.after <= Len(log)
  /\ k.replaying => k.session /\ PageTrue(k.page, k.cursor)
  /\ WireTrue(k.wire) /\ Joined(k)

\* The client.
RecoveryTrue(c, r) ==
  /\ r.before <= Len(log)
  /\ r.page # NoPage => PageTrue(r.page, r.before)
  /\ ~r.stale => /\ \A i \in DOMAIN r.replacement : Fresh(r.replacement[i], c.rev)
                 /\ IF r.replacing THEN r.position = r.before ELSE ~c.refreshing
ClientTrue(c) ==
  /\ c \in Clients
  /\ c.cursor <= Len(log) /\ c.head <= Len(log) /\ c.rev <= revision
  /\ c.phase = "idle" <=> ~c.on
  /\ ~c.on => c = IdleClient
  /\ \A i \in DOMAIN c.events : Fresh(c.events[i], c.rev)
  /\ Distinct(c.buffer) /\ \A e \in c.buffer : Fresh(e, c.rev)
  /\ c.refreshing => c.cursor = 0 /\ c.buffer = {}
  /\ \A i \in DOMAIN c.recs : RecoveryTrue(c, c.recs[i])
  /\ \A i \in DOMAIN c.opening : c.opening[i] <= Len(log)

\* The client and the sockets together.
StateTrue(c, f) ==
  /\ ClientTrue(c)
  /\ f \in [Sockets -> Connections] /\ \A s \in Sockets : ConnectionTrue(f[s])
  /\ ~c.on => \A s \in Sockets : f[s] = NoConnection

SyncInv ==
  /\ LogTrue /\ StateTrue(client, socket)
  /\ \A r \in receipts : r.rev \in 0..revision /\ r.seq \in 0..Len(log)

-----------------------------------------------------------------------------
(* The same for an owner.                                                  *)

\* The client has event p, or is reading the history again and will not stop before it.
Reached(c, p) ==
  IF c.refreshing
  THEN \/ p <= c.head
       \/ \E m \in DOMAIN log : log[m].kind = "marker" /\ log[m].rev <= c.rev /\ p <= m
  ELSE p <= c.cursor

\* An owner's timeline is the log up to the cursor, and the refresh that is under way, if
\* there is one, is the only recovery that can still change it.
OwnerRecovery(c, r) ==
  ~r.stale => IF r.replacing
              THEN /\ c.refreshing /\ Len(r.replacement) = r.before
                   /\ \A n \in DOMAIN r.replacement : r.replacement[n].seq = n
              ELSE r.before <= c.cursor
OwnerTrue(c) ==
  /\ \A i \in DOMAIN c.events : c.events[i].seq = i
  /\ ~c.refreshing => Len(c.events) = c.cursor /\ Covers(c.cursor, c.rev)
  /\ \A i \in DOMAIN c.opening : Reached(c, c.opening[i])
  /\ \A i \in DOMAIN c.recs : OwnerRecovery(c, c.recs[i])
  /\ \A i, j \in DOMAIN c.recs : i # j /\ c.recs[i].replacing /\ ~c.recs[i].stale => c.recs[j].stale

\* When message j of a wire arrives, the client has event n.
HasBefore(c, wire, j, n) ==
  Reached(c, n) \/ \E i \in 1..(j - 1) : wire[i].type = "replay" /\ n <= wire[i].page.cursor
OwnerWire(c, k) ==
  /\ k.after >= 0 => Reached(c, k.after)
  /\ k.replaying => \A n \in 1..k.page.cursor : HasBefore(c, k.wire, Len(k.wire) + 1, n)
  /\ \A j \in DOMAIN k.wire :
       /\ k.wire[j].type # "cursor"
       /\ k.wire[j].type \in {"replay", "subscribed"} =>
            \A n \in 1..Reaches(k.wire[j]) : n \in Carries(k.wire[j]) \/ HasBefore(c, k.wire, j, n)

OwnerState(c, f) == OwnerTrue(c) /\ \A s \in Sockets : OwnerWire(c, f[s])

\* Of an owner, as long as no retry overtakes a refresh.
Owned == owner /\ "overlap" \notin Faults
OwnerInv == Owned => OwnerState(client, socket)
-----------------------------------------------------------------------------
(* What stays true while the log grows.                                    *)

\* Events are appended, and erased as of a new revision.
Grows ==
  /\ LogTrue /\ LogTrue' /\ Len(log) <= Len(log') /\ revision <= revision' /\ owner' = owner
  /\ \A n \in DOMAIN log :
       \/ log'[n] = log[n]
       \/ /\ log[n].kind = "message" /\ log'[n].kind = "message" /\ log'[n].rev > revision
          /\ log'[n].readable = log[n].readable
  /\ \A n \in DOMAIN log' : n \notin DOMAIN log /\ log'[n].kind = "marker" => log'[n].rev > revision

LEMMA GrowsIs ==
    ASSUME Grows
    PROVE  /\ Len(log) \in Nat /\ DOMAIN log = 1..Len(log) /\ revision \in Nat
           /\ Len(log') \in Nat /\ DOMAIN log' = 1..Len(log') /\ revision' \in Nat
           /\ DOMAIN log \subseteq DOMAIN log'
           /\ \A n \in DOMAIN log : log[n].rev \in Nat
           /\ \A n \in DOMAIN log' : log'[n].rev \in Nat
<1>1. log \in Seq(Entries) /\ log' \in Seq(Entries) /\ revision \in Nat /\ revision' \in Nat
  BY DEF Grows, LogTrue
<1>2. Len(log) \in Nat /\ DOMAIN log = 1..Len(log) /\ Len(log') \in Nat /\ DOMAIN log' = 1..Len(log')
  BY <1>1
<1>3. ASSUME NEW n \in DOMAIN log PROVE log[n].rev \in Nat
  <2>1. log[n] \in Entries
    BY <1>1
  <2> QED
    BY <2>1 DEF Entries
<1>4. ASSUME NEW n \in DOMAIN log' PROVE log'[n].rev \in Nat
  <2>1. log'[n] \in Entries
    BY <1>1
  <2> QED
    BY <2>1 DEF Entries
<1> QED
  BY <1>1, <1>2, <1>3, <1>4 DEF Grows

LEMMA SameGrows == ASSUME LogTrue, UNCHANGED <<log, revision, owner>> PROVE Grows
<1>1. LogTrue'
  BY DEF LogTrue, Precedes
<1> QED
  BY <1>1 DEF Grows, LogTrue

LEMMA PrecedesGrows ==
    ASSUME Grows, NEW n \in DOMAIN log, NEW rev, Precedes(n, rev)
    PROVE  Precedes(n, rev)'
<1> SUFFICES ASSUME NEW m \in DOMAIN log', log'[m].kind = "marker", log'[m].rev > rev PROVE n < m
  BY DEF Precedes
<1>1. CASE m \in DOMAIN log
  BY <1>1 DEF Precedes, Grows
<1>2. CASE m \notin DOMAIN log
  BY <1>2, GrowsIs
<1> QED
  BY <1>1, <1>2

LEMMA CoversGrows ==
    ASSUME Grows, NEW p, NEW rev \in Nat, rev <= revision, Covers(p, rev)
    PROVE  Covers(p, rev)'
<1> SUFFICES ASSUME NEW m \in DOMAIN log', log'[m].kind = "marker", log'[m].rev <= rev PROVE m <= p
  BY DEF Covers
<1>1. CASE m \in DOMAIN log
  BY <1>1 DEF Covers, Grows
<1>2. CASE m \notin DOMAIN log
  BY <1>2, GrowsIs DEF Grows
<1> QED
  BY <1>1, <1>2

LEMMA FreshGrows ==
    ASSUME Grows, NEW e, NEW rev \in Nat, rev <= revision, Fresh(e, rev)
    PROVE  Fresh(e, rev)'
<1>1. e.seq \in DOMAIN log /\ e.seq \in DOMAIN log'
  BY GrowsIs DEF Fresh
<1>2. ASSUME e.body = "text", log'[e.seq].gone PROVE log'[e.seq].rev > rev
  <2>1. CASE log'[e.seq] = log[e.seq]
    BY <1>2, <2>1 DEF Fresh
  <2>2. CASE log'[e.seq].rev > revision
    BY <1>1, <2>2, GrowsIs
  <2> QED
    BY <1>1, <2>1, <2>2 DEF Grows
<1> QED
  BY <1>1, <1>2 DEF Fresh

LEMMA RowGrows ==
    ASSUME Grows, NEW e \in Rows, RowTrue(e)
    PROVE  RowTrue(e)'
<1>1. e.rev \in Nat /\ e.rev <= revision /\ Fresh(e, e.rev) /\ e.seq \in DOMAIN log /\ Precedes(e.seq, e.rev)
  BY DEF RowTrue, Rows, Fresh
<1>2. e.rev <= revision'
  BY <1>1, GrowsIs DEF Grows
<1>3. Fresh(e, e.rev)' /\ Precedes(e.seq, e.rev)'
  BY <1>1, FreshGrows, PrecedesGrows
<1> QED
  BY <1>2, <1>3 DEF RowTrue

\* A page stays true while it is on its way, whatever is appended or erased meanwhile.
LEMMA PageGrows ==
    ASSUME Grows, NEW page \in Pages, NEW after \in Nat, PageTrue(page, after)
    PROVE  PageTrue(page, after)'
<1>0. page.rev \in Nat /\ page.rev <= revision /\ page.events \in SUBSET Rows /\ page.cursor \in Int
      /\ after <= page.cursor /\ page.cursor <= Len(log)
  BY GrowsIs DEF PageTrue, Pages
<1>1. page.cursor \in after..Len(log') /\ page.rev \in 0..revision'
  BY <1>0, GrowsIs DEF Grows
<1>2. \A e \in page.events : /\ e.seq \in (after + 1)..page.cursor
                             /\ RowTrue(e)' /\ Fresh(e, page.rev)'
  BY <1>0, RowGrows, FreshGrows DEF PageTrue
<1>3. ASSUME NEW n \in (after + 1)..page.cursor, log'[n].readable PROVE \E e \in page.events : e.seq = n
  <2>1. n \in DOMAIN log
    BY <1>0, GrowsIs
  <2>2. log[n].readable
    BY <1>3, <2>1 DEF Grows
  <2> QED
    BY <2>2 DEF PageTrue
<1>4. ~page.more => Covers(page.cursor, page.rev)'
  BY <1>0, CoversGrows DEF PageTrue
<1> QED
  BY <1>1, <1>2, <1>3, <1>4 DEF PageTrue

LEMMA MessageGrows ==
    ASSUME Grows, NEW m \in Messages, MessageTrue(m)
    PROVE  MessageTrue(m)'
<1>1. m.type = "event" => m.event \in Rows
  BY DEF Messages
<1>2. m.type \in {"cursor", "subscribed"} => m.cursor \in Nat
  BY DEF Messages
<1>3. m.type = "replay" => m.page \in Pages
  BY DEF Messages
<1>4. m.type = "event" => RowTrue(m.event)'
  BY <1>1, RowGrows DEF MessageTrue
<1>5. m.type \in {"cursor", "subscribed"} => m.cursor <= Len(log')
  BY <1>2, GrowsIs DEF MessageTrue, Grows
<1>6. ASSUME m.type = "replay" PROVE \E a \in 0..Len(log') : PageTrue(m.page, a)'
  <2>1. PICK a \in 0..Len(log) : PageTrue(m.page, a)
    BY <1>6 DEF MessageTrue
  <2>2. a \in Nat /\ a \in 0..Len(log')
    BY GrowsIs DEF Grows
  <2> QED
    BY <1>3, <1>6, <2>1, <2>2, PageGrows
<1> QED
  BY <1>4, <1>5, <1>6 DEF MessageTrue

LEMMA ReachesIs ==
    ASSUME LogTrue, NEW m \in Messages, MessageTrue(m)
    PROVE  Reaches(m) \in 0..Len(log)
<1>1. m.type = "event" => m.event.seq \in DOMAIN log
  BY DEF MessageTrue, RowTrue, Fresh
<1>2. DOMAIN log = 1..Len(log) /\ Len(log) \in Nat
  BY DEF LogTrue
<1>3. m.type \in {"cursor", "subscribed"} => m.cursor \in 0..Len(log)
  BY <1>2 DEF MessageTrue, Messages
<1>4. m.type = "replay" => m.page.cursor \in 0..Len(log)
  BY <1>2 DEF MessageTrue, PageTrue
<1>5. m.type \in {"event", "cursor", "subscribed", "replay", "error", "close"}
  BY DEF Messages
<1> QED
  BY <1>1, <1>2, <1>3, <1>4, <1>5 DEF Reaches

\* What an erasure or a new event adds lies behind both messages, or is a marker.
LEMMA CompleteGrows ==
    ASSUME Grows, NEW a, NEW b, Reaches(a) \in 0..Len(log), Reaches(b) \in 0..Len(log), Complete(a, b)
    PROVE  Complete(a, b)'
<1>1. \A m : Reaches(m)' = Reaches(m) /\ Carries(m)' = Carries(m)
  BY DEF Reaches, Carries
<1> DEFINE between == {n \in Readable : Reaches(a) < n /\ n <= Reaches(b)}
<1>2. ASSUME NEW n, Reaches(a) < n, n <= Reaches(b), n \in Nat
      PROVE  /\ n \in DOMAIN log /\ (n \in Readable' <=> n \in Readable)
             /\ log'[n].kind = log[n].kind
  <2>1. n \in DOMAIN log /\ n \in DOMAIN log'
    BY <1>2, GrowsIs
  <2>2. log'[n].readable = log[n].readable /\ log'[n].kind = log[n].kind
    BY <2>1 DEF Grows
  <2> QED
    BY <2>1, <2>2 DEF Readable
<1>3. Readable \subseteq Nat /\ Readable' \subseteq Nat
  BY GrowsIs DEF Readable
<1>4. {n \in Readable' : Reaches(a) < n /\ n <= Reaches(b)} = between
  BY <1>2, <1>3
<1>5. \A n \in between : log'[n].kind = log[n].kind
  BY <1>2, <1>3
<1>6. Reaches(a) > 0 /\ Reaches(b) > 0 =>
        between \subseteq Carries(b) \/ \E n \in between : log[n].kind = "marker"
  BY DEF Complete
<1> HIDE DEF between
<1> QED
  BY <1>1, <1>4, <1>5, <1>6 DEF Complete

LEMMA ReachedGrows ==
    ASSUME Grows, NEW c, NEW p, Reached(c, p)
    PROVE  Reached(c, p)'
<1>1. ASSUME NEW m \in DOMAIN log, log[m].kind = "marker"
      PROVE  m \in DOMAIN log' /\ log'[m].kind = "marker" /\ log'[m].rev = log[m].rev
  BY <1>1, GrowsIs DEF Grows
<1> QED
  BY <1>1 DEF Reached

LEMMA HasBeforeGrows ==
    ASSUME Grows, NEW c, NEW wire, NEW j, NEW n, HasBefore(c, wire, j, n)
    PROVE  HasBefore(c, wire, j, n)'
BY ReachedGrows DEF HasBefore

LEMMA RecoveryGrows ==
    ASSUME Grows, NEW c \in Clients, c.rev <= revision, NEW r \in Recs, RecoveryTrue(c, r)
    PROVE  RecoveryTrue(c, r)'
<1>1. c.rev \in Nat /\ r.before \in Nat /\ r.page \in Pages
  BY DEF Clients, Recs
<1>2. r.before <= Len(log')
  BY <1>1, GrowsIs DEF Grows, RecoveryTrue
<1>3. NoPage' = NoPage
  BY DEF NoPage
<1>4. r.page # NoPage => PageTrue(r.page, r.before)'
  BY <1>1, PageGrows DEF RecoveryTrue
<1>5. ~r.stale => \A i \in DOMAIN r.replacement : Fresh(r.replacement[i], c.rev)'
  BY <1>1, FreshGrows DEF RecoveryTrue
<1> QED
  BY <1>2, <1>3, <1>4, <1>5 DEF RecoveryTrue

\* The server alone cannot make the client wrong.
LEMMA ClientGrows ==
    ASSUME Grows, NEW c, ClientTrue(c)
    PROVE  ClientTrue(c)'
<1>1. c \in Clients /\ c.rev \in Nat /\ c.cursor \in Nat /\ c.head \in Nat /\ c.rev <= revision
      /\ c.recs \in Seq(Recs) /\ c.opening \in Seq(Nat)
  BY DEF ClientTrue, Clients
<1>2. c.cursor <= Len(log') /\ c.head <= Len(log') /\ c.rev <= revision'
  BY <1>1, GrowsIs DEF ClientTrue, Grows
<1>3. /\ \A i \in DOMAIN c.events : Fresh(c.events[i], c.rev)'
      /\ \A e \in c.buffer : Fresh(e, c.rev)'
  BY <1>1, FreshGrows DEF ClientTrue
<1>4. ASSUME NEW i \in DOMAIN c.recs PROVE RecoveryTrue(c, c.recs[i])'
  <2>1. c.recs[i] \in Recs /\ RecoveryTrue(c, c.recs[i])
    BY <1>1 DEF ClientTrue
  <2> QED
    BY <1>1, <2>1, RecoveryGrows
<1>5. ASSUME NEW i \in DOMAIN c.opening PROVE c.opening[i] <= Len(log')
  <2>1. c.opening[i] \in Nat /\ c.opening[i] <= Len(log)
    BY <1>1 DEF ClientTrue
  <2> QED
    BY <2>1, GrowsIs DEF Grows
<1>6. ~c.on => c = IdleClient'
  BY DEF ClientTrue, IdleClient
<1> QED
  BY <1>1, <1>2, <1>3, <1>4, <1>5, <1>6 DEF ClientTrue

LEMMA OwnerGrows ==
    ASSUME Grows, NEW c, ClientTrue(c), OwnerTrue(c)
    PROVE  OwnerTrue(c)'
<1>1. c.rev \in Nat /\ c.rev <= revision
  BY DEF ClientTrue, Clients
<1>2. ~c.refreshing => Covers(c.cursor, c.rev)'
  BY <1>1, CoversGrows DEF OwnerTrue
<1>3. \A i \in DOMAIN c.opening : Reached(c, c.opening[i])'
  BY ReachedGrows DEF OwnerTrue
<1> QED
  BY <1>2, <1>3 DEF OwnerTrue, OwnerRecovery

LEMMA WireGrows ==
    ASSUME Grows, NEW c, NEW k, OwnerWire(c, k)
    PROVE  OwnerWire(c, k)'
<1>1. \A m : Reaches(m)' = Reaches(m) /\ Carries(m)' = Carries(m)
  BY DEF Reaches, Carries
<1>2. k.after >= 0 => Reached(c, k.after)'
  BY ReachedGrows DEF OwnerWire
<1>3. k.replaying => \A n \in 1..k.page.cursor : HasBefore(c, k.wire, Len(k.wire) + 1, n)'
  BY HasBeforeGrows DEF OwnerWire
<1>4. \A j \in DOMAIN k.wire : k.wire[j].type \in {"replay", "subscribed"} =>
            \A n \in 1..Reaches(k.wire[j]) : n \in Carries(k.wire[j]) \/ HasBefore(c, k.wire, j, n)'
  BY HasBeforeGrows DEF OwnerWire
<1> QED
  BY <1>1, <1>2, <1>3, <1>4 DEF OwnerWire

-----------------------------------------------------------------------------
(* A page of the log, as the server reads it.                              *)

LEMMA LogIs ==
    ASSUME LogTrue
    PROVE  /\ Len(log) \in Nat /\ DOMAIN log = 1..Len(log) /\ revision \in Nat
           /\ \A n \in DOMAIN log : log[n] \in Entries /\ log[n].rev \in Nat
                                    /\ log[n].kind \in {"message", "marker"}
<1>1. log \in Seq(Entries) /\ revision \in Nat
  BY DEF LogTrue
<1>2. \A n \in DOMAIN log : log[n] \in Entries
  BY <1>1
<1> QED
  BY <1>1, <1>2 DEF Entries

\* A row of the log is true at the current revision.
LEMMA RowIs ==
    ASSUME LogTrue, NEW n \in DOMAIN log
    PROVE  /\ Row(n) \in Rows /\ Row(n).seq = n
           /\ RowTrue(Row(n)) /\ Fresh(Row(n), revision)
<1>1. log[n].rev \in Nat /\ log[n].kind \in {"message", "marker"} /\ n \in Nat
  BY LogIs
<1>2. Row(n) \in Rows
  BY <1>1 DEF Row, Rows
<1>3. /\ Row(n).seq = n /\ Row(n).rev = log[n].rev
      /\ Row(n).body = "text" => ~log[n].gone
  BY DEF Row
<1>4. Fresh(Row(n), log[n].rev) /\ Fresh(Row(n), revision)
  BY <1>3 DEF Fresh
<1>5. log[n].rev <= revision /\ Precedes(n, log[n].rev)
  BY DEF LogTrue
<1> QED
  BY <1>2, <1>3, <1>4, <1>5 DEF RowTrue

\* A replay page (database.ts replay) carries all that is readable up to its cursor.
LEMMA ReplayPageIs ==
    ASSUME LogTrue, NEW after \in 0..Len(log)
    PROVE  /\ ReplayPage(after) \in Pages /\ PageTrue(ReplayPage(after), after)
           /\ ReplayPage(after).events = {} => ReplayPage(after).cursor = Len(log)
<1> DEFINE visible == {n \in (after + 1)..Len(log) : log[n].readable}
           upto(n) == {m \in visible : m <= n}
           shown == {n \in visible : Cardinality(upto(n)) <= PageLimit}
           more == shown # visible
           top == CHOOSE n \in shown : \A m \in shown : m <= n
           page == ReplayPage(after)
<1>1. /\ page.events = {Row(n) : n \in shown} /\ page.more = more /\ page.rev = revision
      /\ page.cursor = IF more THEN top ELSE Len(log)
      /\ page = [events |-> page.events, more |-> page.more, cursor |-> page.cursor, rev |-> page.rev]
  BY DEF ReplayPage
<1>2. /\ visible \subseteq Nat /\ visible \subseteq DOMAIN log /\ Len(log) \in Nat /\ after \in Nat
      /\ \A n \in visible : after + 1 <= n /\ n <= Len(log)
  BY LogIs
<1>3. ASSUME NEW n \in Nat PROVE IsFiniteSet(upto(n)) /\ Cardinality(upto(n)) \in Nat
  <2>1. IsFiniteSet(1..n)
    <3>1. 1 \in Int /\ n \in Int
      OBVIOUS
    <3> QED
      BY <3>1, FS_Interval
  <2>2. upto(n) \subseteq 1..n
    BY <1>2
  <2> QED
    BY <2>1, <2>2, FS_Subset, FS_CardinalityType
<1>4. ASSUME NEW n \in visible, NEW m \in shown, n <= m PROVE n \in shown
  <2>1. upto(n) \subseteq upto(m) /\ n \in Nat /\ m \in Nat
    BY <1>2, <1>4
  <2>2. Cardinality(upto(n)) <= Cardinality(upto(m))
    BY <1>3, <2>1, FS_Subset
  <2>3. Cardinality(upto(m)) <= PageLimit /\ PageLimit \in Nat
    BY SyncAssumption
  <2>4. Cardinality(upto(n)) <= PageLimit
    <3> DEFINE x == Cardinality(upto(n))
               y == Cardinality(upto(m))
    <3>1. x \in Nat /\ y \in Nat /\ x <= y /\ y <= PageLimit /\ PageLimit \in Nat
      BY <1>3, <2>1, <2>2, <2>3
    <3> HIDE DEF x, y
    <3>2. x <= PageLimit
      BY <3>1
    <3> QED
      BY <3>2 DEF x
  <2> QED
    BY <2>4
<1>5. ASSUME more PROVE shown # {}
  <2>1. visible # {}
    BY <1>5
  <2>2. PICK v \in visible : \A k \in visible : v <= k
    BY <1>2, <2>1, LeastNat
  <2>3. upto(v) = {v}
    BY <1>2, <2>2
  <2>4. Cardinality(upto(v)) = 1
    BY <2>3, FS_Singleton
  <2>5. 1 <= PageLimit
    BY SyncAssumption
  <2> QED
    BY <2>2, <2>4, <2>5
<1>6. ASSUME more PROVE top \in shown /\ \A m \in shown : m <= top
  <2>1. shown \in SUBSET Nat /\ \A k \in shown : k <= Len(log)
    BY <1>2
  <2> HIDE DEF shown
  <2>2. \E n \in shown : \A m \in shown : m <= n
    BY <1>2, <1>5, <1>6, <2>1, GreatestNat
  <2> QED
    BY <2>2
<1>7. page.cursor \in after..Len(log)
  BY <1>1, <1>2, <1>6
<1> HIDE DEF top
<1>8. page \in Pages
  <2>1. page.events \in SUBSET Rows
    BY <1>1, <1>2, RowIs
  <2>2. page.cursor \in Int /\ page.rev \in Int /\ page.more \in BOOLEAN
    BY <1>1, <1>2, <1>7, LogIs
  <2> HIDE DEF page
  <2> QED
    BY <1>1, <2>1, <2>2 DEF Pages
<1>9. \A n \in shown : n <= page.cursor
  BY <1>1, <1>2, <1>6
<1>10. ASSUME NEW e \in page.events
       PROVE  e.seq \in shown /\ e = Row(e.seq) /\ e.seq \in (after + 1)..page.cursor
              /\ RowTrue(e) /\ Fresh(e, page.rev)
  <2>1. PICK n \in shown : e = Row(n)
    BY <1>1
  <2>2. n \in DOMAIN log /\ n \in Nat
    BY <1>2
  <2>3. e.seq = n /\ RowTrue(e) /\ Fresh(e, revision)
    BY <2>1, <2>2, RowIs
  <2>4. n <= page.cursor /\ after + 1 <= n
    BY <1>2, <1>9
  <2> HIDE DEF page, shown
  <2>5. n \in (after + 1)..page.cursor
    BY <1>2, <1>7, <2>2, <2>4
  <2> QED
    BY <1>1, <2>1, <2>3, <2>5
<1>11. Distinct(page.events)
  BY <1>10 DEF Distinct
<1>12. ASSUME NEW n \in (after + 1)..page.cursor, log[n].readable PROVE \E e \in page.events : e.seq = n
  <2>1. n \in visible
    BY <1>2, <1>7, <1>12
  <2>2. n \in shown
    <3>1. CASE more
      BY <1>1, <1>2, <1>4, <1>6, <2>1, <3>1
    <3> QED
      BY <2>1, <3>1
  <2>3. Row(n).seq = n /\ Row(n) \in page.events
    BY <1>1, <1>2, <2>1, <2>2, RowIs
  <2> QED
    BY <2>3
<1>13. ~page.more => Covers(page.cursor, page.rev)
  <2>1. ~page.more => page.cursor = Len(log)
    BY <1>1
  <2>2. \A m \in DOMAIN log : m <= Len(log)
    BY LogIs
  <2> HIDE DEF page
  <2> QED
    BY <2>1, <2>2 DEF Covers
<1>14. page.rev \in 0..revision
  BY <1>1, LogIs
<1>15. PageTrue(page, after)
  <2> HIDE DEF page
  <2> QED
    BY <1>7, <1>10, <1>11, <1>12, <1>13, <1>14 DEF PageTrue
<1>16. page.events = {} => page.cursor = Len(log)
  BY <1>1, <1>5
<1> QED
  BY <1>8, <1>15, <1>16

-----------------------------------------------------------------------------
(* The client applies rows.                                                *)

\* A client that has applied rows, or moved its cursor, and done nothing else.
Alike(c, d) ==
  /\ d.on = c.on /\ d.phase = c.phase /\ d.rev = c.rev /\ d.refreshing = c.refreshing
  /\ d.recs = c.recs /\ d.opening = c.opening

\* What the invariant asks of the client's record can be asked part by part.
LEMMA ClientChange ==
    ASSUME NEW c, ClientTrue(c), c.on, NEW d \in Clients, d.on, d.phase # "idle",
           d.rev = c.rev, d.refreshing = c.refreshing, d.recs = c.recs, d.opening = c.opening,
           d.cursor <= Len(log), d.head <= Len(log),
           \A i \in DOMAIN d.events : Fresh(d.events[i], d.rev),
           Distinct(d.buffer), \A e \in d.buffer : Fresh(e, d.rev),
           d.refreshing => d.cursor = 0 /\ d.buffer = {}
    PROVE  ClientTrue(d)
<1>1. \A i \in DOMAIN d.recs : RecoveryTrue(d, d.recs[i])
  BY DEF ClientTrue, RecoveryTrue
<1>2. d.rev <= revision /\ \A i \in DOMAIN d.opening : d.opening[i] <= Len(log)
  BY DEF ClientTrue
<1> QED
  BY <1>1, <1>2 DEF ClientTrue

LEMMA ApplyAllIs ==
    ASSUME NEW c \in Clients, NEW rows \in SUBSET Rows, NEW k \in Nat, \A e \in rows : e.seq <= k,
           Distinct(rows)
    PROVE  /\ ApplyAll(c, rows) \in Clients /\ Alike(c, ApplyAll(c, rows))
           /\ ApplyAll(c, rows).head = c.head /\ ApplyAll(c, rows).buffer = c.buffer
           /\ InOrder(rows) \in Seq(Rows)
           /\ ApplyAll(c, rows).events = c.events \o InOrder(rows)
           /\ rows = {} => ApplyAll(c, rows).cursor = c.cursor
           /\ rows # {} => \E e \in rows : /\ ApplyAll(c, rows).cursor = e.seq
                                           /\ \A b \in rows : b.seq <= e.seq
<1> DEFINE q == InOrder(rows)
           d == ApplyAll(c, rows)
<1>1. /\ IsFiniteSet(rows) /\ q \in Seq(rows) /\ Len(q) = Cardinality(rows)
      /\ Rising(q) /\ \A e \in rows : \E i \in DOMAIN q : q[i] = e
  BY InOrderIs
<1>2. q \in Seq(Rows) /\ Len(q) \in Nat /\ DOMAIN q = 1..Len(q) /\ c.events \in Seq(Rows)
  BY <1>1, SeqMonotonic DEF Clients
<1>3. CASE rows = {}
  <2>1. d = c
    BY <1>3 DEF ApplyAll
  <2>2. Len(q) = 0
    BY <1>1, <1>3, FS_EmptySet
  <2>3. q = <<>> /\ c.events \o q = c.events
    BY <1>2, <2>2, EmptySeq, ConcatEmptySeq
  <2> HIDE DEF q, d
  <2> QED
    BY <1>2, <1>3, <2>1, <2>3 DEF Alike, q, d
<1>4. CASE rows # {}
  <2> DEFINE n == q[Len(q)].seq
             es == c.events \o q
  <2>1. Len(q) > 0 /\ Len(q) \in DOMAIN q
    BY <1>1, <1>2, <1>4
  <2>2. q[Len(q)] \in rows
    BY <1>1, <2>1
  <2>3. n \in Nat
    BY <2>2 DEF Rows
  <2>4. es \in Seq(Rows)
    BY <1>2, ConcatProperties
  <2>5. d = [c EXCEPT !.events = es, !.cursor = n]
    BY <1>4 DEF ApplyAll, Last
  <2>6. ASSUME NEW b \in rows PROVE b.seq <= n
    <3>1. PICK i \in DOMAIN q : q[i] = b
      BY <1>1
    <3>2. i = Len(q) \/ i < Len(q)
      BY <1>2, <3>1
    <3>3. i < Len(q) => b.seq < n
      BY <1>1, <2>1, <3>1 DEF Rising
    <3>4. b.seq \in Nat
      BY DEF Rows
    <3> QED
      BY <2>3, <3>1, <3>2, <3>3, <3>4
  <2> HIDE DEF es, q, d
  <2>7. d \in Clients /\ Alike(c, d) /\ d.head = c.head /\ d.buffer = c.buffer /\ d.events = es /\ d.cursor = n
    <3> HIDE DEF n
    <3> QED
      BY <2>3, <2>4, <2>5 DEF Clients, Alike
  <2> QED
    BY <1>2, <1>4, <2>2, <2>6, <2>7 DEF es, q, d
<1> QED
  BY <1>3, <1>4

LEMMA ApplyAllTrue ==
    ASSUME LogTrue, NEW c, ClientTrue(c), c.on, ~c.refreshing, NEW rows \in SUBSET Rows, Distinct(rows),
           \A e \in rows : Fresh(e, c.rev)
    PROVE  /\ ClientTrue(ApplyAll(c, rows)) /\ Alike(c, ApplyAll(c, rows))
           /\ ApplyAll(c, rows).head = c.head /\ ApplyAll(c, rows).buffer = c.buffer
<1> DEFINE q == InOrder(rows)
           d == ApplyAll(c, rows)
<1>0. c \in Clients /\ c.phase # "idle"
  BY DEF ClientTrue
<1>1. \A e \in rows : e.seq \in DOMAIN log /\ e.seq <= Len(log) /\ e.seq \in Nat
  BY LogIs DEF Fresh
<1>2. Len(log) \in Nat
  BY LogIs
<1>3. /\ d \in Clients /\ Alike(c, d) /\ d.head = c.head /\ d.buffer = c.buffer
      /\ q \in Seq(Rows) /\ d.events = c.events \o q
      /\ rows = {} => d.cursor = c.cursor
      /\ rows # {} => \E e \in rows : d.cursor = e.seq
  BY <1>0, <1>1, <1>2, ApplyAllIs
<1>4. q \in Seq(rows)
  BY <1>1, <1>2, InOrderIs
<1>5. c.events \in Seq(Rows)
  BY <1>0 DEF Clients
<1> HIDE DEF q, d
<1>6. ASSUME NEW i \in DOMAIN d.events PROVE Fresh(d.events[i], d.rev)
  <2>1. \/ i \in DOMAIN c.events /\ d.events[i] = c.events[i]
        \/ \E j \in DOMAIN q : d.events[i] = q[j]
    <3>1. i \in 1..Len(c.events) + Len(q)
      BY <1>3, <1>5
    <3>2. i <= Len(c.events) => i \in DOMAIN c.events /\ d.events[i] = c.events[i]
      BY <1>3, <1>5, <3>1
    <3>3. i > Len(c.events) => i - Len(c.events) \in DOMAIN q /\ d.events[i] = q[i - Len(c.events)]
      BY <1>3, <1>5, <3>1
    <3> QED
      BY <1>5, <3>1, <3>2, <3>3
  <2>2. \A j \in DOMAIN q : q[j] \in rows
    BY <1>4
  <2>3. \A j \in DOMAIN c.events : Fresh(c.events[j], c.rev)
    BY DEF ClientTrue
  <2> QED
    BY <1>3, <2>1, <2>2, <2>3 DEF Alike
<1>7. d.cursor <= Len(log)
  BY <1>1, <1>3 DEF ClientTrue
<1>8. d.on /\ d.rev = c.rev /\ d.refreshing = c.refreshing /\ d.recs = c.recs /\ d.opening = c.opening
      /\ d.phase # "idle"
  BY <1>0, <1>3 DEF Alike
<1>9. /\ d.head <= Len(log) /\ Distinct(d.buffer) /\ \A e \in d.buffer : Fresh(e, d.rev)
      /\ ~d.refreshing
  BY <1>3, <1>8 DEF ClientTrue
<1>10. ClientTrue(d)
  BY <1>3, <1>6, <1>7, <1>8, <1>9, ClientChange
<1> QED
  BY <1>3, <1>10 DEF d

\* The rows of the buffer that follow the cursor.
Run(c) ==
  {e \in {b \in c.buffer : \A n \in (c.cursor + 1)..b.seq : \E d \in c.buffer : d.seq = n} :
     e.seq > c.cursor}

\* The gap buffer only moves the client forward (realtime.js #drainBuffer).
LEMMA DrainTrue ==
    ASSUME LogTrue, NEW c, ClientTrue(c), c.on, ~c.refreshing
    PROVE  /\ ClientTrue(DrainBuffer(c)) /\ Alike(c, DrainBuffer(c))
           /\ DrainBuffer(c).head = c.head /\ DrainBuffer(c).cursor >= c.cursor
<1> DEFINE a == ApplyAll(c, Run(c))
           kept == {e \in c.buffer : e.seq > c.cursor} \ Run(c)
           d == DrainBuffer(c)
<1>0. /\ c \in Clients /\ c.buffer \in SUBSET Rows /\ Distinct(c.buffer) /\ c.cursor \in Nat
      /\ \A e \in c.buffer : Fresh(e, c.rev)
  BY DEF ClientTrue, Clients
<1>1. Run(c) \in SUBSET Rows /\ Distinct(Run(c)) /\ (\A e \in Run(c) : Fresh(e, c.rev) /\ e.seq > c.cursor)
  BY <1>0 DEF Run, Distinct
<1>2. ClientTrue(a) /\ Alike(c, a) /\ a.head = c.head /\ a.buffer = c.buffer
  BY <1>1, ApplyAllTrue
<1>3. a.cursor >= c.cursor /\ a.cursor \in Nat
  <2>1. Len(log) \in Nat /\ \A e \in Run(c) : e.seq <= Len(log)
    BY <1>1, LogIs DEF Fresh
  <2>2. /\ Run(c) = {} => a.cursor = c.cursor
        /\ Run(c) # {} => \E e \in Run(c) : a.cursor = e.seq
    BY <1>0, <1>1, <2>1, ApplyAllIs
  <2>3. a.cursor \in Nat
    BY <1>2 DEF ClientTrue, Clients
  <2> QED
    BY <1>0, <1>1, <2>2, <2>3 DEF Rows
<1>4. d = [a EXCEPT !.buffer = kept]
  <2>1. d = [a EXCEPT !.buffer = {e \in @ : e.seq > c.cursor} \ Run(c)]
    BY DEF DrainBuffer, Run
  <2> HIDE DEF d, a
  <2> QED
    BY <1>2, <2>1
<1>5. kept \in SUBSET Rows /\ Distinct(kept) /\ \A e \in kept : Fresh(e, c.rev)
  BY <1>0 DEF Distinct
<1> HIDE DEF a, kept, d
<1>6. a \in Clients
  BY <1>2 DEF ClientTrue
<1>7. /\ d \in Clients /\ Alike(a, d) /\ d.head = a.head /\ d.cursor = a.cursor /\ d.buffer = kept
      /\ d.events = a.events
  BY <1>4, <1>5, <1>6 DEF Clients, Alike
<1>8. a.on /\ ~a.refreshing /\ a.rev = c.rev /\ a.phase # "idle"
  BY <1>2 DEF Alike, ClientTrue
<1>9. d.on /\ d.phase # "idle" /\ d.rev = a.rev /\ d.refreshing = a.refreshing /\ d.recs = a.recs
      /\ d.opening = a.opening
  BY <1>7, <1>8 DEF Alike
<1>10. /\ d.cursor <= Len(log) /\ d.head <= Len(log) /\ Distinct(d.buffer)
       /\ (\A i \in DOMAIN d.events : Fresh(d.events[i], d.rev))
       /\ (\A e \in d.buffer : Fresh(e, d.rev)) /\ ~d.refreshing
  BY <1>2, <1>5, <1>7, <1>8, <1>9 DEF ClientTrue
<1>11. ClientTrue(d)
  BY <1>2, <1>7, <1>8, <1>9, <1>10, ClientChange
<1>12. Alike(c, d) /\ d.head = c.head /\ d.cursor >= c.cursor
  BY <1>2, <1>3, <1>7 DEF Alike
<1> QED
  BY <1>11, <1>12 DEF d

\* k numbers that rise through every number from lo to hi.
RisesThrough(f, k, lo, hi) ==
  /\ \A i, j \in 1..k : i < j => f[i] < f[j]
  /\ \A i \in 1..k : f[i] \in Nat /\ lo < f[i] /\ f[i] <= hi
  /\ \A n \in Nat : lo < n /\ n <= hi => \E i \in 1..k : f[i] = n

\* Numbers that rise through an interval and fill it are its elements in order.
LEMMA RisingNumbers ==
    ASSUME NEW k \in Nat, NEW f, NEW lo \in Nat, NEW hi \in Nat, lo <= hi, RisesThrough(f, k, lo, hi)
    PROVE  k = hi - lo /\ \A i \in 1..k : f[i] = lo + i
<1> DEFINE Off == {i \in Nat : i \in 1..k /\ f[i] # lo + i}
<1>a. \A i, j \in 1..k : i < j => f[i] < f[j]
  BY Zenon DEF RisesThrough
<1>b. \A i \in 1..k : f[i] \in Nat /\ lo < f[i] /\ f[i] <= hi
  BY Zenon DEF RisesThrough
<1>c. \A n \in Nat : lo < n /\ n <= hi => \E i \in 1..k : f[i] = n
  BY Zenon DEF RisesThrough
<1>1. Off = {}
  <2> SUFFICES ASSUME Off # {} PROVE FALSE
    OBVIOUS
  <2>1. PICK i \in Off : \A j \in Off : i <= j
    <3>1. Off \in SUBSET Nat
      OBVIOUS
    <3> HIDE DEF Off
    <3> QED
      BY <3>1, LeastNat
  <2>2. i \in 1..k /\ f[i] # lo + i
    BY <2>1
  <2>3. \A j \in 1..k : j < i => f[j] = lo + j
    BY <2>1, <2>2
  <2> HIDE DEF Off
  <2>4. f[i] > lo + i
    <3>0. f[i] \in Nat /\ lo < f[i]
      BY <1>b, <2>2
    <3>1. CASE i = 1
      BY <2>2, <3>0, <3>1
    <3>2. CASE i # 1
      <4>1. i - 1 \in 1..k /\ i - 1 < i
        BY <2>2, <3>2
      <4>2. f[i - 1] = lo + (i - 1)
        BY <2>3, <4>1
      <4>3. f[i - 1] < f[i]
        BY <1>a, <2>2, <4>1
      <4> DEFINE x == f[i]
      <4> HIDE DEF x
      <4>4. lo + (i - 1) < x /\ x \in Nat /\ x # lo + i
        BY <2>2, <3>0, <4>2, <4>3 DEF x
      <4>5. x > lo + i
        BY <2>2, <4>4
      <4> QED
        BY <4>5 DEF x
    <3> QED
      BY <3>1, <3>2
  <2>5. lo + i \in Nat /\ lo < lo + i /\ lo + i <= hi
    <3>1. f[i] \in Nat /\ f[i] <= hi
      BY <1>b, <2>2
    <3> QED
      BY <2>2, <2>4, <3>1
  <2>6. PICK j \in 1..k : f[j] = lo + i
    BY <1>c, <2>5
  <2>7. CASE j < i
    <3>1. lo + j = lo + i
      BY <2>3, <2>6, <2>7
    <3> QED
      BY <2>2, <2>7, <3>1
  <2>8. CASE j = i
    BY <2>2, <2>6, <2>8
  <2>9. CASE i < j
    <3>1. f[i] < f[j]
      BY <1>a, <2>2, <2>9
    <3>2. f[i] \in Nat
      BY <1>b, <2>2
    <3> QED
      BY <2>2, <2>4, <2>6, <3>1, <3>2
  <2> QED
    BY <2>2, <2>7, <2>8, <2>9
<1>2. ASSUME NEW i \in 1..k PROVE f[i] = lo + i
  <2>1. i \in Nat /\ i \notin Off
    BY <1>1
  <2> QED
    BY <2>1
<1> HIDE DEF Off
<1>3. k <= hi - lo
  <2>1. CASE k = 0
    BY <2>1
  <2>2. CASE k # 0
    <3>1. k \in 1..k
      BY <2>2
    <3>2. f[k] = lo + k /\ f[k] <= hi
      BY <1>2, <1>b, <3>1
    <3> QED
      BY <3>2
  <2> QED
    BY <2>1, <2>2
<1>4. k >= hi - lo
  <2>1. CASE lo = hi
    BY <2>1
  <2>2. CASE lo # hi
    <3>1. PICK i \in 1..k : f[i] = hi
      BY <1>c, <2>2
    <3>2. lo + i = hi /\ i <= k
      BY <1>2, <3>1
    <3> QED
      BY <3>2
  <2> QED
    BY <2>1, <2>2
<1> QED
  BY <1>2, <1>3, <1>4

\* So does a sequence of rows whose positions rise through every position from lo to hi.
LEMMA RisingCounts ==
    ASSUME NEW q \in Seq(Rows), NEW lo \in Nat, NEW hi \in Nat, lo <= hi,
           RisesThrough([i \in DOMAIN q |-> q[i].seq], Len(q), lo, hi)
    PROVE  Len(q) = hi - lo /\ \A i \in DOMAIN q : q[i].seq = lo + i
<1> DEFINE k == Len(q)
           f == [i \in DOMAIN q |-> q[i].seq]
<1>1. k \in Nat /\ DOMAIN q = 1..k
  OBVIOUS
<1>2. \A i \in DOMAIN q : f[i] = q[i].seq
  OBVIOUS
<1>3. k = hi - lo /\ \A i \in 1..k : f[i] = lo + i
  <2> HIDE DEF k, f
  <2>1. RisesThrough(f, k, lo, hi)
    BY DEF f, k
  <2> QED
    BY <1>1, <2>1, RisingNumbers
<1> HIDE DEF k, f
<1> QED
  BY <1>1, <1>2, <1>3 DEF k

\* Rows at every position from lo to hi, in their order.
Fills(rows, lo, hi) ==
  /\ \A e \in rows : lo < e.seq /\ e.seq <= hi
  /\ \A n \in Nat : lo < n /\ n <= hi => \E e \in rows : e.seq = n

\* Rows that fill an interval are listed without a gap.
LEMMA OrderCounts ==
    ASSUME NEW rows \in SUBSET Rows, Distinct(rows), NEW lo \in Nat, NEW hi \in Nat, lo <= hi,
           Fills(rows, lo, hi)
    PROVE  /\ InOrder(rows) \in Seq(Rows) /\ Len(InOrder(rows)) = hi - lo
           /\ \A i \in DOMAIN InOrder(rows) : InOrder(rows)[i].seq = lo + i
<1> DEFINE q == InOrder(rows)
           f == [i \in DOMAIN q |-> q[i].seq]
           k == Len(q)
<1>1. /\ q \in Seq(rows) /\ Rising(q) /\ \A e \in rows : \E i \in DOMAIN q : q[i] = e
  <2>1. \A e \in rows : e.seq <= hi
    BY DEF Fills
  <2> QED
    BY <2>1, InOrderIs
<1>2. q \in Seq(Rows)
  BY <1>1, SeqMonotonic
<1> HIDE DEF q
<1>3. k \in Nat /\ DOMAIN q = 1..k /\ (\A i \in DOMAIN q : f[i] = q[i].seq) /\ \A i \in DOMAIN q : q[i] \in rows
  BY <1>1
<1> HIDE DEF f, k
<1>4. \A i \in 1..k : f[i] \in Nat /\ lo < f[i] /\ f[i] <= hi
  BY <1>3 DEF Rows, Fills
<1>5. ASSUME NEW n \in Nat, lo < n, n <= hi PROVE \E i \in 1..k : f[i] = n
  <2>1. PICK e \in rows : e.seq = n
    BY <1>5 DEF Fills
  <2>2. PICK i \in DOMAIN q : q[i] = e
    BY <1>1
  <2> QED
    BY <1>3, <2>1, <2>2
<1>6. \A i, j \in 1..k : i < j => f[i] < f[j]
  <2>1. \A i, j \in DOMAIN q : i < j => q[i].seq < q[j].seq
    BY <1>1, Zenon DEF Rising
  <2> QED
    BY <1>3, <2>1
<1>7. RisesThrough(f, k, lo, hi)
  BY <1>4, <1>5, <1>6, Zenon DEF RisesThrough
<1>8. Len(q) = hi - lo /\ \A i \in DOMAIN q : q[i].seq = lo + i
  BY <1>2, <1>7, RisingCounts DEF f, k
<1> QED
  BY <1>2, <1>8 DEF q

\* Rows that count on where other rows have ended.
LEMMA CountsOn ==
    ASSUME NEW s \in Seq(Rows), NEW q \in Seq(Rows), \A i \in DOMAIN s : s[i].seq = i,
           \A i \in DOMAIN q : q[i].seq = Len(s) + i
    PROVE  s \o q \in Seq(Rows) /\ Len(s \o q) = Len(s) + Len(q) /\ \A i \in DOMAIN (s \o q) : (s \o q)[i].seq = i
<1>1. s \o q \in Seq(Rows) /\ Len(s \o q) = Len(s) + Len(q) /\ DOMAIN (s \o q) = 1..(Len(s) + Len(q))
      /\ Len(s) \in Nat /\ Len(q) \in Nat
  OBVIOUS
<1>2. ASSUME NEW i \in 1..(Len(s) + Len(q)) PROVE (s \o q)[i].seq = i
  <2>1. CASE i <= Len(s)
    <3>1. i \in DOMAIN s /\ (s \o q)[i] = s[i]
      BY <2>1, ConcatProperties
    <3> QED
      BY <3>1
  <2>2. CASE ~(i <= Len(s))
    <3>1. i - Len(s) \in DOMAIN q /\ (s \o q)[i] = q[i - Len(s)]
      BY <1>1, <2>2, ConcatProperties
    <3> QED
      BY <1>1, <3>1
  <2> QED
    BY <2>1, <2>2
<1> QED
  BY <1>1, <1>2

\* An owner applies what follows its cursor.
LEMMA OwnerApplies ==
    ASSUME LogTrue, NEW c, ClientTrue(c), c.on, OwnerTrue(c), ~c.refreshing,
           NEW rows \in SUBSET Rows, Distinct(rows), \A e \in rows : Fresh(e, c.rev) /\ e.seq > c.cursor,
           \A e \in rows : \A n \in (c.cursor + 1)..e.seq : \E d \in rows : d.seq = n
    PROVE  /\ OwnerTrue(ApplyAll(c, rows)) /\ ApplyAll(c, rows).cursor >= c.cursor
           /\ \A e \in rows : e.seq <= ApplyAll(c, rows).cursor
<1> DEFINE q == InOrder(rows)
           d == ApplyAll(c, rows)
<1>0. c \in Clients /\ c.cursor \in Nat /\ c.events \in Seq(Rows) /\ Len(c.events) = c.cursor
      /\ c.recs \in Seq(Recs)
  BY DEF ClientTrue, Clients, OwnerTrue
<1>1. Len(log) \in Nat /\ \A e \in rows : e.seq <= Len(log) /\ e.seq \in Nat
  BY LogIs DEF Fresh
<1>2. /\ d \in Clients /\ Alike(c, d) /\ q \in Seq(Rows) /\ d.events = c.events \o q
      /\ rows = {} => d.cursor = c.cursor
      /\ rows # {} => \E e \in rows : /\ d.cursor = e.seq
                                      /\ \A b \in rows : b.seq <= e.seq
  BY <1>0, <1>1, ApplyAllIs
<1> HIDE DEF q, d
<1>4. d.cursor \in Nat /\ c.cursor <= d.cursor /\ \A e \in rows : e.seq <= d.cursor
  <2>1. CASE rows = {}
    BY <1>0, <1>2, <2>1
  <2>2. CASE rows # {}
    <3>1. PICK e \in rows : d.cursor = e.seq /\ \A b \in rows : b.seq <= e.seq
      BY <1>2, <2>2
    <3>2. e.seq \in Nat /\ e.seq > c.cursor
      BY <1>1
    <3> QED
      BY <1>0, <3>1, <3>2
  <2> QED
    BY <2>1, <2>2
<1>5. ASSUME NEW n \in Nat, c.cursor < n, n <= d.cursor PROVE \E e \in rows : e.seq = n
  <2>1. PICK e \in rows : d.cursor = e.seq
    BY <1>0, <1>2, <1>5
  <2>2. n \in (c.cursor + 1)..e.seq
    BY <1>0, <1>4, <1>5, <2>1
  <2> QED
    BY <2>2
<1>7. Len(q) = d.cursor - c.cursor /\ \A i \in DOMAIN q : q[i].seq = c.cursor + i
  <2>1. \A e \in rows : c.cursor < e.seq /\ e.seq <= d.cursor
    BY <1>0, <1>1, <1>4
  <2>2. Fills(rows, c.cursor, d.cursor)
    BY <1>5, <2>1 DEF Fills
  <2> QED
    BY <1>0, <1>4, <2>2, OrderCounts DEF q
<1>8. Len(d.events) = d.cursor /\ \A i \in DOMAIN d.events : d.events[i].seq = i
  <2>1. \A i \in DOMAIN c.events : c.events[i].seq = i
    BY DEF OwnerTrue
  <2>2. Len(d.events) = Len(c.events) + Len(q) /\ \A i \in DOMAIN d.events : d.events[i].seq = i
    BY <1>0, <1>2, <1>7, <2>1, CountsOn
  <2> QED
    BY <1>0, <1>4, <1>7, <2>2
<1>10. Covers(d.cursor, d.rev)
  <2>1. \A m \in DOMAIN log : m \in Nat
    BY LogIs
  <2>2. Covers(c.cursor, c.rev) /\ d.rev = c.rev
    BY <1>2 DEF OwnerTrue, Alike
  <2> QED
    BY <1>0, <1>4, <2>1, <2>2 DEF Covers
<1>11. \A i \in DOMAIN d.opening : Reached(d, d.opening[i])
  <2>1. ASSUME NEW i \in DOMAIN c.opening PROVE c.opening[i] <= d.cursor
    <3>1. c.opening[i] <= c.cursor
      BY DEF OwnerTrue, Reached
    <3>2. c.opening[i] \in Nat
      BY <1>0 DEF Clients
    <3> QED
      BY <1>0, <1>4, <3>1, <3>2
  <2> QED
    BY <1>2, <2>1 DEF Alike, Reached
<1>12. ASSUME NEW i \in DOMAIN c.recs, ~c.recs[i].stale
       PROVE  ~c.recs[i].replacing /\ c.recs[i].before <= d.cursor
  <2>1. c.recs[i].before \in Nat
    <3>1. c.recs[i] \in Recs
      BY <1>0
    <3> QED
      BY <3>1 DEF Recs
  <2>2. ~c.recs[i].replacing /\ c.recs[i].before <= c.cursor
    <3>1. RecoveryTrue(c, c.recs[i]) /\ OwnerRecovery(c, c.recs[i])
      BY DEF ClientTrue, OwnerTrue
    <3> QED
      BY <1>12, <3>1 DEF RecoveryTrue, OwnerRecovery
  <2> QED
    BY <1>0, <1>4, <2>1, <2>2
<1>13. \A i \in DOMAIN d.recs : OwnerRecovery(d, d.recs[i])
  BY <1>2, <1>12 DEF OwnerRecovery, Alike
<1>14. OwnerTrue(d)
  BY <1>2, <1>8, <1>10, <1>11, <1>13 DEF OwnerTrue, Alike
<1> QED
  BY <1>4, <1>14 DEF d

\* An owner's client that drains its buffer goes on without a gap.
LEMMA OwnerDrains ==
    ASSUME LogTrue, NEW c, ClientTrue(c), c.on, OwnerTrue(c), ~c.refreshing
    PROVE  OwnerTrue(DrainBuffer(c))
<1> DEFINE a == ApplyAll(c, Run(c))
           d == DrainBuffer(c)
<1>0. /\ c \in Clients /\ c.buffer \in SUBSET Rows /\ Distinct(c.buffer) /\ c.cursor \in Nat
      /\ \A e \in c.buffer : Fresh(e, c.rev)
  BY DEF ClientTrue, Clients
<1>1. Run(c) \in SUBSET Rows /\ Distinct(Run(c)) /\ (\A e \in Run(c) : Fresh(e, c.rev) /\ e.seq > c.cursor)
  BY <1>0 DEF Run, Distinct
<1>2. ASSUME NEW e \in Run(c), NEW n \in (c.cursor + 1)..e.seq PROVE \E b \in Run(c) : b.seq = n
  <2>1. \A m \in (c.cursor + 1)..e.seq : \E b \in c.buffer : b.seq = m
    BY DEF Run
  <2>2. PICK b \in c.buffer : b.seq = n
    BY <2>1
  <2>3. e.seq \in Nat
    BY <1>1 DEF Rows
  <2>4. \A m \in (c.cursor + 1)..b.seq : \E x \in c.buffer : x.seq = m
    BY <1>0, <2>1, <2>2, <2>3
  <2>5. b \in Run(c)
    BY <1>0, <2>2, <2>3, <2>4 DEF Run
  <2> QED
    BY <2>2, <2>5
<1>3. OwnerTrue(a)
  BY <1>1, <1>2, OwnerApplies
<1>4. d = [a EXCEPT !.buffer = {e \in @ : e.seq > c.cursor} \ Run(c)]
  BY DEF DrainBuffer, Run
<1>5. a \in Clients
  BY <1>1, ApplyAllTrue DEF ClientTrue
<1> HIDE DEF a, d
<1>6. d.events = a.events /\ d.refreshing = a.refreshing /\ d.cursor = a.cursor /\ d.rev = a.rev
      /\ d.opening = a.opening /\ d.recs = a.recs /\ d.head = a.head
  BY <1>4, <1>5 DEF Clients
<1>7. OwnerTrue(d)
  BY <1>3, <1>6 DEF OwnerTrue, OwnerRecovery, Reached
<1> QED
  BY <1>7 DEF d


-----------------------------------------------------------------------------
(* What the client does between two awaits.                                *)

Onward(c, d) == \A p \in Nat : Reached(c, p) => Reached(d, p)

\* From c the client comes to d, and an owner's client loses nothing by it.
Leads(c, d) ==
  ClientTrue(d) /\ d.on /\ (owner /\ OwnerTrue(c) => OwnerTrue(d) /\ Onward(c, d))

Thens == {"none", "open", "swallow"}

LEMMA LeadsOn == ASSUME NEW a, NEW b, NEW c, Leads(a, b), Leads(b, c) PROVE Leads(a, c)
BY DEF Leads, Onward

\* The phase, the timer and the socket do not matter to the timeline.
LEMMA SameLeads ==
    ASSUME NEW c, ClientTrue(c), c.on, NEW d \in Clients, d.on, d.phase # "idle", d.events = c.events,
           d.cursor = c.cursor, d.rev = c.rev, d.refreshing = c.refreshing, d.head = c.head,
           d.buffer = c.buffer, d.recs = c.recs, d.opening = c.opening
    PROVE  Leads(c, d)
<1>1. ClientTrue(d)
  <2>1. /\ d.cursor <= Len(log) /\ d.head <= Len(log) /\ Distinct(d.buffer)
        /\ (\A i \in DOMAIN d.events : Fresh(d.events[i], d.rev))
        /\ (\A e \in d.buffer : Fresh(e, d.rev)) /\ (d.refreshing => d.cursor = 0 /\ d.buffer = {})
    BY DEF ClientTrue
  <2> QED
    BY <2>1, ClientChange
<1>2. OwnerTrue(c) => OwnerTrue(d)
  BY DEF OwnerTrue, OwnerRecovery, Reached
<1>3. Onward(c, d)
  BY DEF Onward, Reached
<1> QED
  BY <1>1, <1>2, <1>3 DEF Leads

LEMMA NoPageIs == NoPage \in Pages
BY DEF NoPage, Pages

\* A new recovery changes nothing the client shows.
LEMMA StartTrue ==
    ASSUME LogTrue, NEW c, ClientTrue(c), c.on, NEW phase \in {"replaying", "recovering"}, NEW then \in Thens
    PROVE  /\ ClientTrue(StartRecover(c, phase, then)) /\ StartRecover(c, phase, then).on
           /\ OwnerTrue(c) /\ (c.refreshing => \A i \in DOMAIN c.recs : c.recs[i].stale) =>
                OwnerTrue(StartRecover(c, phase, then)) /\ Onward(c, StartRecover(c, phase, then))
           /\ StartRecover(c, phase, then).refreshing = c.refreshing
           /\ StartRecover(c, phase, then).head = c.head
<1> DEFINE r == [then |-> then, stale |-> FALSE, replacing |-> c.refreshing, replacement |-> <<>>,
                 position |-> c.cursor, before |-> c.cursor, page |-> NoPage]
           rs == Append(c.recs, r)
           d == StartRecover(c, phase, then)
<1>0. /\ c \in Clients /\ c.cursor \in Nat /\ c.recs \in Seq(Recs) /\ c.refreshing \in BOOLEAN
      /\ c.cursor <= Len(log) /\ (c.refreshing => c.cursor = 0)
  BY DEF ClientTrue, Clients
<1>1. r \in Recs
  <2>1. <<>> \in Seq(Rows)
    OBVIOUS
  <2> QED
    BY <1>0, <2>1, NoPageIs DEF Recs, Thens
<1>2. /\ r.then = then /\ r.stale = FALSE /\ r.replacing = c.refreshing /\ r.replacement = <<>>
      /\ r.position = c.cursor /\ r.before = c.cursor /\ r.page = NoPage
  OBVIOUS
<1>3. d = [c EXCEPT !.phase = phase, !.recs = rs]
  BY DEF StartRecover
<1> HIDE DEF r
<1>4. /\ rs \in Seq(Recs) /\ DOMAIN rs = 1..(Len(c.recs) + 1) /\ DOMAIN c.recs = 1..Len(c.recs)
      /\ Len(c.recs) \in Nat /\ rs[Len(c.recs) + 1] = r
      /\ \A i \in DOMAIN c.recs : i \in DOMAIN rs /\ rs[i] = c.recs[i]
  BY <1>0, <1>1
<1>5. ASSUME NEW i \in DOMAIN rs
      PROVE  (i \in DOMAIN c.recs /\ rs[i] = c.recs[i]) \/ (i = Len(c.recs) + 1 /\ rs[i] = r)
  BY <1>4
<1> HIDE DEF rs, d
<1>6. /\ d \in Clients /\ d.on = c.on /\ d.phase = phase /\ d.cursor = c.cursor /\ d.events = c.events
      /\ d.rev = c.rev /\ d.refreshing = c.refreshing /\ d.head = c.head /\ d.buffer = c.buffer
      /\ d.recs = rs /\ d.opening = c.opening
  BY <1>0, <1>3, <1>4 DEF Clients, Phases
<1>7. ASSUME NEW i \in DOMAIN d.recs PROVE RecoveryTrue(d, d.recs[i])
  <2>1. RecoveryTrue(d, r)
    BY <1>0, <1>2, <1>6 DEF RecoveryTrue
  <2>2. \A j \in DOMAIN c.recs : RecoveryTrue(d, c.recs[j])
    BY <1>6 DEF ClientTrue, RecoveryTrue
  <2> QED
    BY <1>5, <1>6, <2>1, <2>2
<1>8. ClientTrue(d)
  BY <1>6, <1>7 DEF ClientTrue
<1>9. ASSUME OwnerTrue(c), c.refreshing => \A i \in DOMAIN c.recs : c.recs[i].stale PROVE OwnerTrue(d)
  <2>1. OwnerRecovery(d, r)
    BY <1>0, <1>2, <1>6 DEF OwnerRecovery
  <2>2. \A j \in DOMAIN c.recs : OwnerRecovery(d, c.recs[j])
    BY <1>6, <1>9 DEF OwnerTrue, OwnerRecovery
  <2>3. \A i \in DOMAIN d.recs : OwnerRecovery(d, d.recs[i])
    BY <1>5, <1>6, <2>1, <2>2
  <2>4. ASSUME NEW i \in DOMAIN c.recs, c.recs[i].replacing, ~c.recs[i].stale PROVE FALSE
    <3>1. c.refreshing
      BY <1>9, <2>4 DEF OwnerTrue, OwnerRecovery
    <3> QED
      BY <1>9, <2>4, <3>1
  <2>5. ASSUME NEW i \in DOMAIN rs, NEW j \in DOMAIN rs, i # j, rs[i].replacing, ~rs[i].stale
        PROVE  rs[j].stale
    <3>1. rs[i] = r /\ i = Len(c.recs) + 1
      BY <1>5, <2>4, <2>5
    <3>2. j \in DOMAIN c.recs /\ rs[j] = c.recs[j]
      BY <1>5, <2>5, <3>1
    <3> QED
      BY <1>2, <1>9, <2>5, <3>1, <3>2
  <2>6. \A i \in DOMAIN d.opening : Reached(d, d.opening[i])
    BY <1>6, <1>9 DEF OwnerTrue, Reached
  <2> QED
    BY <1>6, <1>9, <2>3, <2>5, <2>6 DEF OwnerTrue
<1>10. Onward(c, d)
  BY <1>6 DEF Onward, Reached
<1> QED
  BY <1>6, <1>8, <1>9, <1>10 DEF d

LEMMA ContinueLeads ==
    ASSUME LogTrue, NEW c, ClientTrue(c), c.on, NEW then
    PROVE  Leads(c, ContinueWith(c, then))
<1> DEFINE os == Append(c.opening, c.cursor)
           d == [c EXCEPT !.opening = os]
<1>0. /\ c \in Clients /\ c.cursor \in Nat /\ c.opening \in Seq(Nat) /\ c.cursor <= Len(log)
      /\ (c.refreshing => c.cursor = 0) /\ c.phase # "idle" /\ c.head \in Nat
  BY DEF ClientTrue, Clients
<1>1. Leads(c, c)
  BY DEF Leads, Onward
<1>2. /\ os \in Seq(Nat)
      /\ \A i \in DOMAIN os : (i \in DOMAIN c.opening /\ os[i] = c.opening[i]) \/ os[i] = c.cursor
  BY <1>0
<1> HIDE DEF os
<1>3. /\ d \in Clients /\ d.on = c.on /\ d.phase = c.phase /\ d.cursor = c.cursor /\ d.events = c.events
      /\ d.rev = c.rev /\ d.refreshing = c.refreshing /\ d.head = c.head /\ d.buffer = c.buffer
      /\ d.recs = c.recs /\ d.opening = os
  BY <1>0, <1>2 DEF Clients
<1> HIDE DEF d
<1>4. ClientTrue(d)
  <2>1. \A i \in DOMAIN d.recs : RecoveryTrue(d, d.recs[i])
    BY <1>3 DEF ClientTrue, RecoveryTrue
  <2>2. \A i \in DOMAIN d.opening : d.opening[i] <= Len(log)
    BY <1>0, <1>2, <1>3 DEF ClientTrue
  <2> QED
    BY <1>3, <2>1, <2>2 DEF ClientTrue
<1>5. Onward(c, d)
  BY <1>3 DEF Onward, Reached
<1>6. ASSUME OwnerTrue(c) PROVE OwnerTrue(d)
  <2>1. Reached(d, c.cursor)
    BY <1>0, <1>3 DEF Reached
  <2>2. \A i \in DOMAIN c.opening : Reached(d, c.opening[i])
    BY <1>3, <1>6 DEF OwnerTrue, Reached
  <2>3. \A i \in DOMAIN d.opening : Reached(d, d.opening[i])
    BY <1>2, <1>3, <2>1, <2>2
  <2> QED
    BY <1>3, <1>6, <2>3 DEF OwnerTrue, OwnerRecovery
<1>7. Leads(c, d)
  BY <1>3, <1>4, <1>5, <1>6 DEF Leads
<1> QED
  BY <1>1, <1>7 DEF ContinueWith, d, os

\* An invalidation masks what is shown and reads everything again, at least up to the
\* position that told of it (realtime.js invalidateContent).
LEMMA InvalidateLeads ==
    ASSUME LogTrue, NEW c, ClientTrue(c), c.on, NEW rev \in 0..revision, NEW seq \in 0..Len(log),
           NEW then \in Thens
    PROVE  /\ Leads(c, Invalidate(c, rev, seq, then))
           /\ \/ /\ Invalidate(c, rev, seq, then) = c
                 /\ rev < c.rev \/ (rev = c.rev /\ (c.refreshing \/ seq \in EventIds(c)))
              \/ Invalidate(c, rev, seq, then).refreshing /\ seq <= Invalidate(c, rev, seq, then).head
<1> DEFINE h == Larger(c.head, Larger(c.cursor, seq))
           es == [i \in DOMAIN c.events |-> [c.events[i] EXCEPT !.body = "masked"]]
           rs == [i \in DOMAIN c.recs |-> [c.recs[i] EXCEPT !.stale = TRUE]]
           b == [c EXCEPT !.rev = rev, !.head = h, !.events = es, !.buffer = {}, !.cursor = 0,
                          !.refreshing = TRUE, !.recs = rs]
           d == StartRecover(b, "recovering", then)
           same == rev < c.rev \/ (rev = c.rev /\ (c.refreshing \/ seq \in EventIds(c)))
<1>0. /\ c \in Clients /\ c.cursor \in Nat /\ c.cursor <= Len(log) /\ c.head \in Nat /\ c.head <= Len(log)
      /\ c.rev \in Nat /\ c.events \in Seq(Rows) /\ c.recs \in Seq(Recs) /\ Len(log) \in Nat /\ revision \in Nat
      /\ c.phase # "idle" /\ c.opening \in Seq(Nat) /\ c.refreshing \in BOOLEAN
  BY LogIs DEF ClientTrue, Clients
<1>1. CASE same
  <2>1. Invalidate(c, rev, seq, then) = c
    BY <1>1 DEF Invalidate
  <2>2. Leads(c, c)
    BY DEF Leads, Onward
  <2> QED
    BY <1>1, <2>1, <2>2
<1>2. CASE ~same
  <2>1. Invalidate(c, rev, seq, then) = d
    BY <1>2 DEF Invalidate
  <2>2. c.rev <= rev
    BY <1>0, <1>2
  <2>3. h \in Nat /\ h <= Len(log) /\ c.head <= h /\ c.cursor <= h /\ seq <= h
    BY <1>0 DEF Larger
  <2>4. es \in Seq(Rows) /\ DOMAIN es = DOMAIN c.events
        /\ \A i \in DOMAIN c.events : es[i].seq = c.events[i].seq /\ es[i].body = "masked"
    <3>1. ASSUME NEW i \in DOMAIN c.events
          PROVE  /\ [c.events[i] EXCEPT !.body = "masked"] \in Rows
                 /\ [c.events[i] EXCEPT !.body = "masked"].seq = c.events[i].seq
                 /\ [c.events[i] EXCEPT !.body = "masked"].body = "masked"
      <4>1. c.events[i] \in Rows
        BY <1>0
      <4> QED
        BY <4>1 DEF Rows
    <3>2. DOMAIN c.events = 1..Len(c.events) /\ Len(c.events) \in Nat
      BY <1>0
    <3> QED
      BY <3>1, <3>2
  <2>5. rs \in Seq(Recs) /\ DOMAIN rs = DOMAIN c.recs
        /\ \A i \in DOMAIN c.recs : /\ rs[i].stale /\ rs[i].before = c.recs[i].before
                                    /\ rs[i].page = c.recs[i].page
    <3>1. ASSUME NEW i \in DOMAIN c.recs
          PROVE  LET r == [c.recs[i] EXCEPT !.stale = TRUE]
                 IN  r \in Recs /\ r.stale /\ r.before = c.recs[i].before /\ r.page = c.recs[i].page
      <4>1. c.recs[i] \in Recs
        BY <1>0
      <4> QED
        BY <4>1 DEF Recs
    <3>2. DOMAIN c.recs = 1..Len(c.recs) /\ Len(c.recs) \in Nat
      BY <1>0
    <3> QED
      BY <3>1, <3>2
  <2>6. {} \in SUBSET Rows /\ rev \in Nat
    BY <1>0
  <2> HIDE DEF h, es, rs
  <2>7. /\ b \in Clients /\ b.on = c.on /\ b.phase = c.phase /\ b.cursor = 0 /\ b.events = es
        /\ b.rev = rev /\ b.refreshing = TRUE /\ b.head = h /\ b.buffer = {}
        /\ b.recs = rs /\ b.opening = c.opening
    BY <1>0, <2>3, <2>4, <2>5, <2>6 DEF Clients
  <2> HIDE DEF b
  <2>8. ClientTrue(b)
    <3>1. \A i \in DOMAIN b.recs : RecoveryTrue(b, b.recs[i])
      BY <2>5, <2>7 DEF ClientTrue, RecoveryTrue
    <3>2. \A i \in DOMAIN b.events : Fresh(b.events[i], b.rev)
      BY <2>4, <2>7 DEF ClientTrue, Fresh
    <3>3. Distinct(b.buffer) /\ \A i \in DOMAIN b.opening : b.opening[i] <= Len(log)
      BY <2>7 DEF Distinct, ClientTrue
    <3>4. b.rev <= revision /\ 0 <= Len(log)
      BY <1>0, <2>7
    <3> QED
      BY <1>0, <2>3, <2>7, <3>1, <3>2, <3>3, <3>4 DEF ClientTrue
  <2>9. Onward(c, b)
    <3> SUFFICES ASSUME NEW p \in Nat, Reached(c, p) PROVE Reached(b, p)
      BY DEF Onward
    <3>1. CASE p <= c.cursor \/ p <= c.head
      BY <1>0, <2>3, <2>7, <3>1 DEF Reached
    <3>2. CASE \E m \in DOMAIN log : log[m].kind = "marker" /\ log[m].rev <= c.rev /\ p <= m
      <4>1. PICK m \in DOMAIN log : log[m].kind = "marker" /\ log[m].rev <= c.rev /\ p <= m
        BY <3>2
      <4>2. log[m].rev <= rev
        BY <1>0, <2>2, <4>1, LogIs
      <4> QED
        BY <2>7, <4>1, <4>2 DEF Reached
    <3> QED
      BY <3>1, <3>2 DEF Reached
  <2>10. ASSUME OwnerTrue(c) PROVE OwnerTrue(b)
    <3>1. \A i \in DOMAIN b.events : b.events[i].seq = i
      BY <2>4, <2>7, <2>10 DEF OwnerTrue
    <3>2. \A i \in DOMAIN b.opening : Reached(b, b.opening[i])
      <4>1. \A i \in DOMAIN c.opening : c.opening[i] \in Nat /\ Reached(c, c.opening[i])
        BY <1>0, <2>10 DEF OwnerTrue
      <4> QED
        BY <2>7, <2>9, <4>1 DEF Onward
    <3>3. \A i \in DOMAIN b.recs : OwnerRecovery(b, b.recs[i])
      BY <2>5, <2>7 DEF OwnerRecovery
    <3> QED
      BY <2>5, <2>7, <3>1, <3>2, <3>3 DEF OwnerTrue
  <2>11. \A i \in DOMAIN b.recs : b.recs[i].stale
    BY <2>5, <2>7
  <2>12. /\ ClientTrue(d) /\ d.on /\ d.refreshing = b.refreshing /\ d.head = b.head
         /\ OwnerTrue(b) => OwnerTrue(d) /\ Onward(b, d)
    BY <2>7, <2>8, <2>11, StartTrue
  <2>13. Leads(c, d)
    BY <2>9, <2>10, <2>12 DEF Leads, Onward
  <2> QED
    BY <2>1, <2>3, <2>7, <2>12, <2>13
<1> QED
  BY <1>1, <1>2

LEMMA DrainLeads ==
    ASSUME LogTrue, NEW c, ClientTrue(c), c.on, ~c.refreshing
    PROVE  Leads(c, DrainBuffer(c)) /\ ~DrainBuffer(c).refreshing /\ c.cursor <= DrainBuffer(c).cursor
<1> DEFINE d == DrainBuffer(c)
<1>1. ClientTrue(d) /\ Alike(c, d) /\ d.cursor >= c.cursor
  BY DrainTrue
<1>2. OwnerTrue(c) => OwnerTrue(d)
  BY OwnerDrains
<1> HIDE DEF d
<1>3. c.cursor \in Nat /\ d.cursor \in Nat /\ d.on /\ ~d.refreshing
  BY <1>1 DEF ClientTrue, Clients, Alike
<1>4. Onward(c, d)
  BY <1>1, <1>3 DEF Onward, Reached
<1> QED
  BY <1>1, <1>2, <1>3, <1>4 DEF Leads, d

\* During a refresh, positions heard of are noted.
LEMMA HeadLeads ==
    ASSUME LogTrue, NEW c, ClientTrue(c), c.on, c.refreshing, NEW p \in 0..Len(log)
    PROVE  LET d == [c EXCEPT !.head = Larger(@, p)]
           IN  /\ Leads(c, d) /\ Reached(d, p) /\ d.rev = c.rev /\ d.refreshing
               /\ d.cursor = c.cursor /\ d.phase = c.phase /\ p <= d.head
<1> DEFINE h == Larger(c.head, p)
           d == [c EXCEPT !.head = h]
<1>0. c \in Clients /\ c.head \in Nat /\ c.head <= Len(log) /\ Len(log) \in Nat /\ c.phase # "idle"
  BY LogIs DEF ClientTrue, Clients
<1>1. h \in Nat /\ h <= Len(log) /\ c.head <= h /\ p <= h
  BY <1>0 DEF Larger
<1> HIDE DEF h
<1>2. /\ d \in Clients /\ d.on = c.on /\ d.phase = c.phase /\ d.cursor = c.cursor /\ d.events = c.events
      /\ d.rev = c.rev /\ d.refreshing = c.refreshing /\ d.head = h /\ d.buffer = c.buffer
      /\ d.recs = c.recs /\ d.opening = c.opening
  BY <1>0, <1>1 DEF Clients
<1> HIDE DEF d
<1>3. ClientTrue(d)
  <2>1. /\ d.cursor <= Len(log) /\ d.head <= Len(log) /\ Distinct(d.buffer)
        /\ (\A i \in DOMAIN d.events : Fresh(d.events[i], d.rev))
        /\ (\A e \in d.buffer : Fresh(e, d.rev)) /\ (d.refreshing => d.cursor = 0 /\ d.buffer = {})
    BY <1>1, <1>2 DEF ClientTrue
  <2> QED
    BY <1>0, <1>2, <2>1, ClientChange
<1>4. ASSUME NEW n \in Nat, Reached(c, n) PROVE Reached(d, n)
  BY <1>0, <1>1, <1>2, <1>4 DEF Reached
<1>5. ASSUME OwnerTrue(c) PROVE OwnerTrue(d)
  <2>1. \A i \in DOMAIN c.opening : c.opening[i] \in Nat /\ Reached(c, c.opening[i])
    BY <1>0, <1>5 DEF OwnerTrue, Clients
  <2>2. \A i \in DOMAIN d.opening : Reached(d, d.opening[i])
    BY <1>2, <1>4, <2>1
  <2> QED
    BY <1>2, <1>5, <2>2 DEF OwnerTrue, OwnerRecovery
<1>6. Reached(d, p)
  BY <1>1, <1>2 DEF Reached
<1>7. Leads(c, d)
  BY <1>2, <1>3, <1>4, <1>5 DEF Leads, Onward
<1> QED
  BY <1>1, <1>2, <1>6, <1>7 DEF d, h

\* An owner's timeline that is longer than it was, and still the log up to the cursor.
LEMMA OwnerAdvances ==
    ASSUME LogTrue, NEW c, ClientTrue(c), OwnerTrue(c), ~c.refreshing, NEW d, d.cursor \in Nat,
           d.rev = c.rev, ~d.refreshing, d.recs = c.recs, d.opening = c.opening, c.cursor <= d.cursor,
           \A i \in DOMAIN d.events : d.events[i].seq = i, Len(d.events) = d.cursor
    PROVE  OwnerTrue(d) /\ Onward(c, d)
<1>0. c.cursor \in Nat /\ c.opening \in Seq(Nat) /\ c.recs \in Seq(Recs)
  BY DEF ClientTrue, Clients
<1>1. Onward(c, d)
  BY <1>0 DEF Onward, Reached
<1>2. Covers(d.cursor, d.rev)
  <2>1. \A m \in DOMAIN log : m \in Nat
    BY LogIs
  <2> QED
    BY <1>0, <2>1 DEF Covers, OwnerTrue
<1>3. \A i \in DOMAIN d.opening : Reached(d, d.opening[i])
  <2>1. \A i \in DOMAIN c.opening : c.opening[i] \in Nat /\ Reached(c, c.opening[i])
    BY <1>0 DEF OwnerTrue
  <2> QED
    BY <1>1, <2>1 DEF Onward
<1>4. ASSUME NEW i \in DOMAIN d.recs PROVE OwnerRecovery(d, d.recs[i])
  <2>1. c.recs[i] \in Recs /\ RecoveryTrue(c, c.recs[i]) /\ OwnerRecovery(c, c.recs[i])
    BY <1>0 DEF ClientTrue, OwnerTrue
  <2>2. c.recs[i].before \in Nat
    BY <2>1 DEF Recs
  <2>3. ~c.recs[i].stale => ~c.recs[i].replacing /\ c.recs[i].before <= c.cursor
    BY <2>1 DEF OwnerRecovery
  <2>4. ~c.recs[i].stale => c.recs[i].before <= d.cursor
    BY <1>0, <2>2, <2>3
  <2> QED
    BY <2>3, <2>4 DEF OwnerRecovery
<1> QED
  BY <1>1, <1>2, <1>3, <1>4 DEF OwnerTrue

LEMMA ApplyLeads ==
    ASSUME LogTrue, NEW c, ClientTrue(c), c.on, ~c.refreshing, NEW e \in Rows, Fresh(e, c.rev),
           e.seq = c.cursor + 1
    PROVE  Leads(c, Apply(c, e)) /\ ~Apply(c, e).refreshing /\ Apply(c, e).cursor = e.seq
<1> DEFINE es == Append(c.events, e)
           n == e.seq
           d == [c EXCEPT !.events = es, !.cursor = n]
<1>0. /\ c \in Clients /\ c.events \in Seq(Rows) /\ c.cursor \in Nat /\ c.phase # "idle"
      /\ n \in Nat /\ n \in DOMAIN log /\ n <= Len(log)
  BY LogIs DEF ClientTrue, Clients, Rows, Fresh
<1>1. /\ es \in Seq(Rows) /\ Len(es) = Len(c.events) + 1 /\ DOMAIN es = 1..(Len(c.events) + 1)
      /\ Len(c.events) \in Nat /\ es[Len(c.events) + 1] = e
      /\ \A i \in DOMAIN c.events : es[i] = c.events[i]
      /\ DOMAIN c.events = 1..Len(c.events)
  BY <1>0
<1>2. \A i \in DOMAIN es : i \in DOMAIN c.events \/ i = Len(c.events) + 1
  BY <1>1
<1> HIDE DEF es, n
<1>3. /\ d \in Clients /\ d.on = c.on /\ d.phase = c.phase /\ d.cursor = n /\ d.events = es
      /\ d.rev = c.rev /\ d.refreshing = c.refreshing /\ d.head = c.head /\ d.buffer = c.buffer
      /\ d.recs = c.recs /\ d.opening = c.opening
  BY <1>0, <1>1 DEF Clients
<1> HIDE DEF d
<1>4. ClientTrue(d)
  <2>1. \A i \in DOMAIN d.events : Fresh(d.events[i], d.rev)
    BY <1>1, <1>2, <1>3 DEF ClientTrue
  <2>2. /\ d.cursor <= Len(log) /\ d.head <= Len(log) /\ Distinct(d.buffer)
        /\ (\A b \in d.buffer : Fresh(b, d.rev)) /\ ~d.refreshing
    BY <1>0, <1>3 DEF ClientTrue
  <2> QED
    BY <1>0, <1>3, <2>1, <2>2, ClientChange
<1>5. ASSUME OwnerTrue(c) PROVE OwnerTrue(d) /\ Onward(c, d)
  <2>1. Len(c.events) = c.cursor
    BY <1>5 DEF OwnerTrue
  <2>2. n = c.cursor + 1
    BY DEF n
  <2>3. \A i \in DOMAIN d.events : d.events[i].seq = i
    BY <1>1, <1>2, <1>3, <1>5, <2>1 DEF OwnerTrue
  <2>4. d.cursor \in Nat /\ c.cursor <= d.cursor /\ Len(d.events) = d.cursor
    BY <1>0, <1>1, <1>3, <2>1, <2>2
  <2> QED
    BY <1>3, <1>5, <2>3, <2>4, OwnerAdvances
<1>6. Leads(c, d)
  BY <1>3, <1>4, <1>5 DEF Leads
<1> QED
  BY <1>3, <1>6 DEF Apply, d, es, n

\* A row is held in the gap buffer.
LEMMA HeldLeads ==
    ASSUME LogTrue, NEW c, ClientTrue(c), c.on, ~c.refreshing, NEW e \in Rows, Fresh(e, c.rev)
    PROVE  LET d == [c EXCEPT !.buffer = {b \in @ : b.seq # e.seq} \cup {e}]
           IN  Leads(c, d) /\ ~d.refreshing
<1> DEFINE bs == {b \in c.buffer : b.seq # e.seq} \cup {e}
           d == [c EXCEPT !.buffer = bs]
<1>0. c \in Clients /\ c.buffer \in SUBSET Rows /\ c.phase # "idle"
  BY DEF ClientTrue, Clients
<1>1. /\ bs \in SUBSET Rows /\ Distinct(bs) /\ \A b \in bs : Fresh(b, c.rev)
  BY <1>0 DEF ClientTrue, Distinct
<1> HIDE DEF bs
<1>3. /\ d \in Clients /\ d.on = c.on /\ d.phase = c.phase /\ d.cursor = c.cursor /\ d.events = c.events
      /\ d.rev = c.rev /\ d.refreshing = c.refreshing /\ d.head = c.head /\ d.buffer = bs
      /\ d.recs = c.recs /\ d.opening = c.opening
  BY <1>0, <1>1 DEF Clients
<1> HIDE DEF d
<1>4. ClientTrue(d)
  <2>1. /\ d.cursor <= Len(log) /\ d.head <= Len(log) /\ Distinct(d.buffer) /\ ~d.refreshing
        /\ (\A b \in d.buffer : Fresh(b, d.rev)) /\ \A i \in DOMAIN d.events : Fresh(d.events[i], d.rev)
    BY <1>1, <1>3 DEF ClientTrue
  <2> QED
    BY <1>0, <1>3, <2>1, ClientChange
<1>5. OwnerTrue(c) => OwnerTrue(d)
  BY <1>3 DEF OwnerTrue, OwnerRecovery, Reached
<1>6. Leads(c, d)
  BY <1>3, <1>4, <1>5 DEF Leads, Onward, Reached
<1> QED
  BY <1>3, <1>6 DEF d, bs

LEMMA OwnerIds ==
    ASSUME LogTrue, NEW c, ClientTrue(c), OwnerTrue(c), ~c.refreshing
    PROVE  EventIds(c) = 1..c.cursor
<1>0. c.events \in Seq(Rows) /\ Len(c.events) = c.cursor /\ DOMAIN c.events = 1..c.cursor
  BY DEF ClientTrue, Clients, OwnerTrue
<1>1. \A i \in DOMAIN c.events : c.events[i].seq = i
  BY DEF OwnerTrue
<1>2. EventIds(c) = {e.seq : e \in Range(c.events)}
  BY DEF EventIds
<1> QED
  BY <1>0, <1>1, <1>2 DEF Range

\* What a row of an older revision shows lies before a marker that the client knows.
LEMMA OlderReached ==
    ASSUME LogTrue, NEW c, ClientTrue(c), OwnerTrue(c), NEW e \in Rows, RowTrue(e), e.rev < c.rev
    PROVE  Reached(c, e.seq)
<1>0. c.rev \in 1..revision /\ e.rev \in Nat /\ e.seq \in Nat /\ c.cursor \in Nat
  BY LogIs DEF ClientTrue, Clients, Rows
<1>1. PICK m \in DOMAIN log : log[m].kind = "marker" /\ log[m].rev = c.rev
  BY <1>0 DEF LogTrue
<1>2. e.seq < m /\ m \in Nat
  BY <1>0, <1>1, LogIs DEF RowTrue, Precedes
<1>3. CASE c.refreshing
  BY <1>0, <1>1, <1>2, <1>3 DEF Reached
<1>4. CASE ~c.refreshing
  <2>1. m <= c.cursor
    BY <1>0, <1>1, <1>4 DEF OwnerTrue, Covers
  <2> QED
    BY <1>0, <1>2, <1>4, <2>1 DEF Reached
<1> QED
  BY <1>3, <1>4

\* One event of a socket (realtime.js #onSocketEvent).  An owner who has all before it
\* has it afterwards, or is refreshing beyond it.
LEMMA EventLeads ==
    ASSUME LogTrue, NEW c, ClientTrue(c), c.on, NEW e \in Rows, RowTrue(e)
    PROVE  /\ Leads(c, OnSocketEvent(c, e))
           /\ owner /\ OwnerTrue(c) /\ (\A n \in 1..(e.seq - 1) : Reached(c, n)) =>
                Reached(OnSocketEvent(c, e), e.seq)
<1> DEFINE seen == IF c.refreshing THEN [c EXCEPT !.head = Larger(@, e.seq)] ELSE c
           held == [c EXCEPT !.buffer = {b \in @ : b.seq # e.seq} \cup {e}]
           newer == e.rev > c.rev \/ (e.rev = c.rev /\ e.kind = "marker" /\ e.seq \notin EventIds(c))
           d == OnSocketEvent(c, e)
           inOrder == \A n \in 1..(e.seq - 1) : Reached(c, n)
<1>0. /\ c.rev \in Nat /\ e.rev \in Nat /\ e.rev \in 0..revision /\ e.seq \in Nat /\ e.seq \in 0..Len(log)
      /\ c.cursor \in Nat /\ e.seq \in DOMAIN log /\ c.refreshing \in BOOLEAN /\ Fresh(e, e.rev)
      /\ e.seq >= 1
  BY LogIs DEF ClientTrue, Clients, Rows, RowTrue, Fresh
<1>1. Leads(c, c)
  BY DEF Leads, Onward
<1>2. /\ Leads(c, seen) /\ seen.rev = c.rev /\ seen.refreshing = c.refreshing
      /\ c.refreshing => Reached(seen, e.seq)
      /\ ~c.refreshing => seen = c
  BY <1>0, <1>1, HeadLeads
<1> DEFINE inv == Invalidate(seen, e.rev, e.seq, "none")
           applied == DrainBuffer(Apply(c, e))
           asked == StartRecover(held, "recovering", "none")
<1>3. CASE e.rev < c.rev
  <2>1. d = c
    BY <1>0, <1>3 DEF OnSocketEvent
  <2>2. OwnerTrue(c) => Reached(c, e.seq)
    BY <1>3, OlderReached
  <2> QED
    BY <1>1, <2>1, <2>2
<1>4. CASE newer
  <2>1. d = inv
    BY <1>0, <1>4 DEF OnSocketEvent
  <2>2. ClientTrue(seen) /\ seen.on
    BY <1>2 DEF Leads
  <2> HIDE DEF seen, d
  <2>3. /\ Leads(seen, inv)
        /\ \/ inv = seen /\ (e.rev < c.rev \/ (e.rev = c.rev /\ (c.refreshing \/ e.seq \in EventIds(seen))))
           \/ inv.refreshing /\ e.seq <= inv.head
    BY <1>0, <1>2, <2>2, InvalidateLeads DEF Thens
  <2> HIDE DEF inv
  <2>4. Leads(c, d)
    BY <1>2, <2>1, <2>3, LeadsOn
  <2>5. Reached(inv, e.seq)
    <3>1. CASE inv.refreshing /\ e.seq <= inv.head
      BY <3>1 DEF Reached
    <3>2. CASE inv = seen /\ c.refreshing
      BY <1>2, <3>2
    <3>3. CASE inv = seen /\ ~c.refreshing /\ e.rev < c.rev
      BY <1>0, <1>4, <3>3
    <3>4. CASE inv = seen /\ ~c.refreshing /\ e.rev = c.rev /\ e.seq \in EventIds(seen)
      BY <1>0, <1>2, <1>4, <3>4
    <3> QED
      BY <2>3, <3>1, <3>2, <3>3, <3>4
  <2> QED
    BY <2>1, <2>4, <2>5 DEF d
<1>5. CASE e.rev = c.rev /\ ~newer /\ c.refreshing
  <2>1. d = seen
    BY <1>0, <1>5 DEF OnSocketEvent
  <2> QED
    BY <1>2, <1>5, <2>1
<1>6. CASE e.rev = c.rev /\ ~newer /\ ~c.refreshing /\ (e.seq <= c.cursor \/ e.seq \in EventIds(c))
  <2>1. d = c
    BY <1>0, <1>6 DEF OnSocketEvent
  <2>2. OwnerTrue(c) => Reached(c, e.seq)
    BY <1>0, <1>6, OwnerIds DEF Reached
  <2> QED
    BY <1>1, <2>1, <2>2
<1>7. CASE e.rev = c.rev /\ ~newer /\ ~c.refreshing /\ e.seq = c.cursor + 1 /\ e.seq \notin EventIds(c)
  <2>1. d = applied
    BY <1>0, <1>7 DEF OnSocketEvent
  <2> DEFINE a == Apply(c, e)
  <2>2. Leads(c, a) /\ ~a.refreshing /\ a.cursor = e.seq
    BY <1>0, <1>7, ApplyLeads
  <2>3. ClientTrue(a) /\ a.on
    BY <2>2 DEF Leads
  <2> HIDE DEF a
  <2>4. Leads(a, DrainBuffer(a)) /\ ~DrainBuffer(a).refreshing /\ a.cursor <= DrainBuffer(a).cursor
    BY <2>2, <2>3, DrainLeads
  <2>5. Leads(c, applied)
    BY <2>2, <2>4, LeadsOn DEF a
  <2>6. Reached(applied, e.seq)
    BY <2>2, <2>4 DEF Reached, a
  <2> QED
    BY <2>1, <2>5, <2>6
<1>8. CASE e.rev = c.rev /\ ~newer /\ ~c.refreshing /\ e.seq > c.cursor + 1 /\ e.seq \notin EventIds(c)
  <2>1. d = IF c.phase = "recovering" THEN held ELSE asked
    BY <1>0, <1>8 DEF OnSocketEvent
  <2>2. Leads(c, held) /\ ~held.refreshing
    BY <1>0, <1>8, HeldLeads
  <2>3. ClientTrue(held) /\ held.on
    BY <2>2 DEF Leads
  <2> HIDE DEF held
  <2>4. ClientTrue(asked) /\ asked.on /\ (OwnerTrue(held) => OwnerTrue(asked) /\ Onward(held, asked))
    BY <2>2, <2>3, StartTrue DEF Thens
  <2>5. Leads(held, asked)
    BY <2>4 DEF Leads
  <2>6. Leads(c, d)
    BY <2>1, <2>2, <2>5, LeadsOn
  <2>7. ~inOrder
    <3> SUFFICES ASSUME inOrder PROVE FALSE
      OBVIOUS
    <3>1. e.seq - 1 \in 1..(e.seq - 1)
      BY <1>0, <1>8
    <3>2. Reached(c, e.seq - 1)
      BY <3>1
    <3> QED
      BY <1>0, <1>8, <3>2 DEF Reached
  <2> QED
    BY <2>6, <2>7
<1>9. \/ e.rev < c.rev \/ newer
      \/ e.rev = c.rev /\ ~newer /\ c.refreshing
      \/ e.rev = c.rev /\ ~newer /\ ~c.refreshing /\ (e.seq <= c.cursor \/ e.seq \in EventIds(c))
      \/ e.rev = c.rev /\ ~newer /\ ~c.refreshing /\ e.seq = c.cursor + 1 /\ e.seq \notin EventIds(c)
      \/ e.rev = c.rev /\ ~newer /\ ~c.refreshing /\ e.seq > c.cursor + 1 /\ e.seq \notin EventIds(c)
  BY <1>0
<1> HIDE DEF d, newer, inv, seen, held, asked, applied
<1> QED
  BY <1>3, <1>4, <1>5, <1>6, <1>7, <1>8, <1>9 DEF d

\* A position of a socket (realtime.js #onSocketCursor) leads an owner on only when what it
\* passes is known already.
LEMMA CursorLeads ==
    ASSUME LogTrue, NEW c, ClientTrue(c), c.on, NEW position \in 0..Len(log)
    PROVE  /\ ClientTrue(OnSocketCursor(c, position)) /\ OnSocketCursor(c, position).on
           /\ Reached(c, position) => Leads(c, OnSocketCursor(c, position))
<1> DEFINE d == OnSocketCursor(c, position)
           moved == [c EXCEPT !.cursor = position]
<1>0. c \in Clients /\ c.cursor \in Nat /\ position \in Nat /\ position <= Len(log) /\ c.phase # "idle"
      /\ c.refreshing \in BOOLEAN
  BY LogIs DEF ClientTrue, Clients
<1>1. CASE position <= c.cursor
  <2>1. d = c
    BY <1>0, <1>1 DEF OnSocketCursor
  <2>2. Leads(c, c)
    BY DEF Leads, Onward
  <2> QED
    BY <2>1, <2>2
<1>2. CASE position > c.cursor /\ c.refreshing
  <2>1. d = [c EXCEPT !.head = Larger(@, position)]
    BY <1>0, <1>2 DEF OnSocketCursor
  <2>2. Leads(c, d)
    BY <1>2, <2>1, HeadLeads
  <2> QED
    BY <2>2 DEF Leads
<1>3. CASE position > c.cursor /\ ~c.refreshing
  <2>1. d = DrainBuffer(moved)
    BY <1>0, <1>3 DEF OnSocketCursor
  <2>2. /\ moved \in Clients /\ moved.on = c.on /\ moved.phase = c.phase /\ moved.cursor = position
        /\ moved.events = c.events /\ moved.rev = c.rev /\ moved.refreshing = c.refreshing
        /\ moved.head = c.head /\ moved.buffer = c.buffer /\ moved.recs = c.recs
        /\ moved.opening = c.opening
    BY <1>0 DEF Clients
  <2> HIDE DEF moved
  <2>3. ClientTrue(moved)
    <3>1. /\ moved.cursor <= Len(log) /\ moved.head <= Len(log) /\ Distinct(moved.buffer)
          /\ (\A b \in moved.buffer : Fresh(b, moved.rev)) /\ ~moved.refreshing
          /\ \A i \in DOMAIN moved.events : Fresh(moved.events[i], moved.rev)
      BY <1>0, <1>3, <2>2 DEF ClientTrue
    <3> QED
      BY <1>0, <2>2, <3>1, ClientChange
  <2>4. ~Reached(c, position)
    BY <1>0, <1>3 DEF Reached
  <2>5. ClientTrue(d) /\ d.on
    BY <1>3, <2>1, <2>2, <2>3, DrainLeads DEF Leads
  <2> QED
    BY <2>4, <2>5
<1> HIDE DEF d
<1> QED
  BY <1>0, <1>1, <1>2, <1>3 DEF d

\* f is what the client has become after each row.
Hears(f, c, q, k) == f = [i \in 0..k |-> IF i = 0 THEN c ELSE OnSocketEvent(f[i - 1], q[i])]

\* Rows heard one after the other: the recursive function exists.
LEMMA HeardIs ==
    ASSUME NEW c, NEW q, NEW k \in Nat
    PROVE  \E f : Hears(f, c, q, k)
<1> DEFINE G(n, f) == [i \in 0..n |-> IF i = 0 THEN c ELSE OnSocketEvent(f[i - 1], q[i])]
           Bad == {n \in Nat : n <= k /\ ~\E g : g = G(n, g)}
<1>1. Bad = {}
  <2> SUFFICES ASSUME Bad # {} PROVE FALSE
    OBVIOUS
  <2>1. PICK n \in Bad : \A m \in Bad : n <= m
    <3>1. Bad \in SUBSET Nat
      OBVIOUS
    <3> HIDE DEF Bad
    <3> QED
      BY <3>1, LeastNat
  <2>2. n \in Nat /\ n <= k /\ ~\E g : g = G(n, g)
    BY <2>1
  <2>3. CASE n = 0
    <3> DEFINE g == [i \in 0..0 |-> c]
    <3>1. g = G(0, g)
      OBVIOUS
    <3> QED
      BY <2>2, <2>3, <3>1
  <2>4. CASE n # 0
    <3>1. n - 1 \in Nat /\ n - 1 <= k /\ n - 1 \notin Bad
      BY <2>1, <2>2, <2>4
    <3>2. PICK g : g = G(n - 1, g)
      BY <3>1
    <3> DEFINE h == [i \in 0..n |-> IF i = n THEN OnSocketEvent(g[n - 1], q[n]) ELSE g[i]]
    <3>3. \A i \in 0..(n - 1) : g[i] = IF i = 0 THEN c ELSE OnSocketEvent(g[i - 1], q[i])
      BY <3>2
    <3>4. \A i \in 0..n : h[i] = IF i = 0 THEN c ELSE OnSocketEvent(h[i - 1], q[i])
      BY <2>2, <2>4, <3>3
    <3>5. h = G(n, h)
      <4>1. h = [i \in 0..n |-> h[i]]
        OBVIOUS
      <4> HIDE DEF h
      <4> QED
        BY <3>4, <4>1
    <3> QED
      BY <2>2, <3>5
  <2> QED
    BY <2>3, <2>4
<1>2. \E f : f = G(k, f)
  <2>1. k \notin Bad /\ k <= k
    BY <1>1
  <2> QED
    BY <2>1
<1> QED
  BY <1>2 DEF Hears

LEMMA ReachedBelow ==
    ASSUME LogTrue, NEW c \in Clients, NEW p \in Nat, NEW n \in Nat, n <= p, Reached(c, p)
    PROVE  Reached(c, n)
<1>1. c.head \in Nat /\ c.cursor \in Nat /\ \A m \in DOMAIN log : m \in Nat
  BY LogIs DEF Clients
<1> QED
  BY <1>1 DEF Reached

LEMMA ReachedNone == ASSUME NEW c \in Clients PROVE Reached(c, 0)
BY DEF Reached, Clients

\* What page carries, or the client has, is everything up to the page's cursor.
Carried(c, page) == \A n \in 1..page.cursor : n \in {e.seq : e \in page.events} \/ Reached(c, n)

LEMMA PageLeads ==
    ASSUME LogTrue, NEW c, ClientTrue(c), c.on, NEW page \in Pages, NEW a \in 0..Len(log), PageTrue(page, a)
    PROVE  /\ ClientTrue(OnSocketPage(c, page)) /\ OnSocketPage(c, page).on
           /\ owner /\ OwnerTrue(c) /\ Carried(c, page) =>
                /\ OwnerTrue(OnSocketPage(c, page)) /\ Onward(c, OnSocketPage(c, page))
                /\ \A n \in 1..page.cursor : Reached(OnSocketPage(c, page), n)
<1> DEFINE q == InOrder(page.events)
           k == Len(q)
           heard == CHOOSE f : Hears(f, c, q, k)
           d == OnSocketPage(c, page)
           owned == owner /\ OwnerTrue(c) /\ Carried(c, page)
           good(i) == /\ Leads(c, heard[i])
                      /\ owned => \A j \in 1..i : Reached(heard[i], q[j].seq)
<1>1. d = OnSocketCursor(heard[k], page.cursor)
  BY DEF OnSocketPage, Hears
<1>2. /\ Len(log) \in Nat /\ page.events \in SUBSET Rows /\ Distinct(page.events)
      /\ page.cursor \in 0..Len(log) /\ page.cursor \in Nat
      /\ \A e \in page.events : e.seq <= Len(log) /\ RowTrue(e)
  BY LogIs DEF Pages, PageTrue, RowTrue, Fresh
<1>3. /\ q \in Seq(page.events) /\ Rising(q) /\ \A e \in page.events : \E i \in DOMAIN q : q[i] = e
  BY <1>2, InOrderIs
<1> HIDE DEF q
<1>4. k \in Nat /\ DOMAIN q = 1..k /\ \A i \in 1..k : q[i] \in page.events
  BY <1>3
<1>5. heard[0] = c /\ \A i \in 1..k : heard[i] = OnSocketEvent(heard[i - 1], q[i])
  <2> HIDE DEF k
  <2>1. \E f : Hears(f, c, q, k)
    BY <1>4, HeardIs
  <2>2. Hears(heard, c, q, k)
    BY <2>1
  <2> HIDE DEF heard
  <2> QED
    BY <1>4, <2>2 DEF Hears
<1> HIDE DEF k, heard, d
<1>6. good(0)
  <2>1. Leads(c, c)
    BY DEF Leads, Onward
  <2> QED
    BY <1>5, <2>1
<1>7. ASSUME NEW i \in 1..k, good(i - 1) PROVE good(i)
  <2> DEFINE h == heard[i - 1]
             e == q[i]
  <2>1. heard[i] = OnSocketEvent(h, e)
    BY <1>5
  <2>2. Leads(c, h) /\ (owned => \A j \in 1..(i - 1) : Reached(h, q[j].seq))
    BY <1>7
  <2>3. e \in page.events /\ e \in Rows /\ RowTrue(e) /\ e.seq \in Nat /\ e.seq <= page.cursor
    BY <1>2, <1>4 DEF PageTrue, Rows
  <2> HIDE DEF h, e
  <2>4. ClientTrue(h) /\ h.on /\ h \in Clients
    BY <2>2 DEF Leads, ClientTrue
  <2>5. /\ Leads(h, OnSocketEvent(h, e))
        /\ owner /\ OwnerTrue(h) /\ (\A n \in 1..(e.seq - 1) : Reached(h, n)) =>
             Reached(OnSocketEvent(h, e), e.seq)
    BY <2>3, <2>4, EventLeads
  <2>6. Leads(c, heard[i])
    BY <2>1, <2>2, <2>5, LeadsOn
  <2>7. ASSUME owned, NEW j \in 1..i PROVE Reached(heard[i], q[j].seq)
    <3>1. OwnerTrue(h) /\ Onward(c, h) /\ Onward(h, heard[i])
      BY <2>1, <2>2, <2>5, <2>7 DEF Leads
    <3>2. CASE j = i
      <4>1. ASSUME NEW n \in 1..(e.seq - 1) PROVE Reached(h, n)
        <5>1. n \in 1..page.cursor /\ n \in Nat /\ n < e.seq
          BY <1>2, <2>3
        <5>2. CASE Reached(c, n)
          BY <3>1, <5>1, <5>2 DEF Onward
        <5>3. CASE n \in {b.seq : b \in page.events}
          <6>1. PICK b \in page.events : b.seq = n
            BY <5>3
          <6>2. PICK l \in 1..k : q[l] = b
            BY <1>3, <1>4
          <6>3. l < i
            <7>1. l # i
              BY <5>1, <6>1, <6>2 DEF e
            <7>2. ~(i < l)
              <8>1. i < l => q[i].seq < q[l].seq
                BY <1>3, <1>4 DEF Rising
              <8> QED
                BY <2>3, <5>1, <6>1, <6>2, <8>1 DEF e
            <7> QED
              BY <1>4, <7>1, <7>2
          <6>4. l \in 1..(i - 1)
            BY <1>4, <6>3
          <6> QED
            BY <2>2, <2>7, <6>1, <6>2, <6>4
        <5> QED
          BY <2>7, <5>1, <5>2, <5>3 DEF Carried
      <4>2. Reached(OnSocketEvent(h, e), e.seq)
        BY <2>5, <2>7, <3>1, <4>1
      <4> QED
        BY <2>1, <3>2, <4>2 DEF e
    <3>3. CASE j # i
      <4>1. j \in 1..(i - 1) /\ j \in 1..k
        BY <1>4, <3>3
      <4>2. Reached(h, q[j].seq)
        BY <2>2, <2>7, <4>1
      <4>3. q[j].seq \in Nat
        BY <1>2, <1>4, <4>1 DEF Rows
      <4> QED
        BY <3>1, <4>2, <4>3 DEF Onward
    <3> QED
      BY <3>2, <3>3
  <2> QED
    BY <2>6, <2>7
<1>8. good(k)
  <2> DEFINE Bad == {i \in Nat : i <= k /\ ~good(i)}
  <2> HIDE DEF good
  <2>1. Bad = {}
    <3> SUFFICES ASSUME Bad # {} PROVE FALSE
      OBVIOUS
    <3>1. PICK i \in Bad : \A j \in Bad : i <= j
      <4>1. Bad \in SUBSET Nat
        OBVIOUS
      <4> HIDE DEF Bad
      <4> QED
        BY <4>1, LeastNat
    <3>2. i \in Nat /\ i <= k /\ ~good(i)
      BY <3>1
    <3>3. i # 0
      BY <1>6, <3>2
    <3>4. i \in 1..k /\ i - 1 \in Nat /\ i - 1 <= k /\ i - 1 \notin Bad
      BY <1>4, <3>1, <3>2, <3>3
    <3>5. good(i - 1)
      BY <3>4
    <3> QED
      BY <1>7, <3>2, <3>4, <3>5
  <2> QED
    BY <1>4, <2>1
<1> DEFINE h == heard[k]
<1>9. ClientTrue(h) /\ h.on /\ h \in Clients
  BY <1>8 DEF Leads, ClientTrue
<1>10. Leads(c, h) /\ (owned => \A j \in 1..k : Reached(h, q[j].seq))
  BY <1>8
<1> HIDE DEF h, good
<1>11. ClientTrue(d) /\ d.on /\ (Reached(h, page.cursor) => Leads(h, d))
  BY <1>1, <1>2, <1>9, CursorLeads DEF h
<1>12. ASSUME owned
       PROVE  OwnerTrue(d) /\ Onward(c, d) /\ \A n \in 1..page.cursor : Reached(d, n)
  <2>1. OwnerTrue(h) /\ Onward(c, h)
    BY <1>10, <1>12 DEF Leads
  <2>2. Reached(h, page.cursor)
    <3>1. CASE page.cursor = 0
      BY <1>9, <3>1, ReachedNone
    <3>2. CASE page.cursor # 0
      <4>1. page.cursor \in 1..page.cursor
        BY <1>2, <3>2
      <4>2. CASE Reached(c, page.cursor)
        BY <1>2, <2>1, <4>2 DEF Onward
      <4>3. CASE page.cursor \in {b.seq : b \in page.events}
        <5>1. PICK b \in page.events : b.seq = page.cursor
          BY <4>3
        <5>2. PICK l \in 1..k : q[l] = b
          BY <1>3, <1>4
        <5> QED
          BY <1>10, <1>12, <5>1, <5>2
      <4> QED
        BY <1>12, <4>1, <4>2, <4>3 DEF Carried
    <3> QED
      BY <3>1, <3>2
  <2>3. OwnerTrue(d) /\ Onward(h, d)
    BY <1>11, <1>12, <2>1, <2>2 DEF Leads
  <2>4. Onward(c, d) /\ Reached(d, page.cursor)
    BY <1>2, <2>1, <2>2, <2>3 DEF Onward
  <2>5. d \in Clients
    BY <1>11 DEF ClientTrue
  <2>6. \A n \in 1..page.cursor : Reached(d, n)
    BY <1>2, <2>4, <2>5, ReachedBelow
  <2> QED
    BY <2>3, <2>4, <2>6
<1> QED
  BY <1>11, <1>12 DEF d

\* An owner's client has what a message of the wire continues.
InTurn(c, m) ==
  /\ m.type # "cursor"
  /\ m.type \in {"replay", "subscribed"} => \A n \in 1..Reaches(m) : n \in Carries(m) \/ Reached(c, n)

\* Any message of a socket, in its turn.
LEMMA MessageLeads ==
    ASSUME LogTrue, NEW c, ClientTrue(c), c.on, NEW m \in Messages, MessageTrue(m)
    PROVE  /\ ClientTrue(OnMessage(c, m)) /\ OnMessage(c, m).on
           /\ owner /\ OwnerTrue(c) /\ InTurn(c, m) =>
                /\ OwnerTrue(OnMessage(c, m)) /\ Onward(c, OnMessage(c, m))
                /\ m.type = "replay" => \A n \in 1..m.page.cursor : Reached(OnMessage(c, m), n)
<1> DEFINE d == OnMessage(c, m)
<1>0. m.type \in {"event", "cursor", "replay", "subscribed", "error", "close"} /\ c \in Clients
      /\ Len(log) \in Nat
  BY LogIs DEF Messages, ClientTrue
<1>1. CASE m.type = "event"
  <2>1. m.event \in Rows /\ RowTrue(m.event)
    BY <1>1 DEF Messages, MessageTrue
  <2>2. d = OnSocketEvent(c, m.event)
    BY <1>1 DEF OnMessage
  <2>3. Leads(c, d)
    BY <2>1, <2>2, EventLeads
  <2> QED
    BY <1>1, <2>3 DEF Leads
<1>2. CASE m.type = "cursor"
  <2>1. m.cursor \in 0..Len(log)
    BY <1>0, <1>2 DEF Messages, MessageTrue
  <2>2. d = OnSocketCursor(c, m.cursor)
    BY <1>2 DEF OnMessage
  <2>3. ClientTrue(d) /\ d.on
    BY <2>1, <2>2, CursorLeads
  <2>4. ~InTurn(c, m)
    BY <1>2 DEF InTurn
  <2> QED
    BY <2>3, <2>4
<1>3. CASE m.type = "replay"
  <2>1. m.page \in Pages /\ \E a \in 0..Len(log) : PageTrue(m.page, a)
    BY <1>3 DEF Messages, MessageTrue
  <2>2. d = OnSocketPage(c, m.page)
    BY <1>3 DEF OnMessage
  <2>3. InTurn(c, m) => Carried(c, m.page)
    BY <1>3 DEF InTurn, Carried, Reaches, Carries
  <2> HIDE DEF d
  <2> QED
    BY <2>1, <2>2, <2>3, PageLeads DEF d
<1>4. CASE m.type = "subscribed"
  <2> DEFINE b == OnSocketCursor(c, m.cursor)
  <2>1. m.cursor \in 0..Len(log) /\ m.cursor \in Nat
    BY <1>0, <1>4 DEF Messages, MessageTrue
  <2>2. d = OnLive(b)
    BY <1>4 DEF OnMessage
  <2>3. ClientTrue(b) /\ b.on /\ (Reached(c, m.cursor) => Leads(c, b))
    BY <2>1, CursorLeads
  <2>4. InTurn(c, m) => Reached(c, m.cursor)
    <3>1. CASE m.cursor = 0
      BY <1>0, <3>1, ReachedNone
    <3>2. CASE m.cursor # 0
      <4>1. m.cursor \in 1..m.cursor
        BY <2>1, <3>2
      <4>2. Reaches(m) = m.cursor /\ Carries(m) = {}
        BY <1>4 DEF Reaches, Carries
      <4> QED
        BY <1>4, <4>1, <4>2 DEF InTurn
    <3> QED
      BY <3>1, <3>2
  <2> HIDE DEF b, d
  <2>5. Leads(b, d)
    <3>1. b \in Clients /\ b.phase # "idle"
      BY <2>3 DEF ClientTrue
    <3>2. CASE b.phase = "recovering"
      BY <2>2, <2>3, <3>2 DEF OnLive, Leads, Onward
    <3>3. CASE b.phase # "recovering"
      <4>1. d = [b EXCEPT !.phase = "live"]
        BY <2>2, <3>3 DEF OnLive
      <4>2. /\ d \in Clients /\ d.on = b.on /\ d.phase = "live" /\ d.cursor = b.cursor
            /\ d.events = b.events /\ d.rev = b.rev /\ d.refreshing = b.refreshing /\ d.head = b.head
            /\ d.buffer = b.buffer /\ d.recs = b.recs /\ d.opening = b.opening
        BY <3>1, <4>1 DEF Clients, Phases
      <4> QED
        BY <2>3, <4>2, SameLeads
    <3> QED
      BY <3>2, <3>3
  <2>6. InTurn(c, m) => Leads(c, d)
    BY <2>3, <2>4, <2>5, LeadsOn
  <2> QED
    BY <1>4, <2>5, <2>6 DEF Leads, d
<1>5. CASE m.type = "error"
  <2>1. d = c
    BY <1>5 DEF OnMessage
  <2> QED
    BY <1>5, <2>1 DEF Onward
<1>6. CASE m.type = "close"
  <2>1. d = [c EXCEPT !.phase = "offline", !.timer = TRUE]
    BY <1>6 DEF OnMessage, OnOffline
  <2>2. /\ d \in Clients /\ d.on = c.on /\ d.phase = "offline" /\ d.cursor = c.cursor
        /\ d.events = c.events /\ d.rev = c.rev /\ d.refreshing = c.refreshing /\ d.head = c.head
        /\ d.buffer = c.buffer /\ d.recs = c.recs /\ d.opening = c.opening
    BY <1>0, <2>1 DEF Clients, Phases
  <2>3. Leads(c, d)
    BY <2>2, SameLeads
  <2> QED
    BY <1>6, <2>3 DEF Leads
<1> HIDE DEF d
<1> QED
  BY <1>0, <1>1, <1>2, <1>3, <1>4, <1>5, <1>6 DEF d

-----------------------------------------------------------------------------
(* A page of the history arrives.                                          *)

Past(i, j) == IF j < i THEN j ELSE j + 1

LEMMA RemoveAtIs ==
    ASSUME NEW S, NEW s \in Seq(S), NEW i \in DOMAIN s
    PROVE  /\ RemoveAt(s, i) \in Seq(S) /\ Len(RemoveAt(s, i)) = Len(s) - 1
           /\ \A j \in DOMAIN RemoveAt(s, i) :
                /\ Past(i, j) \in DOMAIN s /\ Past(i, j) # i
                /\ RemoveAt(s, i)[j] = s[Past(i, j)]
<1> DEFINE a == SubSeq(s, 1, i - 1)
           b == SubSeq(s, i + 1, Len(s))
<1>1. i \in 1..Len(s) /\ Len(s) \in Nat /\ i \in Nat
  OBVIOUS
<1>2. a \in Seq(S) /\ Len(a) = i - 1 /\ \A j \in 1..(i - 1) : a[j] = s[j]
  BY <1>1
<1>3. b \in Seq(S) /\ Len(b) = Len(s) - i /\ \A j \in 1..(Len(s) - i) : b[j] = s[i + j]
  BY <1>1
<1>4. RemoveAt(s, i) = a \o b
  BY DEF RemoveAt
<1> HIDE DEF a, b
<1>5. /\ a \o b \in Seq(S) /\ Len(a \o b) = Len(s) - 1 /\ DOMAIN (a \o b) = 1..(Len(s) - 1)
  BY <1>1, <1>2, <1>3
<1>6. ASSUME NEW j \in 1..(Len(s) - 1)
      PROVE  Past(i, j) \in DOMAIN s /\ Past(i, j) # i /\ (a \o b)[j] = s[Past(i, j)]
  <2>1. CASE j < i
    <3>1. j \in 1..(i - 1) /\ j \in 1..Len(a)
      BY <1>1, <1>2, <2>1
    <3>2. (a \o b)[j] = a[j]
      BY <1>2, <1>3, <3>1
    <3> QED
      BY <1>1, <1>2, <2>1, <3>1, <3>2 DEF Past
  <2>2. CASE ~(j < i)
    <3>0. Len(a) = i - 1 /\ Len(b) = Len(s) - i /\ j \in Nat /\ j >= i /\ j <= Len(s) - 1
      BY <1>1, <1>2, <1>3, <2>2
    <3>1. j - Len(a) \in 1..(Len(s) - i) /\ j \in 1..(Len(a) + Len(b)) /\ ~(j <= Len(a))
      BY <1>1, <3>0
    <3>2. (a \o b)[j] = b[j - Len(a)]
      BY <1>2, <1>3, <3>1, ConcatProperties
    <3>3. i + (j - Len(a)) = j + 1 /\ j + 1 \in 1..Len(s) /\ Past(i, j) = j + 1 /\ j + 1 # i
      BY <1>1, <1>2, <2>2 DEF Past
    <3>4. b[j - Len(a)] = s[j + 1]
      BY <1>3, <3>1, <3>3
    <3> QED
      BY <1>1, <3>2, <3>3, <3>4
  <2> QED
    BY <2>1, <2>2
<1> QED
  BY <1>4, <1>5, <1>6

\* What an owner's client may rely on when recovery r goes on.
OwnerMay(c, r) ==
  /\ OwnerTrue(c) /\ OwnerRecovery(c, r)
  /\ r.replacing /\ ~r.stale => \A i \in DOMAIN c.recs : c.recs[i].stale

\* Recovery i leaves the list while it is looked at.
LEMMA RemoveTrue ==
    ASSUME LogTrue, NEW c, ClientTrue(c), c.on, NEW i \in DOMAIN c.recs
    PROVE  LET d == [c EXCEPT !.recs = RemoveAt(@, i)]
           IN  /\ ClientTrue(d) /\ d.on /\ d.rev = c.rev /\ c.recs[i] \in Recs /\ RecoveryTrue(d, c.recs[i])
               /\ OwnerTrue(c) => OwnerMay(d, c.recs[i]) /\ Onward(c, d)
<1> DEFINE rs == RemoveAt(c.recs, i)
           d == [c EXCEPT !.recs = rs]
<1>0. c \in Clients /\ c.recs \in Seq(Recs) /\ c.phase # "idle" /\ c.recs[i] \in Recs
  BY DEF ClientTrue, Clients
<1>1. /\ rs \in Seq(Recs)
      /\ \A j \in DOMAIN rs : Past(i, j) \in DOMAIN c.recs /\ Past(i, j) # i /\ rs[j] = c.recs[Past(i, j)]
  BY <1>0, RemoveAtIs
<1>2. \A j, k \in DOMAIN rs : j # k => Past(i, j) # Past(i, k)
  <2>1. DOMAIN rs \subseteq Nat /\ DOMAIN c.recs \subseteq Nat
    BY <1>0, <1>1
  <2>2. i \in Nat
    BY <2>1
  <2> HIDE DEF rs
  <2> QED
    BY <2>1, <2>2 DEF Past
<1> HIDE DEF rs
<1>3. /\ d \in Clients /\ d.on = c.on /\ d.phase = c.phase /\ d.cursor = c.cursor /\ d.events = c.events
      /\ d.rev = c.rev /\ d.refreshing = c.refreshing /\ d.head = c.head /\ d.buffer = c.buffer
      /\ d.recs = rs /\ d.opening = c.opening
  BY <1>0, <1>1 DEF Clients
<1> HIDE DEF d
<1>4. \A j \in DOMAIN c.recs : RecoveryTrue(d, c.recs[j])
  BY <1>3 DEF ClientTrue, RecoveryTrue
<1>5. \A j \in DOMAIN d.recs : RecoveryTrue(d, d.recs[j])
  BY <1>1, <1>3, <1>4
<1>6. ClientTrue(d)
  BY <1>3, <1>5 DEF ClientTrue
<1>7. Onward(c, d)
  BY <1>3 DEF Onward, Reached
<1>8. ASSUME OwnerTrue(c) PROVE OwnerMay(d, c.recs[i])
  <2>1. \A j \in DOMAIN c.recs : OwnerRecovery(d, c.recs[j])
    BY <1>3, <1>8 DEF OwnerTrue, OwnerRecovery
  <2>2. \A j, k \in DOMAIN c.recs : j # k /\ c.recs[j].replacing /\ ~c.recs[j].stale => c.recs[k].stale
    BY <1>8 DEF OwnerTrue
  <2>3. \A j, k \in DOMAIN rs : j # k /\ rs[j].replacing /\ ~rs[j].stale => rs[k].stale
    BY <1>1, <1>2, <2>2
  <2>4. c.recs[i].replacing /\ ~c.recs[i].stale => \A j \in DOMAIN rs : rs[j].stale
    BY <1>1, <2>2
  <2>5. \A j \in DOMAIN d.recs : OwnerRecovery(d, d.recs[j])
    BY <1>1, <1>3, <2>1
  <2>6. \A j \in DOMAIN d.opening : Reached(d, d.opening[j])
    BY <1>3, <1>8 DEF OwnerTrue, Reached
  <2>7. OwnerTrue(d)
    BY <1>3, <1>8, <2>3, <2>5, <2>6 DEF OwnerTrue
  <2> QED
    BY <1>3, <2>1, <2>4, <2>7 DEF OwnerMay
<1> QED
  BY <1>0, <1>3, <1>4, <1>6, <1>7, <1>8 DEF d, rs

\* A recovery joins the list, to ask for the next page.
LEMMA AgainLeads ==
    ASSUME LogTrue, NEW c, ClientTrue(c), c.on, NEW r \in Recs, RecoveryTrue(c, r), ~r.stale
    PROVE  LET d == [c EXCEPT !.recs = Append(@, r)]
           IN  ClientTrue(d) /\ d.on /\ (OwnerMay(c, r) => OwnerTrue(d) /\ Onward(c, d))
<1> DEFINE rs == Append(c.recs, r)
           d == [c EXCEPT !.recs = rs]
<1>0. c \in Clients /\ c.recs \in Seq(Recs) /\ c.phase # "idle"
  BY DEF ClientTrue, Clients
<1>1. /\ rs \in Seq(Recs) /\ DOMAIN rs = 1..(Len(c.recs) + 1) /\ DOMAIN c.recs = 1..Len(c.recs)
      /\ Len(c.recs) \in Nat /\ rs[Len(c.recs) + 1] = r
      /\ \A i \in DOMAIN c.recs : i \in DOMAIN rs /\ rs[i] = c.recs[i]
  BY <1>0
<1>2. ASSUME NEW i \in DOMAIN rs
      PROVE  (i \in DOMAIN c.recs /\ rs[i] = c.recs[i]) \/ (i = Len(c.recs) + 1 /\ rs[i] = r)
  BY <1>1
<1> HIDE DEF rs
<1>3. /\ d \in Clients /\ d.on = c.on /\ d.phase = c.phase /\ d.cursor = c.cursor /\ d.events = c.events
      /\ d.rev = c.rev /\ d.refreshing = c.refreshing /\ d.head = c.head /\ d.buffer = c.buffer
      /\ d.recs = rs /\ d.opening = c.opening
  BY <1>0, <1>1 DEF Clients
<1> HIDE DEF d
<1>4. ASSUME NEW i \in DOMAIN d.recs PROVE RecoveryTrue(d, d.recs[i])
  <2>1. RecoveryTrue(d, r) /\ \A j \in DOMAIN c.recs : RecoveryTrue(d, c.recs[j])
    BY <1>3 DEF ClientTrue, RecoveryTrue
  <2> QED
    BY <1>2, <1>3, <2>1
<1>5. ClientTrue(d)
  BY <1>3, <1>4 DEF ClientTrue
<1>6. Onward(c, d)
  BY <1>3 DEF Onward, Reached
<1>7. ASSUME OwnerMay(c, r) PROVE OwnerTrue(d)
  <2>0. OwnerTrue(c) /\ OwnerRecovery(c, r) /\ (r.replacing => \A i \in DOMAIN c.recs : c.recs[i].stale)
    BY <1>7 DEF OwnerMay
  <2>1. OwnerRecovery(d, r) /\ \A j \in DOMAIN c.recs : OwnerRecovery(d, c.recs[j])
    BY <1>3, <2>0 DEF OwnerTrue, OwnerRecovery
  <2>2. \A i \in DOMAIN d.recs : OwnerRecovery(d, d.recs[i])
    BY <1>2, <1>3, <2>1
  <2>3. ASSUME NEW i \in DOMAIN c.recs, c.recs[i].replacing, ~c.recs[i].stale PROVE FALSE
    <3>1. c.refreshing
      BY <2>0, <2>3 DEF OwnerTrue, OwnerRecovery
    <3>2. r.replacing
      BY <3>1 DEF RecoveryTrue
    <3> QED
      BY <2>0, <2>3, <3>2
  <2>4. ASSUME NEW i \in DOMAIN rs, NEW j \in DOMAIN rs, i # j, rs[i].replacing, ~rs[i].stale
        PROVE  rs[j].stale
    <3>1. rs[i] = r /\ i = Len(c.recs) + 1
      BY <1>2, <2>3, <2>4
    <3>2. j \in DOMAIN c.recs /\ rs[j] = c.recs[j]
      BY <1>2, <2>4, <3>1
    <3> QED
      BY <2>0, <2>4, <3>1, <3>2
  <2>5. \A i \in DOMAIN d.opening : Reached(d, d.opening[i])
    BY <1>3, <2>0 DEF OwnerTrue, Reached
  <2> QED
    BY <1>3, <2>0, <2>2, <2>4, <2>5 DEF OwnerTrue
<1> QED
  BY <1>3, <1>5, <1>6, <1>7 DEF d, rs

LEMMA BlockedLeads ==
    ASSUME LogTrue, NEW c, ClientTrue(c), c.on, NEW then \in Thens
    PROVE  Leads(c, RecoverThrows(c, then))
<1> DEFINE b == [c EXCEPT !.phase = "blocked"]
<1>0. c \in Clients
  BY DEF ClientTrue
<1>1. /\ b \in Clients /\ b.on = c.on /\ b.phase = "blocked" /\ b.cursor = c.cursor
      /\ b.events = c.events /\ b.rev = c.rev /\ b.refreshing = c.refreshing /\ b.head = c.head
      /\ b.buffer = c.buffer /\ b.recs = c.recs /\ b.opening = c.opening
  BY <1>0 DEF Clients, Phases
<1> HIDE DEF b
<1>2. Leads(c, b)
  BY <1>1, SameLeads
<1>3. ClientTrue(b) /\ b.on
  BY <1>2 DEF Leads
<1>4. Leads(b, ContinueWith(b, then))
  BY <1>3, ContinueLeads
<1>5. Leads(c, ContinueWith(b, then))
  BY <1>2, <1>4, LeadsOn
<1> QED
  BY <1>2, <1>5 DEF RecoverThrows, b

\* The rows of a page that are not known yet, stamped with the page's revision.
Stamped(page, before, ids) ==
  {[e EXCEPT !.rev = page.rev] : e \in {e \in page.events : e.seq > before /\ e.seq \notin ids}}

\* The rows a recovery takes from a page.
LEMMA StampedIs ==
    ASSUME LogTrue, NEW page \in Pages, NEW before \in Nat, PageTrue(page, before), NEW ids
    PROVE  LET rows == Stamped(page, before, ids)
           IN  /\ rows \in SUBSET Rows /\ Distinct(rows)
               /\ \A e \in rows : /\ Fresh(e, page.rev) /\ e.seq \notin ids
                                  /\ before < e.seq /\ e.seq <= page.cursor
               /\ \A n \in (before + 1)..page.cursor :
                    log[n].readable /\ n \notin ids => \E e \in rows : e.seq = n
<1> DEFINE rows == Stamped(page, before, ids)
           plain == {e \in page.events : e.seq > before /\ e.seq \notin ids}
           stamp(e) == [e EXCEPT !.rev = page.rev]
<1>0. /\ page.rev \in Nat /\ page.events \in SUBSET Rows /\ Distinct(page.events)
      /\ page.cursor \in Nat /\ \A e \in page.events : e.seq \in (before + 1)..page.cursor /\ Fresh(e, page.rev)
      /\ \A n \in (before + 1)..page.cursor : log[n].readable => \E e \in page.events : e.seq = n
  BY LogIs DEF PageTrue, Pages
<1>1. rows = {stamp(e) : e \in plain}
  BY DEF Stamped
<1>2. ASSUME NEW e \in plain
      PROVE  /\ stamp(e) \in Rows /\ stamp(e).seq = e.seq /\ Fresh(stamp(e), page.rev)
             /\ before < e.seq /\ e.seq <= page.cursor /\ e.seq \notin ids /\ e \in page.events
  <2>1. e \in Rows /\ e.seq \in (before + 1)..page.cursor /\ e.seq \notin ids /\ e \in page.events
        /\ Fresh(e, page.rev)
    BY <1>0
  <2>2. stamp(e) \in Rows /\ stamp(e).seq = e.seq /\ stamp(e).body = e.body
    BY <1>0, <2>1 DEF Rows
  <2>3. Fresh(stamp(e), page.rev)
    BY <2>1, <2>2 DEF Fresh
  <2> QED
    BY <1>0, <2>1, <2>2, <2>3
<1>3. ASSUME NEW n \in (before + 1)..page.cursor, log[n].readable, n \notin ids PROVE \E e \in plain : e.seq = n
  BY <1>0, <1>3
<1> HIDE DEF plain, stamp, rows
<1>4. ASSUME NEW x \in rows, NEW y \in rows, x.seq = y.seq PROVE x = y
  <2>1. PICK d \in plain : x = stamp(d)
    BY <1>1
  <2>2. PICK e \in plain : y = stamp(e)
    BY <1>1
  <2>3. d = e
    BY <1>0, <1>2, <1>4, <2>1, <2>2 DEF Distinct
  <2> QED
    BY <2>1, <2>2, <2>3
<1>5. rows \in SUBSET Rows /\ \A e \in rows : /\ Fresh(e, page.rev) /\ e.seq \notin ids
                                              /\ before < e.seq /\ e.seq <= page.cursor
  BY <1>1, <1>2
<1>6. \A n \in (before + 1)..page.cursor : log[n].readable /\ n \notin ids => \E e \in rows : e.seq = n
  BY <1>1, <1>2, <1>3
<1> QED
  BY <1>4, <1>5, <1>6 DEF Distinct, rows

\* A page that a gap or a connection asked for is applied where the timeline ends.
LEMMA FilledLeads ==
    ASSUME LogTrue, NEW c, ClientTrue(c), c.on, ~c.refreshing, NEW page \in Pages, NEW before \in Nat,
           PageTrue(page, before), page.rev = c.rev
    PROVE  LET d == [ApplyAll(c, Stamped(page, before, EventIds(c))) EXCEPT !.cursor = Larger(@, page.cursor)]
           IN  /\ ClientTrue(d) /\ Alike(c, d) /\ d.head = c.head
               /\ owner /\ OwnerTrue(c) /\ before <= c.cursor => OwnerTrue(d) /\ Onward(c, d)
<1> DEFINE rows == Stamped(page, before, EventIds(c))
           a == ApplyAll(c, rows)
           n == Larger(a.cursor, page.cursor)
           d == [a EXCEPT !.cursor = n]
<1>0. c.cursor \in Nat /\ page.cursor \in Nat /\ page.cursor <= Len(log) /\ Len(log) \in Nat
      /\ before <= page.cursor /\ DOMAIN log = 1..Len(log)
  BY LogIs DEF ClientTrue, Clients, PageTrue
<1>1. /\ rows \in SUBSET Rows /\ Distinct(rows)
      /\ \A e \in rows : /\ Fresh(e, c.rev) /\ e.seq \notin EventIds(c)
                         /\ before < e.seq /\ e.seq <= page.cursor
      /\ \A m \in (before + 1)..page.cursor :
           log[m].readable /\ m \notin EventIds(c) => \E e \in rows : e.seq = m
  BY StampedIs
<1> HIDE DEF rows
<1>2. ClientTrue(a) /\ Alike(c, a) /\ a.head = c.head /\ a.buffer = c.buffer
  BY <1>1, ApplyAllTrue
<1> HIDE DEF a
<1>3. a \in Clients /\ a.cursor \in Nat /\ a.cursor <= Len(log) /\ a.on /\ a.phase # "idle"
      /\ a.refreshing = c.refreshing
  BY <1>2 DEF ClientTrue, Clients, Alike
<1>4. n \in Nat /\ n <= Len(log) /\ a.cursor <= n /\ page.cursor <= n /\ (n = a.cursor \/ n = page.cursor)
  BY <1>0, <1>3 DEF Larger
<1> HIDE DEF n
<1>5. /\ d \in Clients /\ d.on = a.on /\ d.phase = a.phase /\ d.cursor = n /\ d.events = a.events
      /\ d.rev = a.rev /\ d.refreshing = a.refreshing /\ d.head = a.head /\ d.buffer = a.buffer
      /\ d.recs = a.recs /\ d.opening = a.opening
  BY <1>3, <1>4 DEF Clients
<1> HIDE DEF d
<1>6. ClientTrue(d)
  <2>1. /\ d.cursor <= Len(log) /\ d.head <= Len(log) /\ Distinct(d.buffer) /\ ~d.refreshing
        /\ (\A b \in d.buffer : Fresh(b, d.rev)) /\ \A i \in DOMAIN d.events : Fresh(d.events[i], d.rev)
    BY <1>2, <1>3, <1>4, <1>5 DEF ClientTrue
  <2> QED
    BY <1>2, <1>3, <1>5, <2>1, ClientChange
<1>7. ASSUME owner, OwnerTrue(c), before <= c.cursor PROVE OwnerTrue(d) /\ Onward(c, d)
  <2>1. EventIds(c) = 1..c.cursor
    BY <1>7, OwnerIds
  <2>2. \A m \in DOMAIN log : log[m].readable
    BY <1>7 DEF LogTrue
  <2>3. ASSUME NEW m \in Nat, c.cursor < m, m <= page.cursor PROVE \E e \in rows : e.seq = m
    <3>1. m \in (before + 1)..page.cursor /\ m \in DOMAIN log /\ m \notin 1..c.cursor
      BY <1>0, <1>7, <2>3
    <3> QED
      BY <1>1, <2>1, <2>2, <3>1
  <2>4. ASSUME NEW e \in rows PROVE e.seq > c.cursor /\ e.seq \in Nat /\ e.seq <= page.cursor
    <3>1. e.seq \in Nat /\ e.seq \notin 1..c.cursor /\ before < e.seq /\ e.seq <= page.cursor
      BY <1>1, <2>1 DEF Rows
    <3> QED
      BY <1>0, <3>1
  <2>5. \A e \in rows : \A m \in (c.cursor + 1)..e.seq : \E b \in rows : b.seq = m
    <3> SUFFICES ASSUME NEW e \in rows, NEW m \in (c.cursor + 1)..e.seq PROVE \E b \in rows : b.seq = m
      OBVIOUS
    <3>1. m \in Nat /\ c.cursor < m /\ m <= page.cursor
      BY <1>0, <2>4
    <3> QED
      BY <2>3, <3>1
  <2>6. \A e \in rows : Fresh(e, c.rev) /\ e.seq > c.cursor
    BY <1>1, <2>4
  <2>7. OwnerTrue(a) /\ a.cursor >= c.cursor /\ \A e \in rows : e.seq <= a.cursor
    BY <1>1, <1>7, <2>5, <2>6, OwnerApplies DEF a
  <2>8. page.cursor <= a.cursor
    <3>1. CASE page.cursor <= c.cursor
      BY <1>0, <1>3, <2>7, <3>1
    <3>2. CASE page.cursor > c.cursor
      <4>1. PICK e \in rows : e.seq = page.cursor
        BY <1>0, <2>3, <3>2
      <4> QED
        BY <2>7, <4>1
    <3> QED
      BY <1>0, <3>1, <3>2
  <2>9. n = a.cursor
    BY <1>0, <1>3, <1>4, <2>8
  <2>10. Len(d.events) = d.cursor /\ \A i \in DOMAIN d.events : d.events[i].seq = i
    BY <1>3, <1>5, <2>7, <2>9 DEF OwnerTrue
  <2>11. d.cursor \in Nat /\ c.cursor <= d.cursor /\ d.rev = c.rev /\ d.recs = c.recs /\ d.opening = c.opening
         /\ ~d.refreshing
    BY <1>2, <1>3, <1>4, <1>5, <2>7, <2>9 DEF Alike
  <2> QED
    BY <1>7, <2>10, <2>11, OwnerAdvances
<1>8. Alike(c, d) /\ d.head = c.head
  BY <1>2, <1>5 DEF Alike
<1> QED
  BY <1>6, <1>7, <1>8 DEF d, n, a, rows

\* What a refresh has read, and the page that goes on from there.
Longer(r) == r.replacement \o InOrder(Stamped(r.page, r.before, {e.seq : e \in Range(r.replacement)}))

\* The history a refresh collects grows page by page without a gap.
LEMMA LongerIs ==
    ASSUME LogTrue, NEW r \in Recs, PageTrue(r.page, r.before),
           \A i \in DOMAIN r.replacement : Fresh(r.replacement[i], r.page.rev)
    PROVE  /\ Longer(r) \in Seq(Rows) /\ \A i \in DOMAIN Longer(r) : Fresh(Longer(r)[i], r.page.rev)
           /\ owner /\ Len(r.replacement) = r.before /\ (\A n \in DOMAIN r.replacement : r.replacement[n].seq = n) =>
                Len(Longer(r)) = r.page.cursor /\ \A n \in DOMAIN Longer(r) : Longer(r)[n].seq = n
<1> DEFINE ids == {e.seq : e \in Range(r.replacement)}
           rows == Stamped(r.page, r.before, ids)
           q == InOrder(rows)
           s == r.replacement
           es == Longer(r)
<1>0. /\ s \in Seq(Rows) /\ r.page \in Pages /\ r.before \in Nat /\ r.page.cursor \in Nat
      /\ r.before <= r.page.cursor /\ r.page.cursor <= Len(log) /\ Len(log) \in Nat /\ DOMAIN log = 1..Len(log)
  BY LogIs DEF Recs, PageTrue
<1>1. /\ rows \in SUBSET Rows /\ Distinct(rows)
      /\ \A e \in rows : /\ Fresh(e, r.page.rev) /\ e.seq \notin ids
                         /\ r.before < e.seq /\ e.seq <= r.page.cursor
      /\ \A n \in (r.before + 1)..r.page.cursor : log[n].readable /\ n \notin ids => \E e \in rows : e.seq = n
  <2> HIDE DEF ids
  <2> QED
    BY <1>0, StampedIs
<1>2. es = s \o q
  BY DEF Longer
<1>i. ids = {e.seq : e \in Range(s)}
  OBVIOUS
<1> HIDE DEF rows, ids
<1>3. q \in Seq(rows) /\ q \in Seq(Rows)
  <2>1. q \in Seq(rows)
    BY <1>0, <1>1, InOrderIs
  <2> QED
    BY <1>1, <2>1, SeqMonotonic
<1> HIDE DEF q, s, es
<1>4. /\ es \in Seq(Rows) /\ DOMAIN es = 1..(Len(s) + Len(q)) /\ Len(s) \in Nat /\ Len(q) \in Nat
      /\ \A i \in 1..(Len(s) + Len(q)) : es[i] = IF i <= Len(s) THEN s[i] ELSE q[i - Len(s)]
  BY <1>0, <1>2, <1>3, ConcatProperties
<1>5. ASSUME NEW i \in DOMAIN es PROVE Fresh(es[i], r.page.rev)
  <2>1. CASE i <= Len(s)
    <3>1. i \in DOMAIN s /\ es[i] = s[i]
      BY <1>0, <1>4, <2>1
    <3> QED
      BY <3>1 DEF s
  <2>2. CASE ~(i <= Len(s))
    <3>1. i - Len(s) \in 1..Len(q) /\ es[i] = q[i - Len(s)]
      BY <1>4, <2>2
    <3>2. q[i - Len(s)] \in rows
      BY <1>3, <3>1
    <3> QED
      BY <1>1, <3>1, <3>2
  <2> QED
    BY <2>1, <2>2
<1>6. ASSUME owner, Len(s) = r.before, \A n \in DOMAIN s : s[n].seq = n
      PROVE  Len(es) = r.page.cursor /\ \A n \in DOMAIN es : es[n].seq = n
  <2>1. ASSUME NEW n \in ids PROVE n \in 1..r.before
    <3>1. PICK i \in DOMAIN s : n = s[i].seq
      BY <1>i DEF Range
    <3>2. n = i /\ DOMAIN s = 1..Len(s)
      BY <1>0, <1>6, <3>1
    <3> QED
      BY <1>6, <3>2
  <2>2. \A n \in DOMAIN log : log[n].readable
    BY <1>6 DEF LogTrue
  <2>3. Fills(rows, r.before, r.page.cursor)
    <3>1. ASSUME NEW n \in Nat, r.before < n, n <= r.page.cursor PROVE \E e \in rows : e.seq = n
      <4>1. n \in (r.before + 1)..r.page.cursor /\ n \in DOMAIN log /\ n \notin ids
        BY <1>0, <2>1, <3>1
      <4> QED
        BY <1>1, <2>2, <4>1
    <3> QED
      BY <1>1, <3>1 DEF Fills
  <2>4. Len(q) = r.page.cursor - r.before /\ \A i \in DOMAIN q : q[i].seq = r.before + i
    BY <1>0, <1>1, <2>3, OrderCounts DEF q
  <2>5. Len(es) = Len(s) + Len(q) /\ \A n \in DOMAIN es : es[n].seq = n
    BY <1>0, <1>2, <1>3, <1>6, <2>4, CountsOn
  <2> QED
    BY <1>0, <1>6, <2>4, <2>5
<1> QED
  BY <1>4, <1>5, <1>6 DEF es, s

\* The refresh has read everything: the timeline is what it has read.
LEMMA ReplacedLeads ==
    ASSUME LogTrue, NEW c, ClientTrue(c), c.on, NEW r \in Recs, RecoveryTrue(c, r), ~r.stale, r.replacing,
           PageTrue(r.page, r.before), r.page.rev = c.rev, ~r.page.more, c.head <= r.page.cursor
    PROVE  LET d == [c EXCEPT !.events = Longer(r), !.cursor = r.page.cursor,
                              !.refreshing = FALSE, !.head = 0]
           IN  ClientTrue(d) /\ d.on /\ ~d.refreshing /\ (owner /\ OwnerMay(c, r) => OwnerTrue(d) /\ Onward(c, d))
<1> DEFINE es == Longer(r)
           n == r.page.cursor
           d == [c EXCEPT !.events = es, !.cursor = n, !.refreshing = FALSE, !.head = 0]
<1>0. /\ c \in Clients /\ n \in Nat /\ n <= Len(log) /\ c.head \in Nat /\ c.phase # "idle" /\ Len(log) \in Nat
      /\ c.opening \in Seq(Nat)
  BY LogIs DEF ClientTrue, Clients, Recs, PageTrue
<1>1. /\ es \in Seq(Rows) /\ \A i \in DOMAIN es : Fresh(es[i], c.rev)
      /\ owner /\ Len(r.replacement) = r.before /\ (\A m \in DOMAIN r.replacement : r.replacement[m].seq = m) =>
           Len(es) = n /\ \A m \in DOMAIN es : es[m].seq = m
  <2>1. \A i \in DOMAIN r.replacement : Fresh(r.replacement[i], r.page.rev)
    BY DEF RecoveryTrue
  <2> QED
    BY <2>1, LongerIs
<1>2. c.head <= n
  OBVIOUS
<1>3. Covers(n, c.rev)
  BY DEF PageTrue
<1> HIDE DEF es, n
<1>4. /\ d \in Clients /\ d.on = c.on /\ d.phase = c.phase /\ d.cursor = n /\ d.events = es
      /\ d.rev = c.rev /\ d.refreshing = FALSE /\ d.head = 0 /\ d.buffer = c.buffer
      /\ d.recs = c.recs /\ d.opening = c.opening
  BY <1>0, <1>1 DEF Clients
<1> HIDE DEF d
<1>5. ClientTrue(d)
  <2>1. \A i \in DOMAIN d.recs : RecoveryTrue(d, d.recs[i])
    BY <1>4 DEF ClientTrue, RecoveryTrue
  <2> QED
    BY <1>0, <1>1, <1>4, <2>1 DEF ClientTrue
<1>6. ASSUME owner, OwnerMay(c, r) PROVE OwnerTrue(d) /\ Onward(c, d)
  <2>1. /\ c.refreshing /\ Len(r.replacement) = r.before /\ OwnerTrue(c)
        /\ \A m \in DOMAIN r.replacement : r.replacement[m].seq = m
        /\ \A i \in DOMAIN c.recs : c.recs[i].stale
    BY <1>6 DEF OwnerMay, OwnerRecovery
  <2>2. Len(es) = n /\ \A m \in DOMAIN es : es[m].seq = m
    BY <1>1, <1>6, <2>1
  <2>3. ASSUME NEW p \in Nat, Reached(c, p) PROVE Reached(d, p)
    <3>1. CASE p <= c.head
      BY <1>0, <1>2, <1>4, <3>1 DEF Reached
    <3>2. CASE ~(p <= c.head)
      <4>1. PICK m \in DOMAIN log : log[m].kind = "marker" /\ log[m].rev <= c.rev /\ p <= m
        BY <2>1, <2>3, <3>2 DEF Reached
      <4>2. m <= n /\ m \in Nat
        BY <1>3, <4>1, LogIs DEF Covers
      <4> QED
        BY <1>0, <1>4, <4>1, <4>2 DEF Reached
    <3> QED
      BY <3>1, <3>2
  <2>4. \A i \in DOMAIN d.opening : Reached(d, d.opening[i])
    <3>1. \A i \in DOMAIN c.opening : c.opening[i] \in Nat /\ Reached(c, c.opening[i])
      BY <1>0, <2>1 DEF OwnerTrue
    <3> QED
      BY <1>4, <2>3, <3>1
  <2>5. \A i \in DOMAIN d.recs : d.recs[i].stale /\ OwnerRecovery(d, d.recs[i])
    BY <1>4, <2>1 DEF OwnerRecovery
  <2>6. OwnerTrue(d)
    BY <1>3, <1>4, <2>2, <2>4, <2>5 DEF OwnerTrue
  <2> QED
    BY <2>3, <2>6 DEF Onward
<1> QED
  BY <1>4, <1>5, <1>6 DEF d, es, n

\* A page of a recovery that is not stale (realtime.js, the loop of #recover).
LEMMA TakeLeads ==
    ASSUME LogTrue, NEW c, ClientTrue(c), c.on, NEW r \in Recs, RecoveryTrue(c, r), ~r.stale,
           PageTrue(r.page, r.before), r.page.rev = c.rev
    PROVE  /\ ClientTrue(TakePage(c, r)) /\ TakePage(c, r).on
           /\ owner /\ OwnerMay(c, r) => OwnerTrue(TakePage(c, r)) /\ Onward(c, TakePage(c, r))
<1> DEFINE page == r.page
           filled == IF r.replacing THEN c ELSE ApplyAll(c, Stamped(page, r.before, EventIds(c)))
           moved == IF r.replacing THEN c ELSE [filled EXCEPT !.cursor = Larger(@, page.cursor)]
           es == Longer(r)
           position == IF r.replacing THEN Larger(r.position, page.cursor) ELSE moved.cursor
           more == page.more \/ (r.replacing /\ position < c.head)
           again == [r EXCEPT !.replacement = es, !.position = position, !.before = position, !.page = NoPage]
           replaced == [moved EXCEPT !.events = es, !.cursor = position, !.refreshing = FALSE, !.head = 0]
           base == IF r.replacing THEN replaced ELSE moved
           drained == DrainBuffer(base)
           ended == [drained EXCEPT !.phase = IF drained.buffer = {} THEN "live" ELSE "blocked"]
           asked == [moved EXCEPT !.recs = Append(@, again)]
           d == TakePage(c, r)
<1>1. d = CASE more /\ position <= r.before -> RecoverThrows(moved, r.then)
            [] more /\ position > r.before -> asked
            [] ~more -> ContinueWith(ended, r.then)
  BY DEF TakePage, Stamped, Longer
<1>0. /\ c \in Clients /\ c.cursor \in Nat /\ r.before \in Nat /\ page \in Pages /\ page.cursor \in Nat
      /\ r.before <= page.cursor /\ page.cursor <= Len(log) /\ Len(log) \in Nat /\ c.head \in Nat
      /\ r.then \in Thens /\ r.replacing \in BOOLEAN /\ page.more \in BOOLEAN /\ c.phase # "idle"
      /\ (~r.replacing => ~c.refreshing) /\ (r.replacing => r.position = r.before)
  BY LogIs DEF ClientTrue, Clients, Recs, PageTrue, RecoveryTrue, Thens, Pages
<1>2. OwnerMay(c, r) => OwnerTrue(c) /\ (~r.replacing => r.before <= c.cursor)
  BY DEF OwnerMay, OwnerRecovery
<1>3. /\ ClientTrue(moved) /\ Alike(c, moved) /\ moved.head = c.head
      /\ owner /\ OwnerMay(c, r) => OwnerTrue(moved) /\ Onward(c, moved)
  <2>1. CASE r.replacing
    <3>1. moved = c
      BY <2>1
    <3> HIDE DEF moved
    <3> QED
      BY <1>2, <3>1 DEF Alike, Onward
  <2>2. CASE ~r.replacing
    <3>1. moved = [ApplyAll(c, Stamped(page, r.before, EventIds(c))) EXCEPT !.cursor = Larger(@, page.cursor)]
      BY <2>2
    <3> HIDE DEF moved
    <3> QED
      BY <1>0, <1>2, <2>2, <3>1, FilledLeads
  <2> QED
    BY <2>1, <2>2
<1>4. es \in Seq(Rows) /\ (\A i \in DOMAIN es : Fresh(es[i], c.rev))
      /\ (owner /\ OwnerMay(c, r) /\ r.replacing =>
            Len(es) = page.cursor /\ \A n \in DOMAIN es : es[n].seq = n)
  <2>1. \A i \in DOMAIN r.replacement : Fresh(r.replacement[i], r.page.rev)
    BY DEF RecoveryTrue
  <2>2. OwnerMay(c, r) /\ r.replacing =>
          Len(r.replacement) = r.before /\ \A n \in DOMAIN r.replacement : r.replacement[n].seq = n
    BY DEF OwnerMay, OwnerRecovery
  <2> QED
    BY <2>1, <2>2, LongerIs
<1>r. replaced = [moved EXCEPT !.events = es, !.cursor = position, !.refreshing = FALSE, !.head = 0]
  OBVIOUS
<1>b. base = IF r.replacing THEN replaced ELSE moved
  OBVIOUS
<1>m. r.replacing => moved = c
  OBVIOUS
<1> HIDE DEF es
<1>5. /\ position \in Nat /\ position <= Len(log)
      /\ position = IF r.replacing THEN page.cursor ELSE moved.cursor
  <2>1. CASE r.replacing
    <3>1. position = page.cursor
      BY <1>0, <2>1 DEF Larger
    <3> QED
      BY <1>0, <2>1, <3>1
  <2>2. CASE ~r.replacing
    <3>1. position = moved.cursor
      BY <2>2
    <3> HIDE DEF moved, position
    <3> QED
      BY <1>3, <2>2, <3>1 DEF ClientTrue, Clients
  <2> QED
    BY <2>1, <2>2
<1> HIDE DEF moved, position, d, filled
<1>6. /\ moved \in Clients /\ moved.on /\ moved.rev = c.rev /\ moved.refreshing = c.refreshing
      /\ moved.recs = c.recs /\ moved.phase # "idle"
  BY <1>0, <1>3 DEF ClientTrue, Alike
<1>7. CASE more /\ position <= r.before
  <2>1. d = RecoverThrows(moved, r.then)
    BY <1>0, <1>1, <1>5, <1>7
  <2>2. Leads(moved, d)
    BY <1>0, <1>3, <1>6, <2>1, BlockedLeads
  <2> QED
    BY <1>3, <2>2 DEF Leads, Onward, d
<1>8. CASE more /\ position > r.before
  <2>1. d = asked
    BY <1>0, <1>1, <1>5, <1>8
  <2>2. /\ again \in Recs /\ again.then = r.then /\ again.stale = r.stale /\ again.replacing = r.replacing
        /\ again.replacement = es /\ again.position = position /\ again.before = position
        /\ again.page = NoPage
    BY <1>4, <1>5, NoPageIs DEF Recs
  <2> HIDE DEF again
  <2>3. RecoveryTrue(moved, again)
    BY <1>0, <1>4, <1>5, <1>6, <2>2 DEF RecoveryTrue
  <2>4. /\ ClientTrue(asked) /\ asked.on
        /\ OwnerMay(moved, again) => OwnerTrue(asked) /\ Onward(moved, asked)
    BY <1>3, <1>6, <2>2, <2>3, AgainLeads
  <2>5. ASSUME owner, OwnerMay(c, r) PROVE OwnerMay(moved, again)
    <3>1. OwnerTrue(moved)
      BY <1>3, <2>5
    <3>2. r.replacing => c.refreshing /\ \A i \in DOMAIN c.recs : c.recs[i].stale
      BY <2>5 DEF OwnerMay, OwnerRecovery
    <3>3. OwnerRecovery(moved, again)
      <4>1. CASE r.replacing
        BY <1>4, <1>5, <1>6, <2>2, <2>5, <3>2, <4>1 DEF OwnerRecovery
      <4>2. CASE ~r.replacing
        BY <1>5, <2>2, <4>2 DEF OwnerRecovery
      <4> QED
        BY <4>1, <4>2
    <3> QED
      BY <1>6, <2>2, <3>1, <3>2, <3>3 DEF OwnerMay
  <2> HIDE DEF asked
  <2> QED
    BY <1>3, <2>1, <2>4, <2>5 DEF Onward, d
<1>9. CASE ~more
  <2>1. d = ContinueWith(ended, r.then)
    BY <1>0, <1>1, <1>5, <1>9
  <2>2. /\ ClientTrue(base) /\ base.on /\ ~base.refreshing
        /\ owner /\ OwnerMay(c, r) => OwnerTrue(base) /\ Onward(c, base)
    <3>1. CASE r.replacing
      <4>1. ~page.more /\ c.head <= page.cursor /\ position = page.cursor
        BY <1>0, <1>5, <1>9, <3>1
      <4>2. base = [c EXCEPT !.events = es, !.cursor = page.cursor, !.refreshing = FALSE, !.head = 0]
        BY <1>b, <1>m, <1>r, <3>1, <4>1
      <4> HIDE DEF base
      <4> QED
        BY <3>1, <4>1, <4>2, ReplacedLeads DEF es
    <3>2. CASE ~r.replacing
      <4>1. base = moved
        BY <1>b, <3>2
      <4> HIDE DEF base
      <4> QED
        BY <1>0, <1>3, <1>6, <3>2, <4>1
    <3> QED
      BY <1>0, <3>1, <3>2
  <2> HIDE DEF base
  <2>3. Leads(base, drained)
    BY <2>2, DrainLeads
  <2> HIDE DEF drained
  <2>4. ClientTrue(drained) /\ drained.on /\ drained \in Clients
    BY <2>3 DEF Leads, ClientTrue
  <2>5. /\ ended \in Clients /\ ended.on = drained.on /\ ended.phase # "idle"
        /\ ended.cursor = drained.cursor /\ ended.events = drained.events /\ ended.rev = drained.rev
        /\ ended.refreshing = drained.refreshing /\ ended.head = drained.head
        /\ ended.buffer = drained.buffer /\ ended.recs = drained.recs /\ ended.opening = drained.opening
    BY <2>4 DEF Clients, Phases
  <2> HIDE DEF ended
  <2>6. Leads(drained, ended)
    BY <2>4, <2>5, SameLeads
  <2>7. ClientTrue(ended) /\ ended.on
    BY <2>6 DEF Leads
  <2>8. Leads(ended, d)
    BY <2>1, <2>7, ContinueLeads
  <2>9. Leads(base, d)
    BY <2>3, <2>6, <2>8, LeadsOn
  <2> QED
    BY <2>2, <2>9 DEF Leads, Onward, d
<1>10. \/ more /\ position <= r.before
       \/ more /\ position > r.before
       \/ ~more
  BY <1>0, <1>5
<1> QED
  BY <1>7, <1>8, <1>9, <1>10

\* A recovery goes on when its page has arrived, whatever happened since it asked.
LEMMA ResumeLeads ==
    ASSUME LogTrue, NEW c, ClientTrue(c), c.on, NEW r \in Recs, RecoveryTrue(c, r),
           PageTrue(r.page, r.before)
    PROVE  /\ ClientTrue(ResumeRecover(c, r)) /\ ResumeRecover(c, r).on
           /\ owner /\ OwnerMay(c, r) => OwnerTrue(ResumeRecover(c, r)) /\ Onward(c, ResumeRecover(c, r))
<1> DEFINE d == ResumeRecover(c, r)
           then == IF r.then = "none" THEN "none" ELSE "swallow"
<1>0. /\ r.page.rev \in 0..revision /\ r.page.rev \in Nat /\ c.rev \in Nat /\ r.then \in Thens /\ then \in Thens
      /\ r.stale \in BOOLEAN /\ 0 \in 0..Len(log)
  BY LogIs DEF ClientTrue, Clients, Recs, PageTrue, Thens
<1>1. OwnerMay(c, r) => OwnerTrue(c)
  BY DEF OwnerMay
<1>2. CASE r.stale
  <2>1. d = ContinueWith(c, r.then)
    BY <1>2 DEF ResumeRecover
  <2>2. Leads(c, d)
    BY <2>1, ContinueLeads
  <2> QED
    BY <1>1, <2>2 DEF Leads
<1>3. CASE ~r.stale /\ r.page.rev < c.rev
  <2>1. d = RecoverThrows(c, r.then)
    BY <1>0, <1>3 DEF ResumeRecover
  <2>2. Leads(c, d)
    BY <1>0, <2>1, BlockedLeads
  <2> QED
    BY <1>1, <2>2 DEF Leads
<1>4. CASE ~r.stale /\ r.page.rev > c.rev
  <2>1. d = Invalidate(c, r.page.rev, 0, then)
    BY <1>0, <1>4 DEF ResumeRecover
  <2> HIDE DEF then
  <2>2. Leads(c, d)
    BY <1>0, <2>1, InvalidateLeads
  <2> QED
    BY <1>1, <2>2 DEF Leads
<1>5. CASE ~r.stale /\ r.page.rev = c.rev
  <2>1. d = TakePage(c, r)
    BY <1>0, <1>5 DEF ResumeRecover
  <2> QED
    BY <1>5, <2>1, TakeLeads
<1> QED
  BY <1>0, <1>2, <1>3, <1>4, <1>5

-----------------------------------------------------------------------------
(* Connections.                                                            *)

LEMMA NoConnectionIs ==
    ASSUME LogTrue
    PROVE  NoConnection \in Connections /\ ConnectionTrue(NoConnection) /\ \A c : OwnerWire(c, NoConnection)
<1>1. <<>> \in Seq(Messages)
  OBVIOUS
<1>2. /\ NoConnection.state = "none" /\ NoConnection.wire = <<>> /\ NoConnection.after = -1
      /\ NoConnection.page = NoPage /\ NoConnection.replaying = FALSE /\ NoConnection.session = FALSE
      /\ NoConnection.cursor = 0
  BY DEF NoConnection
<1>3. NoConnection \in Connections
  BY <1>1, NoPageIs DEF NoConnection, Connections
<1> HIDE DEF NoConnection
<1>4. ConnectionTrue(NoConnection)
  BY <1>2, <1>3, LogIs DEF ConnectionTrue, WireTrue, Joined
<1>5. \A c : OwnerWire(c, NoConnection)
  BY <1>2 DEF OwnerWire
<1> QED
  BY <1>3, <1>4, <1>5

LEMMA MessageTypes ==
    /\ \A e \in Rows : [type |-> "event", event |-> e] \in Messages
    /\ \A n \in Nat : [type |-> "cursor", cursor |-> n] \in Messages
    /\ \A n \in Nat : [type |-> "subscribed", cursor |-> n] \in Messages
    /\ \A p \in Pages : [type |-> "replay", page |-> p] \in Messages
    /\ [type |-> "error"] \in Messages /\ [type |-> "close"] \in Messages
BY DEF Messages

\* A wire is true message by message and joint by joint.
LEMMA WireAppends ==
    ASSUME NEW w \in Seq(Messages), NEW m \in Messages, WireTrue(w), MessageTrue(m),
           w # <<>> => Complete(w[Len(w)], m)
    PROVE  WireTrue(Append(w, m))
<1> DEFINE v == Append(w, m)
<1>1. /\ DOMAIN v = 1..(Len(w) + 1) /\ DOMAIN w = 1..Len(w) /\ Len(w) \in Nat /\ v[Len(w) + 1] = m
      /\ \A i \in 1..Len(w) : v[i] = w[i]
  OBVIOUS
<1>2. Len(w) # 0 => w # <<>>
  OBVIOUS
<1> HIDE DEF v
<1>3. ASSUME NEW i \in DOMAIN v PROVE MessageTrue(v[i])
  <2>1. i \in 1..Len(w) \/ i = Len(w) + 1
    BY <1>1
  <2> QED
    BY <1>1, <2>1 DEF WireTrue
<1>4. ASSUME NEW i \in DOMAIN v, i + 1 \in DOMAIN v PROVE Complete(v[i], v[i + 1])
  <2>1. CASE i = Len(w)
    BY <1>1, <1>2, <1>4, <2>1
  <2>2. CASE i # Len(w)
    <3>1. i \in 1..Len(w) /\ i + 1 \in 1..Len(w)
      BY <1>1, <1>4, <2>2
    <3>2. Complete(w[i], w[i + 1])
      BY <1>1, <3>1 DEF WireTrue
    <3> QED
      BY <1>1, <3>1, <3>2
  <2> QED
    BY <2>1, <2>2
<1> QED
  BY <1>3, <1>4 DEF WireTrue, v

LEMMA WireTail ==
    ASSUME NEW w \in Seq(Messages), w # <<>>, WireTrue(w)
    PROVE  /\ Tail(w) \in Seq(Messages) /\ WireTrue(Tail(w)) /\ Len(Tail(w)) = Len(w) - 1 /\ Len(w) \in Nat
           /\ DOMAIN Tail(w) = 1..(Len(w) - 1) /\ \A i \in DOMAIN Tail(w) : Tail(w)[i] = w[i + 1] /\ i + 1 \in DOMAIN w
<1>1. /\ Tail(w) \in Seq(Messages) /\ Len(Tail(w)) = Len(w) - 1 /\ Len(w) \in Nat /\ DOMAIN w = 1..Len(w)
      /\ DOMAIN Tail(w) = 1..(Len(w) - 1) /\ \A i \in 1..(Len(w) - 1) : Tail(w)[i] = w[i + 1]
  OBVIOUS
<1>2. \A i \in DOMAIN Tail(w) : i + 1 \in DOMAIN w
  BY <1>1
<1>3. ASSUME NEW i \in DOMAIN Tail(w), i + 1 \in DOMAIN Tail(w) PROVE Complete(Tail(w)[i], Tail(w)[i + 1])
  <2>1. i + 1 \in DOMAIN w /\ (i + 1) + 1 \in DOMAIN w
    BY <1>2, <1>3
  <2>2. Complete(w[i + 1], w[(i + 1) + 1])
    BY <2>1 DEF WireTrue
  <2> QED
    BY <1>1, <1>3, <2>2
<1>4. \A i \in DOMAIN Tail(w) : MessageTrue(Tail(w)[i])
  BY <1>1, <1>2 DEF WireTrue
<1> QED
  BY <1>1, <1>2, <1>3, <1>4 DEF WireTrue

LEMMA WirePrefix ==
    ASSUME NEW w \in Seq(Messages), NEW k \in 0..Len(w), WireTrue(w)
    PROVE  /\ SubSeq(w, 1, k) \in Seq(Messages) /\ WireTrue(SubSeq(w, 1, k)) /\ Len(SubSeq(w, 1, k)) = k
           /\ \A i \in 1..k : SubSeq(w, 1, k)[i] = w[i] /\ i \in DOMAIN w
<1> DEFINE v == SubSeq(w, 1, k)
<1>1. /\ v \in Seq(Messages) /\ Len(v) = k /\ DOMAIN v = 1..k /\ DOMAIN w = 1..Len(w) /\ Len(w) \in Nat
      /\ \A i \in 1..k : v[i] = w[i] /\ i \in DOMAIN w
  OBVIOUS
<1> HIDE DEF v
<1>2. \A i \in DOMAIN v : i + 1 \in DOMAIN v => Complete(v[i], v[i + 1])
  BY <1>1 DEF WireTrue
<1>3. \A i \in DOMAIN v : MessageTrue(v[i])
  BY <1>1 DEF WireTrue
<1> QED
  BY <1>1, <1>2, <1>3 DEF WireTrue, v

\* An owner's wire keeps what it carries when messages are added, taken or lost at its end.
LEMMA OwnerWireOnward ==
    ASSUME NEW c, NEW d, Onward(c, d), NEW k \in Connections, OwnerWire(c, k)
    PROVE  OwnerWire(d, k)
<1>1. ASSUME NEW j, NEW n \in Nat, HasBefore(c, k.wire, j, n) PROVE HasBefore(d, k.wire, j, n)
  BY <1>1 DEF HasBefore, Onward
<1>2. k.after >= 0 => Reached(d, k.after)
  BY DEF OwnerWire, Onward, Connections
<1>3. \A p : 1..p \subseteq Nat
  OBVIOUS
<1> QED
  BY <1>1, <1>2, <1>3 DEF OwnerWire

\* A message may follow on an owner's wire if what it leaves out comes before it.
LEMMA OwnerWireAppends ==
    ASSUME NEW c, NEW k, NEW w \in Seq(Messages), k.wire = w, OwnerWire(c, k), NEW m \in Messages,
           m.type # "cursor",
           m.type \in {"replay", "subscribed"} =>
             \A n \in 1..Reaches(m) : n \in Carries(m) \/ HasBefore(c, w, Len(w) + 1, n)
    PROVE  \A j \in DOMAIN Append(w, m) :
             /\ Append(w, m)[j].type # "cursor"
             /\ Append(w, m)[j].type \in {"replay", "subscribed"} =>
                  \A n \in 1..Reaches(Append(w, m)[j]) :
                    n \in Carries(Append(w, m)[j]) \/ HasBefore(c, Append(w, m), j, n)
<1> DEFINE v == Append(w, m)
<1>1. /\ DOMAIN v = 1..(Len(w) + 1) /\ DOMAIN w = 1..Len(w) /\ Len(w) \in Nat /\ v[Len(w) + 1] = m
      /\ \A i \in 1..Len(w) : v[i] = w[i]
  OBVIOUS
<1> HIDE DEF v
<1>2. ASSUME NEW j \in DOMAIN v, NEW n, HasBefore(c, w, j, n) PROVE HasBefore(c, v, j, n)
  <2>1. \A i \in 1..(j - 1) : v[i] = w[i]
    BY <1>1
  <2> QED
    BY <1>2, <2>1 DEF HasBefore
<1>3. ASSUME NEW j \in DOMAIN v
      PROVE  /\ v[j].type # "cursor"
             /\ v[j].type \in {"replay", "subscribed"} =>
                  \A n \in 1..Reaches(v[j]) : n \in Carries(v[j]) \/ HasBefore(c, v, j, n)
  <2>1. CASE j = Len(w) + 1
    BY <1>1, <1>2, <2>1
  <2>2. CASE j # Len(w) + 1
    <3>1. j \in DOMAIN w /\ v[j] = w[j]
      BY <1>1, <2>2
    <3> QED
      BY <1>2, <3>1 DEF OwnerWire
  <2> QED
    BY <2>1, <2>2
<1> QED
  BY <1>3 DEF v

LEMMA WireTrueGrows ==
    ASSUME Grows, NEW w \in Seq(Messages), WireTrue(w)
    PROVE  WireTrue(w)'
<1>0. LogTrue
  BY DEF Grows
<1>1. ASSUME NEW i \in DOMAIN w
      PROVE  w[i] \in Messages /\ MessageTrue(w[i]) /\ Reaches(w[i]) \in 0..Len(log)
  <2>1. w[i] \in Messages /\ MessageTrue(w[i])
    BY DEF WireTrue
  <2> QED
    BY <1>0, <2>1, ReachesIs
<1>2. \A i \in DOMAIN w : MessageTrue(w[i])'
  BY <1>1, MessageGrows
<1>3. ASSUME NEW i \in DOMAIN w, i + 1 \in DOMAIN w PROVE Complete(w[i], w[i + 1])'
  <2>1. Complete(w[i], w[i + 1])
    BY <1>3 DEF WireTrue
  <2> QED
    BY <1>1, <1>3, <2>1, CompleteGrows
<1> QED
  BY <1>2, <1>3 DEF WireTrue

\* A connection that follows the session live has to be told of what is appended.
LEMMA ConnectionGrows ==
    ASSUME Grows, NEW k, ConnectionTrue(k), k.session /\ ~k.replaying => Len(log') = Len(log)
    PROVE  ConnectionTrue(k)'
<1>1. /\ k \in Connections /\ k.cursor \in Nat /\ k.after \in Int /\ k.page \in Pages
      /\ k.wire \in Seq(Messages)
  BY DEF ConnectionTrue, Connections
<1>2. k.cursor <= Len(log') /\ (k.after >= 0 => k.after <= Len(log'))
  BY <1>1, GrowsIs DEF ConnectionTrue, Grows
<1>3. k.replaying => PageTrue(k.page, k.cursor)'
  BY <1>1, PageGrows DEF ConnectionTrue
<1>4. WireTrue(k.wire)'
  BY <1>1, WireTrueGrows DEF ConnectionTrue
<1>5. Joined(k)'
  <2>1. \A m : Reaches(m)' = Reaches(m)
    BY DEF Reaches
  <2> QED
    BY <2>1 DEF ConnectionTrue, Joined
<1> QED
  BY <1>1, <1>2, <1>3, <1>4, <1>5 DEF ConnectionTrue

\* A step that leaves the log alone, and what it has to show of client and sockets.
LEMMA StepKeeps ==
    ASSUME SyncInv, UNCHANGED <<log, revision, owner>>, receipts' \subseteq receipts,
           NEW d, client' = d, NEW f, socket' = f, StateTrue(d, f),
           Owned /\ OwnerState(client, socket) => OwnerState(d, f)
    PROVE  SyncInv' /\ (OwnerInv => OwnerInv')
<1>1. Grows
  BY SameGrows DEF SyncInv
<1>2. ClientTrue(d)'
  BY <1>1, ClientGrows DEF StateTrue
<1>3. ASSUME NEW s \in Sockets PROVE ConnectionTrue(f[s])'
  BY <1>1, ConnectionGrows DEF StateTrue
<1>4. StateTrue(d, f)'
  <2>1. NoConnection' = NoConnection
    BY DEF NoConnection, NoPage
  <2> QED
    BY <1>2, <1>3, <2>1 DEF StateTrue
<1>5. SyncInv'
  BY <1>1, <1>4 DEF SyncInv, Grows
<1>6. ASSUME OwnerInv, Owned' PROVE OwnerState(d, f)'
  <2>1. Owned
    BY <1>6 DEF Owned
  <2>2. OwnerState(d, f)
    BY <1>6, <2>1 DEF OwnerInv
  <2>3. OwnerTrue(d)'
    BY <1>1, <2>2, OwnerGrows DEF OwnerState, StateTrue
  <2>4. \A s \in Sockets : OwnerWire(d, f[s])'
    BY <1>1, <2>2, WireGrows DEF OwnerState
  <2> QED
    BY <2>3, <2>4 DEF OwnerState
<1>7. OwnerInv => OwnerInv'
  BY <1>6 DEF OwnerInv
<1> QED
  BY <1>5, <1>7

\* One connection changes, and the client with it.
LEMMA SocketChange ==
    ASSUME StateTrue(client, socket), NEW s \in Sockets, NEW k, ConnectionTrue(k),
           NEW d, ClientTrue(d), d.on,
           Owned /\ OwnerState(client, socket) => OwnerTrue(d) /\ Onward(client, d) /\ OwnerWire(d, k)
    PROVE  /\ StateTrue(d, [socket EXCEPT ![s] = k])
           /\ Owned /\ OwnerState(client, socket) => OwnerState(d, [socket EXCEPT ![s] = k])
<1> DEFINE f == [socket EXCEPT ![s] = k]
<1>1. socket \in [Sockets -> Connections] /\ k \in Connections
  BY DEF StateTrue, ConnectionTrue
<1>2. f \in [Sockets -> Connections] /\ f[s] = k /\ \A t \in Sockets \ {s} : f[t] = socket[t]
  BY <1>1
<1> HIDE DEF f
<1>3. StateTrue(d, f)
  BY <1>2 DEF StateTrue
<1>4. ASSUME Owned, OwnerState(client, socket), NEW t \in Sockets PROVE OwnerWire(d, f[t])
  <2>1. CASE t = s
    BY <1>2, <1>4, <2>1
  <2>2. CASE t # s
    <3>1. f[t] = socket[t] /\ socket[t] \in Connections /\ OwnerWire(client, socket[t])
      BY <1>1, <1>2, <1>4, <2>2 DEF OwnerState
    <3> QED
      BY <1>4, <3>1, OwnerWireOnward
  <2> QED
    BY <2>1, <2>2
<1> QED
  BY <1>3, <1>4 DEF OwnerState, f

\* The client changes and the sockets do not.
LEMMA ClientOnly ==
    ASSUME StateTrue(client, socket), NEW d, ClientTrue(d), d.on \/ d = client,
           Owned /\ OwnerState(client, socket) => OwnerTrue(d) /\ Onward(client, d)
    PROVE  /\ StateTrue(d, socket)
           /\ Owned /\ OwnerState(client, socket) => OwnerState(d, socket)
<1>1. StateTrue(d, socket)
  BY DEF StateTrue
<1>2. ASSUME Owned, OwnerState(client, socket), NEW t \in Sockets PROVE OwnerWire(d, socket[t])
  <2>1. socket[t] \in Connections /\ OwnerWire(client, socket[t])
    BY <1>2 DEF OwnerState, StateTrue
  <2> QED
    BY <1>2, <2>1, OwnerWireOnward
<1> QED
  BY <1>1, <1>2 DEF OwnerState

\* While the client is selected on nothing, there is nothing.
LEMMA Selected ==
    ASSUME StateTrue(client, socket), ~client.on
    PROVE  client.recs = <<>> /\ client.opening = <<>> /\ ~client.timer
           /\ \A s \in Sockets : socket[s] = NoConnection
BY DEF StateTrue, ClientTrue, IdleClient

-----------------------------------------------------------------------------
(* The actions that leave the log alone: the server's end.                 *)

LEMMA SendIs ==
    ASSUME NEW k \in Connections, NEW m \in Messages
    PROVE  /\ Send(k, m) \in Connections /\ Send(k, m).wire = Append(k.wire, m) /\ Send(k, m).state = k.state
           /\ Send(k, m).after = k.after /\ Send(k, m).page = k.page /\ Send(k, m).replaying = k.replaying
           /\ Send(k, m).session = k.session /\ Send(k, m).cursor = k.cursor
<1> DEFINE w == Append(k.wire, m)
<1>1. w \in Seq(Messages)
  BY DEF Connections
<1> HIDE DEF w
<1>2. Send(k, m) = [k EXCEPT !.wire = w]
  BY DEF Send, Connections, w
<1>3. [k EXCEPT !.wire = w] \in Connections
  BY <1>1 DEF Connections
<1> QED
  BY <1>2, <1>3 DEF Connections, w

LEMMA AppendIs ==
    ASSUME NEW S, NEW w \in Seq(S), NEW m \in S
    PROVE  /\ Append(w, m) \in Seq(S) /\ Append(w, m) # <<>> /\ Len(Append(w, m)) = Len(w) + 1 /\ Len(w) \in Nat
           /\ DOMAIN Append(w, m) = 1..(Len(w) + 1) /\ Append(w, m)[Len(w) + 1] = m
           /\ Append(w, m)[Len(Append(w, m))] = m /\ \A i \in 1..Len(w) : Append(w, m)[i] = w[i]
OBVIOUS

\* Everything up to p is on the wire of k, or the client has it.
Ahead(c, k, p) == \A n \in 1..p : HasBefore(c, k.wire, Len(k.wire) + 1, n)

\* A page goes out where the wire ends.
PageSends ==
  \A k, j \in Connections, a \in 0..Len(log) :
    LET page == ReplayPage(a)
        m    == [type |-> "replay", page |-> page]
    IN  /\ ConnectionTrue(k) /\ k.state = "open"
        /\ k.wire # <<>> /\ Reaches(k.wire[Len(k.wire)]) > 0 => Reaches(k.wire[Len(k.wire)]) = a
        /\ j.state = "open" /\ j.wire = Append(k.wire, m) /\ j.after < 0 /\ j.session /\ j.replaying
        /\ j.cursor = a /\ j.page = page
        => /\ ConnectionTrue(j)
           /\ \A c : owner /\ OwnerWire(c, k) /\ Ahead(c, k, a) => OwnerWire(c, j)

\* A replay page may follow what has been sent before it.
LEMMA PageIsSent == ASSUME LogTrue PROVE PageSends
<1> SUFFICES ASSUME NEW k \in Connections, NEW j \in Connections, NEW a \in 0..Len(log), ConnectionTrue(k),
                    k.state = "open",
                    k.wire # <<>> /\ Reaches(k.wire[Len(k.wire)]) > 0 => Reaches(k.wire[Len(k.wire)]) = a,
                    j.state = "open", j.wire = Append(k.wire, [type |-> "replay", page |-> ReplayPage(a)]),
                    j.after < 0, j.session, j.replaying, j.cursor = a, j.page = ReplayPage(a)
             PROVE  /\ ConnectionTrue(j)
                    /\ \A c : owner /\ OwnerWire(c, k) /\ Ahead(c, k, a) => OwnerWire(c, j)
  BY DEF PageSends
<1> DEFINE page == ReplayPage(a)
           m == [type |-> "replay", page |-> page]
           w == k.wire
<1>1. page \in Pages /\ PageTrue(page, a)
  BY ReplayPageIs
<1>2. a \in 0..Len(log) /\ Len(log) \in Nat /\ page.cursor \in a..Len(log) /\ a \in Nat
  BY <1>1, LogIs DEF PageTrue
<1> HIDE DEF page
<1>3. m \in Messages /\ m.type = "replay" /\ m.page = page
  BY <1>1, MessageTypes
<1>4. Reaches(m) = page.cursor /\ Carries(m) = {e.seq : e \in page.events} /\ MessageTrue(m)
  BY <1>1, <1>2, <1>3 DEF Reaches, Carries, MessageTrue
<1>5. w \in Seq(Messages) /\ WireTrue(w) /\ j.wire = Append(w, m)
  BY DEF Connections, ConnectionTrue, page
<1> HIDE DEF m
<1>6. ASSUME NEW n \in (a + 1)..page.cursor, log[n].readable PROVE n \in Carries(m)
  BY <1>1, <1>4, <1>6 DEF PageTrue
<1>7. w # <<>> => Complete(w[Len(w)], m)
  <2> SUFFICES ASSUME w # <<>>, Reaches(w[Len(w)]) > 0
               PROVE  {n \in Readable : Reaches(w[Len(w)]) < n /\ n <= Reaches(m)} \subseteq Carries(m)
    BY DEF Complete
  <2>1. Reaches(w[Len(w)]) = a
    OBVIOUS
  <2>2. \A n \in Readable : n \in Nat /\ log[n].readable
    BY LogIs DEF Readable
  <2> QED
    BY <1>2, <1>4, <1>6, <2>1, <2>2
<1>8. WireTrue(j.wire) /\ j.wire # <<>> /\ j.wire[Len(j.wire)] = m /\ Len(j.wire) = Len(w) + 1 /\ Len(w) \in Nat
  <2>1. Append(w, m) # <<>> /\ Append(w, m)[Len(Append(w, m))] = m /\ Len(Append(w, m)) = Len(w) + 1 /\ Len(w) \in Nat
    BY <1>3, <1>5, AppendIs
  <2> QED
    BY <1>3, <1>4, <1>5, <1>7, <2>1, WireAppends
<1>9. ConnectionTrue(j)
  <2>1. PageTrue(j.page, j.cursor) /\ j.cursor <= Len(log)
    BY <1>1, <1>2 DEF page
  <2>2. Joined(j)
    BY <1>4, <1>8 DEF Joined, page
  <2>3. j.after \in Int
    BY DEF Connections
  <2> QED
    BY <1>8, <2>1, <2>2, <2>3 DEF ConnectionTrue
<1>10. ASSUME NEW c, owner, OwnerWire(c, k), Ahead(c, k, a) PROVE OwnerWire(c, j)
  <2>1. \A n \in 1..Reaches(m) : n \in Carries(m) \/ HasBefore(c, w, Len(w) + 1, n)
    <3> SUFFICES ASSUME NEW n \in 1..page.cursor PROVE n \in Carries(m) \/ HasBefore(c, w, Len(w) + 1, n)
      BY <1>4
    <3>1. CASE n <= a
      BY <1>2, <1>10, <3>1 DEF Ahead
    <3>2. CASE n > a
      <4>1. n \in (a + 1)..page.cursor /\ n \in DOMAIN log
        BY <1>2, <3>2, LogIs
      <4>2. log[n].readable
        BY <1>10, <4>1 DEF LogTrue
      <4> QED
        BY <1>6, <4>1, <4>2
    <3> QED
      BY <1>2, <3>1, <3>2
  <2>2. \A i \in DOMAIN Append(w, m) :
             /\ Append(w, m)[i].type # "cursor"
             /\ Append(w, m)[i].type \in {"replay", "subscribed"} =>
                  \A n \in 1..Reaches(Append(w, m)[i]) :
                    n \in Carries(Append(w, m)[i]) \/ HasBefore(c, Append(w, m), i, n)
    BY <1>3, <1>5, <1>10, <2>1, OwnerWireAppends
  <2>3. \A n \in 1..j.page.cursor : HasBefore(c, j.wire, Len(j.wire) + 1, n)
    <3>1. Len(w) + 1 \in 1..((Len(j.wire) + 1) - 1) /\ j.wire[Len(w) + 1] = m /\ j.page = page
      BY <1>8 DEF page
    <3> QED
      BY <1>2, <1>3, <3>1 DEF HasBefore
  <2>4. ~(j.after >= 0)
    BY DEF Connections
  <2> QED
    BY <1>5, <2>2, <2>3, <2>4, Zenon DEF OwnerWire
<1> QED
  BY <1>9, <1>10

\* A connection that is open belongs to a client that is selected.
LEMMA OpenOn ==
    ASSUME SyncInv, NEW s \in Sockets, socket[s].state # "none" \/ socket[s].wire # <<>> \/ socket[s].replaying
    PROVE  /\ client.on /\ ClientTrue(client) /\ Onward(client, client) /\ LogTrue /\ StateTrue(client, socket)
           /\ socket[s] \in Connections /\ ConnectionTrue(socket[s])
           /\ Owned /\ OwnerState(client, socket) => owner /\ OwnerTrue(client) /\ OwnerWire(client, socket[s])
BY DEF SyncInv, StateTrue, NoConnection, Onward, Owned, OwnerState

LEMMA SubscribeKeeps ==
    ASSUME SyncInv, NEW s \in Sockets, Subscribe(s)
    PROVE  SyncInv' /\ (OwnerInv => OwnerInv')
<1> DEFINE k == socket[s]
           page == ReplayPage(k.after)
           m == [type |-> "replay", page |-> page]
           j == [Send(k, m) EXCEPT !.after = -1, !.session = TRUE, !.replaying = TRUE,
                                   !.cursor = k.after, !.page = page]
           f == [socket EXCEPT ![s] = j]
<1>1. k.state = "open" /\ k.after >= 0 /\ socket' = f /\ UNCHANGED <<owner, log, revision, receipts, client>>
  BY DEF Subscribe
<1>2. /\ client.on /\ ClientTrue(client) /\ Onward(client, client) /\ LogTrue /\ StateTrue(client, socket)
      /\ k \in Connections /\ ConnectionTrue(k)
      /\ Owned /\ OwnerState(client, socket) => owner /\ OwnerTrue(client) /\ OwnerWire(client, k)
  BY <1>1, OpenOn
<1>3. k.after \in 0..Len(log) /\ k.after \in Nat /\ k.wire = <<>> /\ Len(log) \in Nat
  BY <1>1, <1>2, LogIs DEF ConnectionTrue, Connections
<1>4. page \in Pages /\ m \in Messages
  BY <1>2, <1>3, ReplayPageIs, MessageTypes
<1> HIDE DEF page, m
<1>5. /\ j \in Connections /\ j.state = "open" /\ j.wire = Append(k.wire, m) /\ j.after < 0 /\ j.session
      /\ j.replaying /\ j.cursor = k.after /\ j.page = page
  <2> DEFINE b == Send(k, m)
  <2>1. b \in Connections /\ b.wire = Append(k.wire, m) /\ b.state = "open"
    BY <1>1, <1>2, <1>4, SendIs
  <2>2. j = [b EXCEPT !.after = -1, !.session = TRUE, !.replaying = TRUE, !.cursor = k.after, !.page = page]
    OBVIOUS
  <2> HIDE DEF b, j, k
  <2>3. /\ j.state = b.state /\ j.wire = b.wire /\ j.after = -1 /\ j.session
        /\ j.replaying /\ j.cursor = k.after /\ j.page = page
    BY <2>1, <2>2 DEF Connections
  <2>4. j \in Connections
    <3> DEFINE b1 == [b EXCEPT !.after = -1]
               b2 == [b1 EXCEPT !.session = TRUE, !.replaying = TRUE]
    <3>1. b1 \in Connections
      BY <2>1 DEF Connections
    <3> HIDE DEF b1
    <3>2. b2 \in Connections
      BY <3>1 DEF Connections
    <3> HIDE DEF b2
    <3>3. [b2 EXCEPT !.cursor = k.after, !.page = page] \in Connections
      BY <1>3, <1>4, <3>2 DEF Connections
    <3> QED
      BY <2>2, <3>3 DEF b1, b2
  <2> QED
    BY <2>1, <2>3, <2>4
<1> HIDE DEF j
<1>6. /\ ConnectionTrue(j)
      /\ \A c : owner /\ OwnerWire(c, k) /\ Ahead(c, k, k.after) => OwnerWire(c, j)
  <2>1. PageSends
    BY <1>2, PageIsSent
  <2> HIDE DEF k
  <2> QED
    BY <1>1, <1>2, <1>3, <1>5, <2>1, Zenon DEF PageSends, m, page
<1>7. ASSUME OwnerWire(client, k) PROVE Ahead(client, k, k.after)
  <2>1. Reached(client, k.after) /\ client \in Clients
    BY <1>1, <1>2, <1>7 DEF OwnerWire, ClientTrue
  <2>2. \A n \in 1..k.after : Reached(client, n)
    BY <1>2, <1>3, <2>1, ReachedBelow
  <2> QED
    BY <2>2 DEF Ahead, HasBefore
<1>8. /\ StateTrue(client, f)
      /\ Owned /\ OwnerState(client, socket) => OwnerState(client, f)
  <2>1. Owned /\ OwnerState(client, socket) =>
          OwnerTrue(client) /\ Onward(client, client) /\ OwnerWire(client, j)
    BY <1>2, <1>6, <1>7
  <2> HIDE DEF k
  <2> QED
    BY <1>2, <1>6, <2>1, SocketChange
<1> HIDE DEF k, f
<1> QED
  BY <1>1, <1>8, StepKeeps

\* A connection goes live where its last page ended, or reports an error.
LEMMA LiveIs ==
    ASSUME LogTrue, NEW k \in Connections, ConnectionTrue(k), k.replaying, NEW m \in Messages,
           m.type = "error" \/ (m.type = "subscribed" /\ m.cursor = k.page.cursor /\ m.cursor = Len(log))
    PROVE  LET j == [Send(k, m) EXCEPT !.replaying = FALSE, !.cursor = k.page.cursor, !.page = NoPage]
           IN  ConnectionTrue(j) /\ \A c : OwnerWire(c, k) => OwnerWire(c, j)
<1> DEFINE b == Send(k, m)
           j == [b EXCEPT !.replaying = FALSE, !.cursor = k.page.cursor, !.page = NoPage]
           w == k.wire
<1>1. /\ b \in Connections /\ b.wire = Append(w, m) /\ b.state = k.state /\ b.after = k.after
      /\ b.session = k.session
  BY SendIs
<1>2. k.page.cursor \in 0..Len(log) /\ k.page.cursor \in Nat /\ Len(log) \in Nat /\ w \in Seq(Messages)
      /\ k.session /\ k.after \in Int /\ ~(k.after >= 0) /\ WireTrue(w) /\ Joined(k)
  BY LogIs DEF ConnectionTrue, PageTrue, Connections
<1> HIDE DEF b
<1>3. j \in Connections
  BY <1>1, <1>2, NoPageIs DEF Connections
<1>4. /\ j.wire = Append(w, m) /\ j.state = k.state /\ j.after = k.after /\ j.session /\ ~j.replaying
      /\ j.cursor = k.page.cursor /\ j.page = NoPage
  BY <1>1, <1>2 DEF Connections
<1> HIDE DEF j
<1>5. MessageTrue(m) /\ m.type # "cursor" /\ Carries(m) = {}
  BY DEF MessageTrue, Carries
<1>6. m.type = "error" => Reaches(m) = 0
  BY DEF Reaches
<1>7. m.type = "subscribed" => Reaches(m) = k.page.cursor /\ Reaches(m) = Len(log)
  BY DEF Reaches
<1>8. w # <<>> => Complete(w[Len(w)], m)
  <2> SUFFICES ASSUME w # <<>>, Reaches(w[Len(w)]) > 0, Reaches(m) > 0
               PROVE  {n \in Readable : Reaches(w[Len(w)]) < n /\ n <= Reaches(m)} \subseteq Carries(m)
    BY DEF Complete
  <2>1. Reaches(w[Len(w)]) = k.page.cursor
    BY <1>2 DEF Joined
  <2>2. \A n \in Readable : n \in Nat
    BY LogIs DEF Readable
  <2> QED
    BY <1>2, <1>6, <1>7, <2>1, <2>2
<1>9. WireTrue(j.wire) /\ j.wire[Len(j.wire)] = m /\ j.wire # <<>>
  BY <1>2, <1>4, <1>5, <1>8, WireAppends, AppendIs
<1>10. Joined(j)
  BY <1>4, <1>6, <1>7, <1>9 DEF Joined
<1>11. ConnectionTrue(j)
  <2>1. k.state = "open"
    BY <1>2 DEF ConnectionTrue
  <2> QED
    BY <1>2, <1>3, <1>4, <1>9, <1>10, <2>1 DEF ConnectionTrue
<1>12. ASSUME NEW c, OwnerWire(c, k) PROVE OwnerWire(c, j)
  <2>1. m.type \in {"replay", "subscribed"} =>
             \A n \in 1..Reaches(m) : n \in Carries(m) \/ HasBefore(c, w, Len(w) + 1, n)
    BY <1>7, <1>12 DEF OwnerWire
  <2>2. \A i \in DOMAIN Append(w, m) :
             /\ Append(w, m)[i].type # "cursor"
             /\ Append(w, m)[i].type \in {"replay", "subscribed"} =>
                  \A n \in 1..Reaches(Append(w, m)[i]) :
                    n \in Carries(Append(w, m)[i]) \/ HasBefore(c, Append(w, m), i, n)
    BY <1>2, <1>5, <1>12, <2>1, OwnerWireAppends
  <2> QED
    BY <1>2, <1>4, <2>2, Zenon DEF OwnerWire
<1> QED
  BY <1>11, <1>12 DEF j, b

\* What holds of one connection's new end, and leaves the client alone, keeps the invariant.
LEMMA EndKeeps ==
    ASSUME SyncInv, UNCHANGED <<owner, log, revision, receipts, client>>, NEW s \in Sockets,
           socket[s].state # "none" \/ socket[s].replaying,
           NEW j, socket' = [socket EXCEPT ![s] = j], ConnectionTrue(j),
           Owned /\ OwnerWire(client, socket[s]) => OwnerWire(client, j)
    PROVE  SyncInv' /\ (OwnerInv => OwnerInv')
<1> DEFINE f == [socket EXCEPT ![s] = j]
<1>1. /\ client.on /\ ClientTrue(client) /\ Onward(client, client) /\ LogTrue /\ StateTrue(client, socket)
      /\ Owned /\ OwnerState(client, socket) => OwnerTrue(client) /\ OwnerWire(client, socket[s])
  BY OpenOn
<1>2. Owned /\ OwnerState(client, socket) =>
          OwnerTrue(client) /\ Onward(client, client) /\ OwnerWire(client, j)
  BY <1>1
<1>3. /\ StateTrue(client, f)
      /\ Owned /\ OwnerState(client, socket) => OwnerState(client, f)
  BY <1>1, <1>2, SocketChange
<1> HIDE DEF f
<1>4. socket' = f
  BY DEF f
<1> QED
  BY <1>3, <1>4, StepKeeps

LEMMA PageSentKeeps ==
    ASSUME SyncInv, NEW s \in Sockets, PageSent(s)
    PROVE  SyncInv' /\ (OwnerInv => OwnerInv')
<1> DEFINE k == socket[s]
           sent == k.page
           next == ReplayPage(sent.cursor)
           done == ~sent.more /\ next.events = {} /\ next.cursor = sent.cursor
<1>1. k.replaying /\ UNCHANGED <<owner, log, revision, receipts, client>>
  BY DEF PageSent
<1>2. LogTrue /\ k \in Connections /\ ConnectionTrue(k)
  BY <1>1, OpenOn
<1>3. /\ sent.cursor \in 0..Len(log) /\ sent.cursor \in Nat /\ Len(log) \in Nat
      /\ k.session /\ k.state = "open" /\ Joined(k) /\ ~(k.after >= 0)
  BY <1>1, <1>2, LogIs DEF ConnectionTrue, PageTrue, Connections
<1>4. CASE done
  <2> DEFINE m == [type |-> "subscribed", cursor |-> sent.cursor]
             j == [Send(k, m) EXCEPT !.replaying = FALSE, !.cursor = sent.cursor, !.page = NoPage]
  <2>1. socket' = [socket EXCEPT ![s] = j]
    BY <1>4 DEF PageSent
  <2>2. m \in Messages /\ m.type = "subscribed" /\ m.cursor = sent.cursor
    BY <1>3, MessageTypes
  <2>3. sent.cursor = Len(log)
    BY <1>2, <1>3, <1>4, ReplayPageIs
  <2> HIDE DEF m
  <2>4. ConnectionTrue(j) /\ \A c : OwnerWire(c, k) => OwnerWire(c, j)
    BY <1>1, <1>2, <2>2, <2>3, LiveIs
  <2> HIDE DEF j
  <2> QED
    BY <1>1, <2>1, <2>4, EndKeeps
<1>5. CASE ~done
  <2> DEFINE m == [type |-> "replay", page |-> next]
             j == [Send(k, m) EXCEPT !.cursor = sent.cursor, !.page = next]
  <2>1. socket' = [socket EXCEPT ![s] = j]
    BY <1>5 DEF PageSent
  <2>2. next \in Pages /\ m \in Messages
    BY <1>2, <1>3, ReplayPageIs, MessageTypes
  <2> HIDE DEF next, m
  <2>3. /\ j \in Connections /\ j.state = "open" /\ j.wire = Append(k.wire, m) /\ j.after < 0 /\ j.session
        /\ j.replaying /\ j.cursor = sent.cursor /\ j.page = next
    <3> DEFINE b == Send(k, m)
    <3>1. /\ b \in Connections /\ b.wire = Append(k.wire, m) /\ b.state = "open" /\ b.after = k.after
          /\ b.session = k.session /\ b.replaying = k.replaying
      BY <1>2, <1>3, <2>2, SendIs
    <3>2. k.after < 0
      BY <1>2, <1>3 DEF Connections
    <3>0. j = [b EXCEPT !.cursor = sent.cursor, !.page = next]
      OBVIOUS
    <3> DEFINE p == sent.cursor
    <3>5. p \in Nat
      BY <1>3
    <3> HIDE DEF b, k, p, j
    <3>6. j = [b EXCEPT !.cursor = p, !.page = next]
      BY <3>0 DEF p
    <3>3. j \in Connections
      BY <2>2, <3>1, <3>5, <3>6 DEF Connections
    <3>4. /\ j.state = b.state /\ j.wire = b.wire /\ j.after = b.after /\ j.session = b.session
          /\ j.replaying = b.replaying /\ j.cursor = p /\ j.page = next
      BY <3>1, <3>6 DEF Connections
    <3> QED
      BY <1>1, <1>3, <3>1, <3>2, <3>3, <3>4 DEF p
  <2> HIDE DEF j
  <2>4. k.wire # <<>> /\ Reaches(k.wire[Len(k.wire)]) > 0 => Reaches(k.wire[Len(k.wire)]) = sent.cursor
    BY <1>1, <1>3 DEF Joined
  <2>5. /\ ConnectionTrue(j)
        /\ \A c : owner /\ OwnerWire(c, k) /\ Ahead(c, k, sent.cursor) => OwnerWire(c, j)
    <3>1. PageSends
      BY <1>2, PageIsSent
    <3> HIDE DEF k
    <3> QED
      BY <1>2, <1>3, <2>3, <2>4, <3>1, Zenon DEF PageSends, m, next
  <2>6. OwnerWire(client, k) => Ahead(client, k, sent.cursor)
    BY <1>1 DEF OwnerWire, Ahead
  <2>7. Owned /\ OwnerWire(client, k) => OwnerWire(client, j)
    BY <2>5, <2>6 DEF Owned
  <2> QED
    BY <1>1, <2>1, <2>5, <2>7, EndKeeps
<1> QED
  BY <1>4, <1>5

LEMMA ReplayFailsKeeps ==
    ASSUME SyncInv, NEW s \in Sockets, ReplayFails(s)
    PROVE  SyncInv' /\ (OwnerInv => OwnerInv')
<1> DEFINE k == socket[s]
           m == [type |-> "error"]
           j == [Send(k, m) EXCEPT !.replaying = FALSE, !.cursor = k.page.cursor, !.page = NoPage]
<1>1. k.replaying /\ UNCHANGED <<owner, log, revision, receipts, client>> /\ socket' = [socket EXCEPT ![s] = j]
  BY DEF ReplayFails
<1>2. LogTrue /\ k \in Connections /\ ConnectionTrue(k)
  BY <1>1, OpenOn
<1>3. m \in Messages /\ m.type = "error"
  BY MessageTypes
<1> HIDE DEF m
<1>4. ConnectionTrue(j) /\ \A c : OwnerWire(c, k) => OwnerWire(c, j)
  BY <1>1, <1>2, <1>3, LiveIs
<1> HIDE DEF j
<1> QED
  BY <1>1, <1>4, EndKeeps

LEMMA SubscribeRefusedKeeps ==
    ASSUME SyncInv, NEW s \in Sockets, SubscribeRefused(s)
    PROVE  SyncInv' /\ (OwnerInv => OwnerInv')
<1> DEFINE k == socket[s]
           m == [type |-> "error"]
           b == Send(k, m)
           j == [b EXCEPT !.after = -1]
<1>1. /\ k.state = "open" /\ k.after >= 0 /\ UNCHANGED <<owner, log, revision, receipts, client>>
      /\ socket' = [socket EXCEPT ![s] = j]
  BY DEF SubscribeRefused
<1>2. LogTrue /\ k \in Connections /\ ConnectionTrue(k)
  BY <1>1, OpenOn
<1>3. m \in Messages /\ m.type = "error" /\ MessageTrue(m) /\ Reaches(m) = 0
  BY MessageTypes DEF MessageTrue, Reaches
<1> HIDE DEF m
<1>4. /\ b \in Connections /\ b.wire = Append(k.wire, m) /\ b.state = "open" /\ b.session = k.session
      /\ b.replaying = k.replaying /\ b.cursor = k.cursor
  BY <1>1, <1>2, <1>3, SendIs
<1>5. k.wire = <<>> /\ ~k.session /\ ~k.replaying /\ k.cursor <= Len(log) /\ WireTrue(k.wire)
      /\ k.wire \in Seq(Messages)
  BY <1>1, <1>2 DEF ConnectionTrue, Connections
<1> HIDE DEF b
<1>6. j \in Connections /\ j.after = -1 /\ j.wire = Append(k.wire, m) /\ j.state = "open" /\ j.session = k.session
      /\ j.replaying = k.replaying /\ j.cursor = k.cursor
  BY <1>4 DEF Connections
<1> HIDE DEF j
<1>7. WireTrue(j.wire)
  BY <1>3, <1>5, <1>6, WireAppends
<1>8. ConnectionTrue(j)
  BY <1>5, <1>6, <1>7 DEF ConnectionTrue, Joined
<1>9. OwnerWire(client, j)
  <2>1. DOMAIN j.wire = {1} /\ j.wire[1] = m
    BY <1>3, <1>5, <1>6
  <2> QED
    BY <1>3, <1>5, <1>6, <2>1 DEF OwnerWire
<1> QED
  BY <1>1, <1>8, <1>9, EndKeeps

\* What was sent still arrives, then the close.
LEMMA ClosingIs ==
    ASSUME LogTrue, NEW v \in Seq(Messages), WireTrue(v)
    PROVE  /\ ConnectionTrue(Closing(v)) /\ Closing(v).state = "closing"
           /\ \A c, k : (\A i \in DOMAIN v : v[i] = k.wire[i] /\ i \in DOMAIN k.wire) /\ OwnerWire(c, k)
                       => OwnerWire(c, Closing(v))
<1> DEFINE m == [type |-> "close"]
           w == Append(v, m)
           j == Closing(v)
<1>1. m \in Messages /\ m.type = "close" /\ MessageTrue(m) /\ Reaches(m) = 0
  BY MessageTypes DEF MessageTrue, Reaches
<1>2. /\ NoConnection \in Connections /\ NoConnection.after = -1 /\ ~NoConnection.replaying
      /\ ~NoConnection.session /\ NoConnection.cursor = 0
  BY NoConnectionIs DEF NoConnection
<1> HIDE DEF m
<1>3. v # <<>> => Complete(v[Len(v)], m)
  BY <1>1 DEF Complete
<1>4. WireTrue(w) /\ w \in Seq(Messages) /\ DOMAIN w = 1..(Len(v) + 1) /\ Len(v) \in Nat /\ DOMAIN v = 1..Len(v)
      /\ w[Len(v) + 1] = m /\ \A i \in 1..Len(v) : w[i] = v[i]
  BY <1>1, <1>3, WireAppends, AppendIs
<1>5. j = [NoConnection EXCEPT !.state = "closing", !.wire = w]
  BY DEF Closing, m
<1> HIDE DEF w, j
<1>6. /\ j \in Connections /\ j.state = "closing" /\ j.wire = w /\ j.after = -1 /\ ~j.replaying
      /\ ~j.session /\ j.cursor = 0
  BY <1>2, <1>4, <1>5 DEF Connections
<1>7. ConnectionTrue(j)
  BY <1>4, <1>6, LogIs DEF ConnectionTrue, Joined
<1>8. ASSUME NEW c, NEW k, \A i \in DOMAIN v : v[i] = k.wire[i] /\ i \in DOMAIN k.wire, OwnerWire(c, k)
      PROVE  OwnerWire(c, j)
  <2>1. ASSUME NEW i \in DOMAIN w
        PROVE  /\ w[i].type # "cursor"
               /\ w[i].type \in {"replay", "subscribed"} =>
                    \A n \in 1..Reaches(w[i]) : n \in Carries(w[i]) \/ HasBefore(c, w, i, n)
    <3>1. CASE i = Len(v) + 1
      BY <1>1, <1>4, <3>1
    <3>2. CASE i # Len(v) + 1
      <4>1. i \in DOMAIN v /\ w[i] = k.wire[i] /\ i \in DOMAIN k.wire
        BY <1>4, <1>8, <3>2
      <4>2. \A l \in 1..(i - 1) : w[l] = k.wire[l]
        BY <1>4, <1>8, <4>1
      <4>3. \A n : HasBefore(c, k.wire, i, n) => HasBefore(c, w, i, n)
        BY <4>2 DEF HasBefore
      <4> QED
        BY <1>8, <4>1, <4>3 DEF OwnerWire
    <3> QED
      BY <3>1, <3>2
  <2> QED
    BY <1>6, <2>1 DEF OwnerWire
<1> QED
  BY <1>6, <1>7, <1>8 DEF j

LEMMA DropKeeps ==
    ASSUME SyncInv, NEW s \in Sockets, NEW arrives, Drop(s, arrives)
    PROVE  SyncInv' /\ (OwnerInv => OwnerInv')
<1> DEFINE k == socket[s]
           v == SubSeq(k.wire, 1, arrives)
           m == [type |-> "close"]
           j == Closing(v)
<1>1. /\ k.state = "open" /\ arrives \in 0..Len(k.wire) /\ UNCHANGED <<owner, log, revision, receipts, client>>
      /\ socket' = [socket EXCEPT ![s] = j]
  BY DEF Drop
<1>2. LogTrue /\ k \in Connections /\ ConnectionTrue(k)
  BY <1>1, OpenOn
<1>3. k.wire \in Seq(Messages) /\ WireTrue(k.wire)
  BY <1>2 DEF Connections, ConnectionTrue
<1>4. /\ v \in Seq(Messages) /\ WireTrue(v) /\ Len(v) = arrives
      /\ \A i \in 1..arrives : v[i] = k.wire[i] /\ i \in DOMAIN k.wire
  BY <1>1, <1>3, WirePrefix
<1> HIDE DEF v
<1>5. ConnectionTrue(j) /\ \A c : (\A i \in DOMAIN v : v[i] = k.wire[i] /\ i \in DOMAIN k.wire) /\ OwnerWire(c, k)
                                  => OwnerWire(c, j)
  BY <1>2, <1>4, ClosingIs
<1>6. DOMAIN v = 1..arrives
  BY <1>4
<1>7. OwnerWire(client, k) => OwnerWire(client, j)
  BY <1>4, <1>5, <1>6
<1> HIDE DEF j
<1> QED
  BY <1>1, <1>5, <1>7, EndKeeps

\* The head of the wire has been heard: d is the client after it.
LEMMA TailIs ==
    ASSUME LogTrue, NEW k \in Connections, ConnectionTrue(k), k.wire # <<>>,
           NEW c, NEW d
    PROVE  LET j == [k EXCEPT !.wire = Tail(@)]
               m == Head(k.wire)
           IN  /\ m \in Messages /\ MessageTrue(m) /\ ConnectionTrue(j)
               /\ OwnerWire(c, k) => InTurn(c, m)
               /\ OwnerWire(c, k) /\ Onward(c, d)
                    /\ (m.type = "replay" => \A n \in 1..m.page.cursor : Reached(d, n)) => OwnerWire(d, j)
<1> DEFINE w == k.wire
           v == Tail(w)
           m == Head(w)
           j == [k EXCEPT !.wire = Tail(@)]
<1>1. w \in Seq(Messages) /\ WireTrue(w) /\ w # <<>>
  BY DEF Connections, ConnectionTrue
<1>2. m = w[1] /\ 1 \in DOMAIN w /\ m \in Messages
  BY <1>1
<1>3. /\ v \in Seq(Messages) /\ WireTrue(v) /\ Len(v) = Len(w) - 1 /\ Len(w) \in Nat
      /\ DOMAIN v = 1..(Len(w) - 1) /\ \A i \in DOMAIN v : v[i] = w[i + 1] /\ i + 1 \in DOMAIN w
  BY <1>1, WireTail
<1>4. v # <<>> => Len(v) \in DOMAIN v /\ v[Len(v)] = w[Len(w)]
  <2> SUFFICES ASSUME v # <<>> PROVE Len(v) \in DOMAIN v
    BY <1>3
  <2> QED
    BY <1>3
<1> HIDE DEF v, m
<1>5. j = [k EXCEPT !.wire = v]
  BY DEF v
<1> HIDE DEF j
<1>6. /\ j \in Connections /\ j.wire = v /\ j.state = k.state /\ j.after = k.after /\ j.session = k.session
      /\ j.replaying = k.replaying /\ j.cursor = k.cursor /\ j.page = k.page
  BY <1>3, <1>5 DEF Connections
<1>7. k.state # "none" /\ ~(k.after >= 0)
  BY <1>1 DEF ConnectionTrue
<1>8. Joined(j)
  BY <1>1, <1>4, <1>6 DEF ConnectionTrue, Joined
<1>9. ConnectionTrue(j)
  BY <1>3, <1>6, <1>7, <1>8 DEF ConnectionTrue
<1>10. MessageTrue(m)
  BY <1>1, <1>2 DEF WireTrue
<1>11. ASSUME OwnerWire(c, k) PROVE InTurn(c, m)
  <2>1. \A n : HasBefore(c, w, 1, n) => Reached(c, n)
    <3>1. 1..(1 - 1) = {}
      OBVIOUS
    <3> QED
      BY <3>1 DEF HasBefore
  <2> QED
    BY <1>2, <1>11, <2>1 DEF OwnerWire, InTurn
<1>12. ASSUME OwnerWire(c, k), Onward(c, d), m.type = "replay" => \A n \in 1..m.page.cursor : Reached(d, n)
       PROVE  OwnerWire(d, j)
  <2>1. ASSUME NEW i \in 1..(Len(v) + 1), NEW n \in Nat \ {0}, HasBefore(c, w, i + 1, n)
        PROVE  HasBefore(d, v, i, n)
    <3>1. CASE Reached(c, n)
      BY <1>12, <3>1 DEF HasBefore, Onward
    <3>2. CASE \E l \in 1..((i + 1) - 1) : w[l].type = "replay" /\ n <= w[l].page.cursor
      <4>1. PICK l \in 1..i : w[l].type = "replay" /\ n <= w[l].page.cursor
        BY <1>3, <3>2
      <4>2. CASE l = 1
        <5>1. m.type = "replay" /\ m.page.cursor \in Int /\ n <= m.page.cursor
          BY <1>2, <4>1, <4>2 DEF Messages, Pages
        <5>2. n \in 1..m.page.cursor
          BY <5>1
        <5> QED
          BY <1>12, <5>1, <5>2 DEF HasBefore
      <4>3. CASE l # 1
        <5>1. l - 1 \in 1..(i - 1) /\ l - 1 \in DOMAIN v /\ v[l - 1] = w[l]
          BY <1>3, <4>1, <4>3
        <5> QED
          BY <4>1, <5>1 DEF HasBefore
      <4> QED
        BY <4>2, <4>3
    <3> QED
      BY <2>1, <3>1, <3>2 DEF HasBefore
  <2>2. \A p : 1..p \subseteq Nat \ {0}
    OBVIOUS
  <2>3. ASSUME j.replaying, NEW n \in 1..j.page.cursor PROVE HasBefore(d, j.wire, Len(j.wire) + 1, n)
    <3>1. HasBefore(c, w, Len(w) + 1, n)
      BY <1>6, <1>12, <2>3 DEF OwnerWire
    <3>2. Len(w) + 1 = (Len(v) + 1) + 1 /\ Len(v) + 1 \in 1..(Len(v) + 1) /\ n \in Nat \ {0}
      <4>1. Len(v) \in Nat
        BY <1>3
      <4> QED
        BY <1>3, <2>2, <2>3, <4>1
    <3> QED
      BY <1>6, <2>1, <3>1, <3>2
  <2>4. ASSUME NEW i \in DOMAIN v
        PROVE  /\ v[i].type # "cursor"
               /\ v[i].type \in {"replay", "subscribed"} =>
                    \A n \in 1..Reaches(v[i]) : n \in Carries(v[i]) \/ HasBefore(d, v, i, n)
    <3>1. v[i] = w[i + 1] /\ i + 1 \in DOMAIN w /\ i \in 1..(Len(v) + 1)
      BY <1>3
    <3> QED
      BY <1>12, <2>1, <2>2, <3>1 DEF OwnerWire
  <2> QED
    BY <1>6, <1>7, <2>3, <2>4 DEF OwnerWire
<1> QED
  BY <1>2, <1>9, <1>10, <1>11, <1>12 DEF j, m

LEMMA ReceiveKeeps ==
    ASSUME SyncInv, NEW s \in Sockets, Receive(s)
    PROVE  SyncInv' /\ (OwnerInv => OwnerInv')
<1> DEFINE k == socket[s]
           m == Head(k.wire)
           seen == OnMessage(client, m)
           j == [k EXCEPT !.wire = Tail(@)]
<1>1. k.wire # <<>> /\ UNCHANGED <<owner, log, revision, receipts>>
  BY DEF Receive
<1>2. /\ client.on /\ ClientTrue(client) /\ LogTrue /\ StateTrue(client, socket)
      /\ k \in Connections /\ ConnectionTrue(k)
      /\ Owned /\ OwnerState(client, socket) => owner /\ OwnerTrue(client) /\ OwnerWire(client, k)
  BY <1>1, OpenOn
<1>3. /\ m \in Messages /\ MessageTrue(m) /\ ConnectionTrue(j)
      /\ OwnerWire(client, k) => InTurn(client, m)
      /\ OwnerWire(client, k) /\ Onward(client, seen)
           /\ (m.type = "replay" => \A n \in 1..m.page.cursor : Reached(seen, n)) => OwnerWire(seen, j)
  BY <1>1, <1>2, TailIs
<1> HIDE DEF k, m
<1>4. /\ ClientTrue(seen) /\ seen.on
      /\ owner /\ OwnerTrue(client) /\ InTurn(client, m) =>
           /\ OwnerTrue(seen) /\ Onward(client, seen)
           /\ m.type = "replay" => \A n \in 1..m.page.cursor : Reached(seen, n)
  BY <1>2, <1>3, MessageLeads
<1> HIDE DEF seen, j
<1>5. CASE m.type = "close"
  <2> DEFINE d == [seen EXCEPT !.socket = IF @ = s THEN NoSocket ELSE @]
             f == [socket EXCEPT ![s] = NoConnection]
  <2>1. socket' = f /\ client' = d
    BY <1>5 DEF Receive, m, seen, k
  <2>2. Leads(seen, d)
    <3> DEFINE x == IF seen.socket = s THEN NoSocket ELSE seen.socket
    <3>1. seen \in Clients /\ seen.phase # "idle" /\ x \in Sockets \cup {NoSocket}
      BY <1>4 DEF ClientTrue, Clients
    <3>2. d = [seen EXCEPT !.socket = x]
      OBVIOUS
    <3> HIDE DEF x, d
    <3>3. /\ d \in Clients /\ d.on = seen.on /\ d.phase = seen.phase /\ d.cursor = seen.cursor
          /\ d.events = seen.events /\ d.rev = seen.rev /\ d.refreshing = seen.refreshing /\ d.head = seen.head
          /\ d.buffer = seen.buffer /\ d.recs = seen.recs /\ d.opening = seen.opening
      BY <3>1, <3>2 DEF Clients
    <3> QED
      BY <1>4, <3>1, <3>3, SameLeads
  <2> HIDE DEF d
  <2>3. ConnectionTrue(NoConnection) /\ OwnerWire(d, NoConnection)
    BY <1>2, NoConnectionIs
  <2>4. Owned /\ OwnerState(client, socket) => OwnerTrue(d) /\ Onward(client, d) /\ OwnerWire(d, NoConnection)
    BY <1>2, <1>3, <1>4, <2>2, <2>3 DEF Leads, Onward
  <2>5. /\ StateTrue(d, f)
        /\ Owned /\ OwnerState(client, socket) => OwnerState(d, f)
    BY <1>2, <2>2, <2>3, <2>4, SocketChange DEF Leads
  <2> HIDE DEF f
  <2> QED
    BY <1>1, <2>1, <2>5, StepKeeps
<1>6. CASE m.type # "close"
  <2> DEFINE f == [socket EXCEPT ![s] = j]
  <2>1. socket' = f /\ client' = seen
    BY <1>6 DEF Receive, m, seen, k, j
  <2>2. Owned /\ OwnerState(client, socket) => OwnerTrue(seen) /\ Onward(client, seen) /\ OwnerWire(seen, j)
    BY <1>2, <1>3, <1>4
  <2>3. /\ StateTrue(seen, f)
        /\ Owned /\ OwnerState(client, socket) => OwnerState(seen, f)
    BY <1>2, <1>3, <1>4, <2>2, SocketChange
  <2> HIDE DEF f
  <2> QED
    BY <1>1, <2>1, <2>3, StepKeeps
<1> QED
  BY <1>5, <1>6

-----------------------------------------------------------------------------
(* The actions that leave the log alone: the client's end.                 *)

\* The client goes on without touching a socket.
LEMMA ClientKeeps ==
    ASSUME SyncInv, UNCHANGED <<owner, log, revision, socket>>, receipts' \subseteq receipts,
           NEW d, client' = d, ClientTrue(d), d.on \/ d = client,
           Owned /\ OwnerTrue(client) => OwnerTrue(d) /\ Onward(client, d)
    PROVE  SyncInv' /\ (OwnerInv => OwnerInv')
<1> DEFINE f == socket
<1>1. StateTrue(client, socket) /\ socket' = f
  BY DEF SyncInv
<1>2. /\ StateTrue(d, f)
      /\ Owned /\ OwnerState(client, socket) => OwnerState(d, f)
  BY <1>1, ClientOnly DEF OwnerState
<1> HIDE DEF f
<1> QED
  BY <1>1, <1>2, StepKeeps

LEMMA AnsweredTrue ==
    ASSUME LogTrue, NEW c, ClientTrue(c), c.on, NEW i \in DOMAIN c.recs, NEW p \in Pages,
           PageTrue(p, c.recs[i].before)
    PROVE  LET d == [c EXCEPT !.recs[i].page = p]
           IN  Leads(c, d)
<1> DEFINE r == [c.recs[i] EXCEPT !.page = p]
           rs == [c.recs EXCEPT ![i] = r]
           d == [c EXCEPT !.recs = rs]
<1>0. c \in Clients /\ c.recs \in Seq(Recs) /\ c.phase # "idle" /\ c.recs[i] \in Recs
  BY DEF ClientTrue, Clients
<1>1. /\ r \in Recs /\ r.stale = c.recs[i].stale /\ r.replacing = c.recs[i].replacing
      /\ r.replacement = c.recs[i].replacement /\ r.position = c.recs[i].position
      /\ r.before = c.recs[i].before /\ r.page = p
  BY <1>0 DEF Recs
<1> HIDE DEF r
<1>2. rs \in Seq(Recs) /\ DOMAIN rs = DOMAIN c.recs /\ rs[i] = r /\ \A j \in DOMAIN c.recs : j # i => rs[j] = c.recs[j]
  BY <1>0, <1>1
<1>3. d = [c EXCEPT !.recs[i].page = p]
  BY <1>0 DEF r, Clients
<1> HIDE DEF rs
<1>4. /\ d \in Clients /\ d.on = c.on /\ d.phase = c.phase /\ d.cursor = c.cursor /\ d.events = c.events
      /\ d.rev = c.rev /\ d.refreshing = c.refreshing /\ d.head = c.head /\ d.buffer = c.buffer
      /\ d.recs = rs /\ d.opening = c.opening
  BY <1>0, <1>2 DEF Clients
<1> HIDE DEF d
<1>5. \A j \in DOMAIN c.recs : RecoveryTrue(d, c.recs[j])
  BY <1>4 DEF ClientTrue, RecoveryTrue
<1>6. RecoveryTrue(d, r)
  BY <1>1, <1>5 DEF RecoveryTrue
<1>7. \A j \in DOMAIN d.recs : RecoveryTrue(d, d.recs[j])
  BY <1>2, <1>4, <1>5, <1>6
<1>8. ClientTrue(d)
  BY <1>4, <1>7 DEF ClientTrue
<1>9. Onward(c, d)
  BY <1>4 DEF Onward, Reached
<1>10. ASSUME OwnerTrue(c) PROVE OwnerTrue(d)
  <2>1. \A j \in DOMAIN c.recs : OwnerRecovery(d, c.recs[j])
    BY <1>4, <1>10 DEF OwnerTrue, OwnerRecovery
  <2>2. OwnerRecovery(d, r)
    BY <1>1, <2>1 DEF OwnerRecovery
  <2>3. \A j \in DOMAIN d.recs : OwnerRecovery(d, d.recs[j])
    BY <1>2, <1>4, <2>1, <2>2
  <2>4. \A j, k \in DOMAIN c.recs : j # k /\ c.recs[j].replacing /\ ~c.recs[j].stale => c.recs[k].stale
    BY <1>10 DEF OwnerTrue
  <2>5. \A j \in DOMAIN c.recs : rs[j].stale = c.recs[j].stale /\ rs[j].replacing = c.recs[j].replacing
    BY <1>1, <1>2
  <2>6. \A j, k \in DOMAIN d.recs : j # k /\ d.recs[j].replacing /\ ~d.recs[j].stale => d.recs[k].stale
    BY <1>2, <1>4, <2>4, <2>5
  <2>7. \A j \in DOMAIN d.opening : Reached(d, d.opening[j])
    BY <1>4, <1>10 DEF OwnerTrue, Reached
  <2> QED
    BY <1>4, <1>10, <2>3, <2>6, <2>7 DEF OwnerTrue
<1> QED
  BY <1>3, <1>4, <1>8, <1>9, <1>10 DEF Leads

LEMMA ReplayAnsweredKeeps ==
    ASSUME SyncInv, NEW i, ReplayAnswered(i)
    PROVE  SyncInv' /\ (OwnerInv => OwnerInv')
<1> DEFINE p == ReplayPage(client.recs[i].before)
           d == [client EXCEPT !.recs[i].page = p]
<1>1. i \in DOMAIN client.recs /\ client' = d /\ UNCHANGED <<owner, log, revision, socket, receipts>>
  BY DEF ReplayAnswered
<1>2. LogTrue /\ ClientTrue(client) /\ client.on
  BY <1>1, Selected DEF SyncInv, StateTrue
<1>3. client.recs[i].before \in 0..Len(log)
  <2>1. client.recs[i] \in Recs
    BY <1>1, <1>2 DEF ClientTrue, Clients
  <2> QED
    BY <1>1, <1>2, <2>1, LogIs DEF ClientTrue, RecoveryTrue, Recs
<1>4. p \in Pages /\ PageTrue(p, client.recs[i].before)
  BY <1>2, <1>3, ReplayPageIs
<1> HIDE DEF p
<1>5. Leads(client, d)
  BY <1>1, <1>2, <1>4, AnsweredTrue
<1> HIDE DEF d
<1> QED
  BY <1>1, <1>5, ClientKeeps DEF Leads, Owned

LEMMA ReplayArrivesKeeps ==
    ASSUME SyncInv, NEW i, ReplayArrives(i)
    PROVE  SyncInv' /\ (OwnerInv => OwnerInv')
<1> DEFINE r == client.recs[i]
           c == [client EXCEPT !.recs = RemoveAt(@, i)]
           d == ResumeRecover(c, r)
<1>1. i \in DOMAIN client.recs /\ r.page # NoPage /\ client' = d /\ UNCHANGED <<owner, log, revision, socket, receipts>>
  BY DEF ReplayArrives
<1>2. LogTrue /\ ClientTrue(client) /\ client.on
  BY <1>1, Selected DEF SyncInv, StateTrue
<1>3. /\ ClientTrue(c) /\ c.on /\ r \in Recs /\ RecoveryTrue(c, r)
      /\ OwnerTrue(client) => OwnerMay(c, r) /\ Onward(client, c)
  BY <1>1, <1>2, RemoveTrue
<1>4. PageTrue(r.page, r.before)
  BY <1>1, <1>3 DEF RecoveryTrue
<1> HIDE DEF c, r
<1>5. /\ ClientTrue(d) /\ d.on
      /\ owner /\ OwnerMay(c, r) => OwnerTrue(d) /\ Onward(c, d)
  BY <1>2, <1>3, <1>4, ResumeLeads
<1> HIDE DEF d
<1>6. Owned /\ OwnerTrue(client) => OwnerTrue(d) /\ Onward(client, d)
  BY <1>3, <1>5 DEF Owned, Onward
<1> QED
  BY <1>1, <1>5, <1>6, ClientKeeps

LEMMA ReplayLostKeeps ==
    ASSUME SyncInv, NEW i, ReplayLost(i)
    PROVE  SyncInv' /\ (OwnerInv => OwnerInv')
<1> DEFINE r == client.recs[i]
           c == [client EXCEPT !.recs = RemoveAt(@, i)]
           d == IF r.stale THEN ContinueWith(c, r.then) ELSE RecoverThrows(c, r.then)
<1>1. i \in DOMAIN client.recs /\ client' = d /\ UNCHANGED <<owner, log, revision, socket, receipts>>
  BY DEF ReplayLost
<1>2. LogTrue /\ ClientTrue(client) /\ client.on
  BY <1>1, Selected DEF SyncInv, StateTrue
<1>3. /\ ClientTrue(c) /\ c.on /\ r \in Recs
      /\ OwnerTrue(client) => OwnerTrue(c) /\ Onward(client, c)
  BY <1>1, <1>2, RemoveTrue DEF OwnerMay
<1> HIDE DEF c, r
<1>4. Leads(c, d)
  <2>1. r.then \in Thens
    BY <1>3 DEF Recs, Thens
  <2> QED
    BY <1>2, <1>3, <2>1, ContinueLeads, BlockedLeads
<1> HIDE DEF d
<1>5. Owned /\ OwnerTrue(client) => OwnerTrue(d) /\ Onward(client, d)
  BY <1>3, <1>4 DEF Owned, Onward, Leads
<1> QED
  BY <1>1, <1>4, <1>5, ClientKeeps DEF Leads

LEMMA ReceiptArrivesKeeps ==
    ASSUME SyncInv, NEW r, ReceiptArrives(r)
    PROVE  SyncInv' /\ (OwnerInv => OwnerInv')
<1>1. /\ r \in receipts /\ receipts' \subseteq receipts /\ UNCHANGED <<owner, log, revision, socket>>
      /\ client' = IF client.on THEN Invalidate(client, r.rev, r.seq, "none") ELSE client
  BY DEF ReceiptArrives
<1>2. LogTrue /\ ClientTrue(client) /\ r.rev \in 0..revision /\ r.seq \in 0..Len(log) /\ "none" \in Thens
  BY <1>1 DEF SyncInv, StateTrue, Thens
<1>3. CASE client.on
  <2> DEFINE d == Invalidate(client, r.rev, r.seq, "none")
  <2>1. Leads(client, d)
    BY <1>2, <1>3, InvalidateLeads
  <2>2. client' = d
    BY <1>1, <1>3
  <2> HIDE DEF d
  <2> QED
    BY <1>1, <2>1, <2>2, ClientKeeps DEF Leads, Owned
<1>4. CASE ~client.on
  <2> DEFINE d == client
  <2>1. client' = d /\ ClientTrue(d) /\ d = client /\ Onward(client, d)
    BY <1>1, <1>2, <1>4 DEF Onward
  <2> HIDE DEF d
  <2> QED
    BY <1>1, <2>1, ClientKeeps
<1> QED
  BY <1>3, <1>4

\* A ticket has been answered.
LEMMA OpeningLeads ==
    ASSUME LogTrue, NEW c, ClientTrue(c), c.on, NEW i \in DOMAIN c.opening
    PROVE  Leads(c, [c EXCEPT !.opening = RemoveAt(@, i)]) /\ c.opening[i] \in 0..Len(log)
<1> DEFINE os == RemoveAt(c.opening, i)
           d == [c EXCEPT !.opening = os]
<1>0. c \in Clients /\ c.opening \in Seq(Nat) /\ c.phase # "idle"
  BY DEF ClientTrue, Clients
<1>1. /\ os \in Seq(Nat)
      /\ \A j \in DOMAIN os : Past(i, j) \in DOMAIN c.opening /\ os[j] = c.opening[Past(i, j)]
  BY <1>0, RemoveAtIs
<1> HIDE DEF os
<1>2. /\ d \in Clients /\ d.on = c.on /\ d.phase = c.phase /\ d.cursor = c.cursor /\ d.events = c.events
      /\ d.rev = c.rev /\ d.refreshing = c.refreshing /\ d.head = c.head /\ d.buffer = c.buffer
      /\ d.recs = c.recs /\ d.opening = os
  BY <1>0, <1>1 DEF Clients
<1>3. d = [c EXCEPT !.opening = RemoveAt(@, i)]
  BY DEF os
<1> HIDE DEF d
<1>4. \A j \in DOMAIN d.recs : RecoveryTrue(d, d.recs[j])
  BY <1>2 DEF ClientTrue, RecoveryTrue
<1>5. \A j \in DOMAIN d.opening : d.opening[j] <= Len(log)
  BY <1>1, <1>2 DEF ClientTrue
<1>6. ClientTrue(d)
  BY <1>2, <1>4, <1>5 DEF ClientTrue
<1>7. Onward(c, d)
  BY <1>2 DEF Onward, Reached
<1>8. ASSUME OwnerTrue(c) PROVE OwnerTrue(d)
  <2>1. \A j \in DOMAIN d.recs : OwnerRecovery(d, d.recs[j])
    BY <1>2, <1>8 DEF OwnerTrue, OwnerRecovery
  <2>2. \A p : Reached(c, p) <=> Reached(d, p)
    BY <1>2 DEF Reached
  <2>3. \A j \in DOMAIN d.opening : Reached(d, d.opening[j])
    BY <1>1, <1>2, <1>8, <2>2 DEF OwnerTrue
  <2> QED
    BY <1>2, <1>8, <2>1, <2>3 DEF OwnerTrue
<1>9. c.opening[i] \in 0..Len(log)
  BY <1>0, LogIs DEF ClientTrue
<1> QED
  BY <1>2, <1>3, <1>6, <1>7, <1>8, <1>9 DEF Leads

LEMMA TicketFailsKeeps ==
    ASSUME SyncInv, NEW i, TicketFails(i)
    PROVE  SyncInv' /\ (OwnerInv => OwnerInv')
<1> DEFINE c == [client EXCEPT !.opening = RemoveAt(@, i)]
           d == [client EXCEPT !.opening = RemoveAt(@, i), !.phase = "blocked"]
<1>1. i \in DOMAIN client.opening /\ client' = d /\ UNCHANGED <<owner, log, revision, socket, receipts>>
  BY DEF TicketFails
<1>2. LogTrue /\ ClientTrue(client) /\ client.on
  BY <1>1, Selected DEF SyncInv, StateTrue
<1>3. Leads(client, c)
  BY <1>1, <1>2, OpeningLeads
<1>4. d = [c EXCEPT !.phase = "blocked"]
  OBVIOUS
<1> HIDE DEF c, d
<1>5. c \in Clients
  BY <1>3 DEF Leads, ClientTrue
<1>6. /\ d \in Clients /\ d.on = c.on /\ d.phase = "blocked" /\ d.cursor = c.cursor /\ d.events = c.events
      /\ d.rev = c.rev /\ d.refreshing = c.refreshing /\ d.head = c.head /\ d.buffer = c.buffer
      /\ d.recs = c.recs /\ d.opening = c.opening
  BY <1>4, <1>5 DEF Clients, Phases
<1>7. Leads(c, d)
  BY <1>3, <1>6, SameLeads DEF Leads
<1>8. Leads(client, d)
  BY <1>3, <1>7, LeadsOn
<1> QED
  BY <1>1, <1>8, ClientKeeps DEF Leads, Owned

LEMMA SocketOpensKeeps ==
    ASSUME SyncInv, NEW i, NEW s \in Sockets, SocketOpens(i, s)
    PROVE  SyncInv' /\ (OwnerInv => OwnerInv')
<1> DEFINE c == [client EXCEPT !.opening = RemoveAt(@, i)]
           b == [client EXCEPT !.opening = RemoveAt(@, i), !.socket = s]
           d == OnLive(b)
           p == client.opening[i]
           k == [NoConnection EXCEPT !.state = "open", !.after = p]
           f == [socket EXCEPT ![s] = k]
<1>1. /\ i \in DOMAIN client.opening /\ client' = d /\ socket' = f
      /\ UNCHANGED <<owner, log, revision, receipts>>
  BY DEF SocketOpens
<1>2. LogTrue /\ ClientTrue(client) /\ client.on /\ StateTrue(client, socket)
  BY <1>1, Selected DEF SyncInv, StateTrue
<1>3. Leads(client, c) /\ p \in 0..Len(log)
  BY <1>1, <1>2, OpeningLeads
<1>4. b = [c EXCEPT !.socket = s]
  OBVIOUS
<1>5. c \in Clients /\ c.on /\ c.phase # "idle"
  BY <1>3 DEF Leads, ClientTrue
<1> HIDE DEF c, b
<1>6. /\ b \in Clients /\ b.on = c.on /\ b.phase = c.phase /\ b.cursor = c.cursor /\ b.events = c.events
      /\ b.rev = c.rev /\ b.refreshing = c.refreshing /\ b.head = c.head /\ b.buffer = c.buffer
      /\ b.recs = c.recs /\ b.opening = c.opening
  BY <1>4, <1>5 DEF Clients
<1>7. /\ d \in Clients /\ d.on = c.on /\ d.phase # "idle" /\ d.cursor = c.cursor /\ d.events = c.events
      /\ d.rev = c.rev /\ d.refreshing = c.refreshing /\ d.head = c.head /\ d.buffer = c.buffer
      /\ d.recs = c.recs /\ d.opening = c.opening
  <2>1. CASE b.phase = "recovering"
    BY <1>6, <2>1 DEF OnLive
  <2>2. CASE b.phase # "recovering"
    <3>1. d = [b EXCEPT !.phase = "live"]
      BY <2>2 DEF OnLive
    <3> HIDE DEF d
    <3> QED
      BY <1>6, <3>1 DEF Clients, Phases
  <2> QED
    BY <2>1, <2>2
<1> HIDE DEF d
<1>8. Leads(c, d)
  BY <1>3, <1>5, <1>7, SameLeads DEF Leads
<1>9. Leads(client, d)
  BY <1>3, <1>8, LeadsOn
<1>10. /\ k \in Connections /\ k.state = "open" /\ k.after = p /\ k.wire = <<>> /\ ~k.session
       /\ ~k.replaying /\ k.cursor = 0 /\ p \in Nat /\ p <= Len(log) /\ Len(log) \in Nat
  <2>1. NoConnection \in Connections
    BY <1>2, NoConnectionIs
  <2>2. p \in Nat /\ p <= Len(log) /\ Len(log) \in Nat
    BY <1>2, <1>3, LogIs
  <2>3. /\ NoConnection.wire = <<>> /\ NoConnection.session = FALSE
        /\ NoConnection.replaying = FALSE /\ NoConnection.cursor = 0
    BY DEF NoConnection
  <2> HIDE DEF p
  <2>4. /\ k \in Connections /\ k.state = "open" /\ k.after = p /\ k.wire = NoConnection.wire
        /\ k.session = NoConnection.session /\ k.replaying = NoConnection.replaying
        /\ k.cursor = NoConnection.cursor
    <3> DEFINE x == NoConnection
    <3>1. x \in Connections /\ k = [x EXCEPT !.state = "open", !.after = p] /\ p \in Nat
      BY <2>1, <2>2
    <3> HIDE DEF x, k
    <3>2. [x EXCEPT !.after = p] \in Connections
      BY <3>1 DEF Connections
    <3>3. k \in Connections
      BY <3>1, <3>2 DEF Connections
    <3>4. /\ k.state = "open" /\ k.after = p /\ k.wire = x.wire
          /\ k.session = x.session /\ k.replaying = x.replaying /\ k.cursor = x.cursor
      BY <3>1 DEF Connections
    <3> QED
      BY <3>3, <3>4 DEF x
  <2> QED
    BY <2>2, <2>3, <2>4
<1> HIDE DEF k
<1>11. ConnectionTrue(k)
  BY <1>10 DEF ConnectionTrue, WireTrue, Joined
<1>12. ASSUME Owned, OwnerState(client, socket)
       PROVE  OwnerTrue(d) /\ Onward(client, d) /\ OwnerWire(d, k)
  <2>1. OwnerTrue(d) /\ Onward(client, d) /\ Reached(client, p)
    BY <1>1, <1>9, <1>12 DEF Owned, OwnerState, OwnerTrue, Leads
  <2>2. Reached(d, p)
    BY <1>10, <2>1 DEF Onward
  <2> QED
    BY <1>10, <2>1, <2>2 DEF OwnerWire
<1>13. /\ StateTrue(d, f)
       /\ Owned /\ OwnerState(client, socket) => OwnerState(d, f)
  BY <1>2, <1>9, <1>11, <1>12, SocketChange DEF Leads
<1> HIDE DEF f
<1> QED
  BY <1>1, <1>13, StepKeeps

\* A retry keeps the invariant: an owner's only while no refresh is overtaken.
LEMMA RetryKeeps ==
    ASSUME SyncInv, UNCHANGED <<owner, log, revision, receipts>>, Retry
    PROVE  SyncInv' /\ (OwnerInv => OwnerInv')
<1> DEFINE c == [client EXCEPT !.timer = FALSE, !.socket = NoSocket]
           d == StartRecover(c, "replaying", "open")
           f == Closed(socket, client.socket)
<1>1. /\ client.on /\ client' = d /\ socket' = f
      /\ (\E r \in Range(client.recs) : r.replacing /\ ~r.stale) => "overlap" \in Faults
  BY DEF Retry
<1>2. LogTrue /\ ClientTrue(client) /\ StateTrue(client, socket) /\ client \in Clients /\ client.phase # "idle"
  BY <1>1 DEF SyncInv, StateTrue, ClientTrue
<1>3. /\ c \in Clients /\ c.on = client.on /\ c.phase = client.phase /\ c.cursor = client.cursor
      /\ c.events = client.events /\ c.rev = client.rev /\ c.refreshing = client.refreshing
      /\ c.head = client.head /\ c.buffer = client.buffer
      /\ c.recs = client.recs /\ c.opening = client.opening
  BY <1>2 DEF Clients
<1> HIDE DEF c
<1>4. Leads(client, c)
  BY <1>1, <1>2, <1>3, SameLeads
<1>5. /\ ClientTrue(d) /\ d.on
      /\ OwnerTrue(c) /\ (c.refreshing => \A i \in DOMAIN c.recs : c.recs[i].stale) =>
           OwnerTrue(d) /\ Onward(c, d)
  BY <1>2, <1>4, StartTrue DEF Leads, Thens
<1> HIDE DEF d
<1>6. ASSUME Owned, c.refreshing, NEW i \in DOMAIN c.recs PROVE c.recs[i].stale
  <2> SUFFICES ASSUME ~c.recs[i].stale PROVE FALSE
    OBVIOUS
  <2>1. c.recs[i] = client.recs[i] /\ i \in DOMAIN client.recs
    BY <1>3
  <2>2. client.recs[i] \in Range(client.recs)
    BY <2>1 DEF Range
  <2>3. RecoveryTrue(client, client.recs[i])
    BY <1>2, <2>1 DEF ClientTrue
  <2>4. client.recs[i].replacing
    BY <1>3, <1>6, <2>1, <2>3 DEF RecoveryTrue
  <2> QED
    BY <1>1, <1>6, <2>1, <2>2, <2>4 DEF Owned
<1>7. Owned /\ OwnerTrue(client) => OwnerTrue(d) /\ Onward(client, d)
  BY <1>4, <1>5, <1>6 DEF Owned, Leads, Onward
<1>8. f \in [Sockets -> Connections] /\ \A s \in Sockets : f[s] = socket[s] \/ f[s] = Closing(<<>>)
  <2>1. <<>> \in Seq(Messages) /\ WireTrue(<<>>)
    BY DEF WireTrue
  <2>2. Closing(<<>>) \in Connections
    BY <1>2, <2>1, ClosingIs DEF ConnectionTrue
  <2>3. socket \in [Sockets -> Connections]
    BY <1>2 DEF StateTrue
  <2> QED
    BY <2>2, <2>3 DEF Closed
<1> HIDE DEF f
<1>9. ConnectionTrue(Closing(<<>>)) /\ OwnerWire(d, Closing(<<>>))
  <2>1. <<>> \in Seq(Messages) /\ WireTrue(<<>>) /\ DOMAIN <<>> = {}
    BY DEF WireTrue
  <2>2. ConnectionTrue(Closing(<<>>))
    BY <1>2, <2>1, ClosingIs
  <2>3. OwnerWire(d, NoConnection)
    BY <1>2, NoConnectionIs
  <2>4. OwnerWire(d, Closing(<<>>))
    BY <1>2, <2>1, <2>3, ClosingIs
  <2> QED
    BY <2>2, <2>4
<1>10. StateTrue(d, f)
  BY <1>2, <1>5, <1>8, <1>9 DEF StateTrue
<1>11. ASSUME Owned, OwnerState(client, socket) PROVE OwnerState(d, f)
  <2>1. OwnerTrue(d) /\ Onward(client, d)
    BY <1>7, <1>11 DEF OwnerState
  <2>2. ASSUME NEW s \in Sockets PROVE OwnerWire(d, f[s])
    <3>1. CASE f[s] = socket[s]
      <4>1. socket[s] \in Connections /\ OwnerWire(client, socket[s])
        BY <1>2, <1>11 DEF StateTrue, OwnerState
      <4> QED
        BY <2>1, <3>1, <4>1, OwnerWireOnward
    <3>2. CASE f[s] = Closing(<<>>)
      BY <1>9, <3>2
    <3> QED
      BY <1>8, <3>1, <3>2
  <2> QED
    BY <2>1, <2>2 DEF OwnerState
<1> QED
  BY <1>1, <1>10, <1>11, StepKeeps

LEMMA TimerFiresKeeps == ASSUME SyncInv, TimerFires PROVE SyncInv' /\ (OwnerInv => OwnerInv')
BY RetryKeeps DEF TimerFires

LEMMA RetryClickedKeeps == ASSUME SyncInv, RetryClicked PROVE SyncInv' /\ (OwnerInv => OwnerInv')
BY RetryKeeps DEF RetryClicked

\* A client that follows nothing, and one that begins to.
LEMMA IdleIs ==
    ASSUME LogTrue, SyncAssumption
    PROVE  /\ ClientTrue(IdleClient) /\ OwnerTrue(IdleClient) /\ ~IdleClient.on
           /\ LET c == [IdleClient EXCEPT !.on = TRUE, !.phase = "live"]
              IN  ClientTrue(c) /\ c.on /\ OwnerTrue(c) /\ ~c.refreshing
<1> DEFINE c == [IdleClient EXCEPT !.on = TRUE, !.phase = "live"]
<1>1. <<>> \in Seq(Rows) /\ <<>> \in Seq(Recs) /\ <<>> \in Seq(Nat) /\ DOMAIN <<>> = {} /\ Len(<<>>) = 0
  OBVIOUS
<1>2. /\ IdleClient.on = FALSE /\ IdleClient.phase = "idle" /\ IdleClient.cursor = 0 /\ IdleClient.events = <<>>
      /\ IdleClient.rev = 0 /\ IdleClient.refreshing = FALSE /\ IdleClient.head = 0
      /\ IdleClient.buffer = {} /\ IdleClient.recs = <<>> /\ IdleClient.opening = <<>>
  BY DEF IdleClient
<1>3. IdleClient \in Clients
  BY <1>1 DEF IdleClient, Clients, Phases
<1>4. /\ c \in Clients /\ c.on = TRUE /\ c.phase = "live" /\ c.cursor = 0 /\ c.events = <<>>
      /\ c.rev = 0 /\ c.refreshing = FALSE /\ c.head = 0
      /\ c.buffer = {} /\ c.recs = <<>> /\ c.opening = <<>>
  <2> HIDE DEF IdleClient
  <2> QED
    BY <1>2, <1>3 DEF Clients, Phases
<1>5. Len(log) \in Nat /\ revision \in Nat /\ \A n \in DOMAIN log : log[n].rev \in Nat
  BY LogIs
<1>6. Covers(0, 0)
  BY <1>5 DEF Covers, LogTrue
<1>7. Distinct({})
  BY DEF Distinct
<1> HIDE DEF c
<1>8. ClientTrue(IdleClient) /\ OwnerTrue(IdleClient)
  BY <1>1, <1>2, <1>3, <1>5, <1>6, <1>7 DEF ClientTrue, OwnerTrue
<1>9. ClientTrue(c) /\ OwnerTrue(c)
  BY <1>1, <1>4, <1>5, <1>6, <1>7 DEF ClientTrue, OwnerTrue
<1> QED
  BY <1>2, <1>4, <1>8, <1>9 DEF c

\* The page is left, or another one is entered: nothing of the old one is kept.
LEMMA NewPage ==
    ASSUME LogTrue, NEW d, ClientTrue(d), OwnerTrue(d)
    PROVE  LET f == [s \in Sockets |-> NoConnection]
           IN  StateTrue(d, f) /\ OwnerState(d, f)
<1> DEFINE f == [s \in Sockets |-> NoConnection]
<1>1. NoConnection \in Connections /\ ConnectionTrue(NoConnection) /\ OwnerWire(d, NoConnection)
  BY NoConnectionIs
<1>2. f \in [Sockets -> Connections] /\ \A s \in Sockets : f[s] = NoConnection
  BY <1>1
<1> HIDE DEF f
<1>3. StateTrue(d, f) /\ OwnerState(d, f)
  BY <1>1, <1>2 DEF StateTrue, OwnerState
<1> QED
  BY <1>3 DEF f

LEMMA ConnectKeeps == ASSUME SyncInv, Connect PROVE SyncInv' /\ (OwnerInv => OwnerInv')
<1> DEFINE c == [IdleClient EXCEPT !.on = TRUE, !.phase = "live"]
           b == [IdleClient EXCEPT !.on = TRUE]
           d == StartRecover(c, "replaying", "open")
           f == [s \in Sockets |-> NoConnection]
<1>1. /\ client' = StartRecover(b, "replaying", "open") /\ socket' = f
      /\ UNCHANGED <<owner, log, revision, receipts>>
  BY DEF Connect
<1>2. LogTrue
  BY DEF SyncInv
<1>3. ClientTrue(c) /\ c.on /\ OwnerTrue(c) /\ ~c.refreshing
  BY <1>2, SyncAssumption, IdleIs
<1>4. StartRecover(b, "replaying", "open") = d
  BY DEF StartRecover, IdleClient
<1> HIDE DEF c, b
<1>5. ClientTrue(d) /\ OwnerTrue(d)
  BY <1>2, <1>3, StartTrue DEF Thens
<1> HIDE DEF d
<1>6. StateTrue(d, f) /\ OwnerState(d, f)
  BY <1>2, <1>5, NewPage
<1> HIDE DEF f
<1> QED
  BY <1>1, <1>4, <1>6, StepKeeps

LEMMA DisconnectKeeps == ASSUME SyncInv, Disconnect PROVE SyncInv' /\ (OwnerInv => OwnerInv')
<1> DEFINE d == IdleClient
           f == [s \in Sockets |-> NoConnection]
<1>1. client' = d /\ socket' = f /\ UNCHANGED <<owner, log, revision, receipts>>
  BY DEF Disconnect
<1>2. LogTrue /\ ClientTrue(d) /\ OwnerTrue(d)
  BY SyncAssumption, IdleIs DEF SyncInv
<1> HIDE DEF d
<1>3. StateTrue(d, f) /\ OwnerState(d, f)
  BY <1>2, NewPage
<1> HIDE DEF f
<1> QED
  BY <1>1, <1>3, StepKeeps

-----------------------------------------------------------------------------
(* The actions that let the log grow.                                      *)

\* A wire is true of the longer log, message by message and joint by joint.
LEMMA LongerWire ==
    ASSUME NEW w \in Seq(Messages), NEW m \in Messages, WireTrue(w)', MessageTrue(m)',
           w # <<>> => Complete(w[Len(w)], m)'
    PROVE  WireTrue(Append(w, m))'
<1>1. PICK v : v = Append(w, m)
  OBVIOUS
<1>2. /\ DOMAIN v = 1..(Len(w) + 1) /\ DOMAIN w = 1..Len(w) /\ Len(w) \in Nat /\ v[Len(w) + 1] = m
      /\ \A i \in 1..Len(w) : v[i] = w[i]
  BY <1>1, AppendIs
<1>3. Len(w) # 0 => w # <<>>
  OBVIOUS
<1>4. ASSUME NEW i \in DOMAIN v PROVE MessageTrue(v[i])'
  <2>1. i \in 1..Len(w) \/ i = Len(w) + 1
    BY <1>2
  <2>2. CASE i = Len(w) + 1
    BY <1>2, <2>2
  <2>3. CASE i \in 1..Len(w)
    <3>1. MessageTrue(w[i])'
      BY <1>2, <2>3 DEF WireTrue
    <3> QED
      BY <1>2, <2>3, <3>1
  <2> QED
    BY <2>1, <2>2, <2>3
<1>5. ASSUME NEW i \in DOMAIN v, i + 1 \in DOMAIN v PROVE Complete(v[i], v[i + 1])'
  <2>1. CASE i = Len(w)
    BY <1>2, <1>3, <1>5, <2>1
  <2>2. CASE i # Len(w)
    <3>1. i \in 1..Len(w) /\ i + 1 \in 1..Len(w)
      BY <1>2, <1>5, <2>2
    <3>2. Complete(w[i], w[i + 1])'
      BY <1>2, <3>1 DEF WireTrue
    <3> QED
      BY <1>2, <3>1, <3>2
  <2> QED
    BY <2>1, <2>2
<1>6. WireTrue(v)'
  BY <1>4, <1>5 DEF WireTrue
<1> QED
  BY <1>1, <1>6

\* What is appended: the last position is published, one before it only under a marker.
Published(n, readable, row) ==
  /\ n = Len(log)
  /\ readable => row \in Rows /\ row.seq = n /\ RowTrue(row)
  /\ log[n].readable => readable
  /\ owner => readable

\* Nothing is appended before position n, or n holds a marker.
Followed(n) == n = Len(log) + 1 \/ (log'[n].readable /\ log'[n].kind = "marker")

\* j is connection k after the published event was sent to it, as message m.
Told(k, n, readable, row, m, j) ==
  /\ m = IF readable THEN [type |-> "event", event |-> row] ELSE [type |-> "cursor", cursor |-> n]
  /\ j = [Send(k, m) EXCEPT !.cursor = n]

\* A published event, or its position alone, may follow on a connection that is live.
LEMMA FanOutSends ==
    ASSUME Grows, NEW k, ConnectionTrue(k), k.session, ~k.replaying, NEW n, Len(log) < n,
           NEW readable \in BOOLEAN, NEW row, Published(n, readable, row)',
           Followed(n),
           NEW m, NEW j, Told(k, n, readable, row, m, j)
    PROVE  ConnectionTrue(j)' /\ \A c : owner /\ OwnerWire(c, k) => OwnerWire(c, j)
<1>0. /\ Len(log) \in Nat /\ Len(log') \in Nat /\ DOMAIN log' = 1..Len(log') /\ DOMAIN log = 1..Len(log)
      /\ n = Len(log') /\ n \in Nat /\ n > 0
  BY GrowsIs DEF Published, Grows
<1>15. DOMAIN log' \subseteq Nat
  BY <1>0
<1>16. owner => readable
  BY DEF Published, Grows
<1>2. m \in Messages /\ m.type # "replay" /\ m.type # "subscribed"
  BY <1>0, MessageTypes DEF Published, Told
<1>3. MessageTrue(m)'
  BY <1>0 DEF Published, MessageTrue, Told
<1>4. Reaches(m) = n /\ (readable => Carries(m) = {n}) /\ (owner => m.type = "event")
  BY <1>0, <1>16 DEF Published, Reaches, Carries, Told
<1>5. \A x : Reaches(x)' = Reaches(x) /\ Carries(x)' = Carries(x)
  BY DEF Reaches, Carries
<1>7. k \in Connections /\ k.wire \in Seq(Messages) /\ WireTrue(k.wire) /\ Joined(k) /\ k.state = "open"
      /\ k.after \in Int /\ ~(k.after >= 0)
  BY DEF ConnectionTrue, Connections
<1>8. /\ j \in Connections /\ j.wire = Append(k.wire, m) /\ j.state = k.state /\ j.after = k.after
      /\ j.session /\ ~j.replaying /\ j.cursor = n
  <2> DEFINE b == Send(k, m)
  <2>1. /\ b \in Connections /\ b.wire = Append(k.wire, m) /\ b.state = k.state /\ b.after = k.after
        /\ b.session = k.session /\ b.replaying = k.replaying
    BY <1>2, <1>7, SendIs
  <2> HIDE DEF b
  <2>2. j = [b EXCEPT !.cursor = n]
    BY DEF b, Told
  <2> QED
    BY <1>0, <2>1, <2>2 DEF Connections
<1>9. ASSUME k.wire # <<>> PROVE Complete(k.wire[Len(k.wire)], m)'
  <2>1. PICK a : a = k.wire[Len(k.wire)]
    OBVIOUS
  <2>2. Reaches(a) > 0 => Reaches(a) = Len(log)
    BY <1>9, <2>1 DEF Joined, ConnectionTrue
  <2>5. Readable' = {l \in DOMAIN log' : log'[l].readable}
    BY DEF Readable
  <2> DEFINE between == {l \in Readable' : Reaches(a) < l /\ l <= Reaches(m)}
  <2>3. ASSUME Reaches(a) > 0 PROVE between \subseteq Carries(m) \/ \E l \in between : log'[l].kind = "marker"
    <3>1. \A l \in Readable' : l \in Nat /\ log'[l].readable
      BY <1>15, <2>5, Zenon
    <3>2. CASE log'[n].readable /\ log'[n].kind = "marker"
      <4>1. n \in between
        BY <1>0, <1>4, <2>2, <2>3, <2>5, <3>2
      <4> QED
        BY <3>2, <4>1
    <3>3. CASE n = Len(log) + 1
      <4>1. ASSUME NEW l \in between PROVE l \in Carries(m)
        <5>1. l = n /\ log'[n].readable
          BY <1>0, <1>4, <2>2, <2>3, <3>1, <3>3
        <5> QED
          BY <1>4, <5>1 DEF Published
      <4> QED
        BY <4>1
    <3> QED
      BY <3>2, <3>3 DEF Followed
  <2> HIDE DEF between
  <2>4. Complete(a, m)'
    BY <1>5, <2>3 DEF Complete, between
  <2> QED
    BY <2>1, <2>4
<1>10. WireTrue(j.wire)'
  <2>1. WireTrue(k.wire)'
    BY <1>7, WireTrueGrows
  <2>2. WireTrue(Append(k.wire, m))'
    BY <1>2, <1>3, <1>7, <1>9, <2>1, LongerWire
  <2> QED
    BY <1>8, <2>2
<1>11. Joined(j)'
  <2>1. j.wire[Len(j.wire)] = m
    BY <1>2, <1>7, <1>8, AppendIs
  <2> QED
    BY <1>0, <1>4, <1>5, <1>8, <2>1 DEF Joined
<1>12. ConnectionTrue(j)'
  <2>1. j.cursor <= Len(log') /\ j.state = "open" /\ j.state # "none" /\ ~(j.after >= 0)
    BY <1>0, <1>7, <1>8
  <2> QED
    BY <1>8, <1>10, <1>11, <2>1 DEF ConnectionTrue
<1>13. ASSUME NEW c, owner, OwnerWire(c, k) PROVE OwnerWire(c, j)
  <2>1. PICK w : w = Append(k.wire, m)
    OBVIOUS
  <2>2. \A i \in DOMAIN w :
             /\ w[i].type # "cursor"
             /\ w[i].type \in {"replay", "subscribed"} =>
                  \A l \in 1..Reaches(w[i]) : l \in Carries(w[i]) \/ HasBefore(c, w, i, l)
    BY <1>2, <1>4, <1>7, <1>13, <2>1, OwnerWireAppends
  <2> QED
    BY <1>7, <1>8, <2>1, <2>2, Zenon DEF OwnerWire
<1> QED
  BY <1>12, <1>13

\* A published event reaches every connection that may hear it.
LEMMA FanOutKeeps ==
    ASSUME SyncInv, Grows, NEW d, client = d, client' = d, NEW g, socket = g, NEW n, Len(log) < n,
           NEW readable \in BOOLEAN, NEW row, socket' = FanOut(g, n, readable, row),
           Published(n, readable, row)',
           Followed(n),
           \A r \in receipts' : r.rev \in 0..revision' /\ r.seq \in 0..Len(log')
    PROVE  SyncInv' /\ (OwnerInv => OwnerInv')
<1>1. PICK f : f = FanOut(g, n, readable, row)
  OBVIOUS
<1>2. ClientTrue(d) /\ g \in [Sockets -> Connections] /\ (\A s \in Sockets : ConnectionTrue(g[s]))
      /\ (~d.on => \A s \in Sockets : g[s] = NoConnection)
  BY DEF SyncInv, StateTrue
<1>3. ClientTrue(d)'
  BY <1>2, ClientGrows
<1>4. DOMAIN f = Sockets /\ f = [s \in Sockets |-> f[s]]
  BY <1>1 DEF FanOut
<1>5. ASSUME NEW s \in Sockets
      PROVE  /\ ConnectionTrue(f[s])' /\ (g[s] = NoConnection => f[s] = g[s])
             /\ owner /\ OwnerWire(d, g[s]) => OwnerWire(d, f[s])
  <2>1. PICK k : k = g[s]
    OBVIOUS
  <2>2. ConnectionTrue(k) /\ k \in Connections /\ k.cursor \in Nat /\ k.cursor <= Len(log) /\ Len(log) \in Nat
    BY <1>2, <2>1, GrowsIs DEF ConnectionTrue, Connections
  <2>3. n \in Nat /\ n > k.cursor
    BY <2>2, GrowsIs DEF Published
  <2>4. CASE k.session /\ ~k.replaying
    <3>1. PICK m, j : Told(k, n, readable, row, m, j)
      BY DEF Told
    <3>2. ConnectionTrue(j)' /\ \A c : owner /\ OwnerWire(c, k) => OwnerWire(c, j)
      BY <2>2, <2>4, <3>1, FanOutSends
    <3>3. k # NoConnection
      BY <2>4 DEF NoConnection
    <3>4. f[s] = j
      BY <1>1, <2>1, <2>3, <2>4, <3>1 DEF FanOut, Told
    <3> QED
      BY <2>1, <3>2, <3>3, <3>4
  <2>5. CASE ~(k.session /\ ~k.replaying)
    <3>1. f[s] = k
      BY <1>1, <2>1, <2>5 DEF FanOut
    <3>2. ConnectionTrue(k)'
      BY <2>2, <2>5, ConnectionGrows
    <3> QED
      BY <2>1, <3>1, <3>2
  <2> QED
    BY <2>4, <2>5
<1>6. StateTrue(d, f)'
  <2>1. NoConnection' = NoConnection
    BY DEF NoConnection, NoPage
  <2>2. \A s \in Sockets : f[s] \in Connections
    BY <1>5 DEF ConnectionTrue
  <2>3. f \in [Sockets -> Connections]
    BY <1>4, <2>2
  <2> QED
    BY <1>2, <1>3, <1>5, <2>1, <2>3 DEF StateTrue
<1>7. SyncInv'
  BY <1>1, <1>6 DEF SyncInv, Grows
<1>8. ASSUME OwnerInv, Owned' PROVE OwnerState(d, f)'
  <2>1. owner /\ OwnerTrue(d) /\ \A s \in Sockets : OwnerWire(d, g[s])
    BY <1>8 DEF OwnerInv, Owned, OwnerState, Grows
  <2>2. OwnerTrue(d)'
    BY <1>2, <2>1, OwnerGrows
  <2>3. ASSUME NEW s \in Sockets PROVE OwnerWire(d, f[s])'
    <3>1. OwnerWire(d, f[s])
      BY <1>5, <2>1
    <3> QED
      BY <3>1, WireGrows
  <2> QED
    BY <2>2, <2>3 DEF OwnerState
<1>9. OwnerInv => OwnerInv'
  BY <1>1, <1>8 DEF OwnerInv
<1> QED
  BY <1>7, <1>9

\* The log after an append.
LEMMA AppendGrows ==
    ASSUME SyncInv, NEW readable \in BOOLEAN, AppendEvent(readable)
    PROVE  /\ Grows /\ DOMAIN log' = 1..(Len(log) + 1) /\ Len(log') = Len(log) + 1
           /\ log'[Len(log) + 1] = [readable |-> readable, kind |-> "message", rev |-> revision, gone |-> FALSE]
<1> DEFINE e == [readable |-> readable, kind |-> "message", rev |-> revision, gone |-> FALSE]
<1>1. LogTrue
  BY DEF SyncInv
<1>2. /\ Len(log) < MaxSeq /\ (owner => readable) /\ log' = Append(log, e) /\ UNCHANGED <<owner, revision>>
  BY DEF AppendEvent
<1>3. /\ Len(log) \in Nat /\ DOMAIN log = 1..Len(log) /\ revision \in Nat /\ log \in Seq(Entries) /\ MaxSeq \in Nat
      /\ \A n \in DOMAIN log : log[n].rev \in Nat
  BY <1>1, LogIs, SyncAssumption DEF LogTrue
<1>4. e \in Entries /\ e.readable = readable /\ e.kind = "message" /\ e.rev = revision
  BY <1>3 DEF Entries
<1> HIDE DEF e
<1>5. /\ log' \in Seq(Entries) /\ Len(log') = Len(log) + 1 /\ DOMAIN log' = 1..(Len(log) + 1)
      /\ log'[Len(log) + 1] = e /\ \A n \in DOMAIN log : log'[n] = log[n] /\ n \in DOMAIN log'
  BY <1>2, <1>3, <1>4, AppendIs
<1>6. ASSUME NEW n \in DOMAIN log'
      PROVE  (n \in DOMAIN log /\ log'[n] = log[n]) \/ (n = Len(log) + 1 /\ log'[n] = e)
  <2>1. n \in DOMAIN log \/ n = Len(log) + 1
    BY <1>3, <1>5
  <2> QED
    BY <1>5, <2>1
<1>7. ASSUME NEW n \in DOMAIN log' PROVE Precedes(n, log[n].rev)'
  <2> SUFFICES ASSUME NEW m \in DOMAIN log', log'[m].kind = "marker", log'[m].rev > log'[n].rev PROVE n < m
    BY DEF Precedes
  <2>1. m \in DOMAIN log /\ log'[m] = log[m] /\ log[m].rev <= revision /\ log[m].rev \in Nat
    BY <1>1, <1>3, <1>4, <1>6 DEF LogTrue
  <2>2. CASE n \in DOMAIN log /\ log'[n] = log[n]
    BY <1>1, <2>1, <2>2 DEF LogTrue, Precedes
  <2>3. CASE log'[n] = e
    BY <1>3, <1>4, <2>1, <2>3
  <2> QED
    BY <1>6, <2>2, <2>3
<1>8. ASSUME NEW n \in DOMAIN log'
      PROVE  /\ log'[n].rev <= revision /\ (owner => log'[n].readable)
             /\ log'[n].kind = "marker" => log'[n].rev > 0
  <2>1. CASE n \in DOMAIN log /\ log'[n] = log[n]
    BY <1>1, <2>1 DEF LogTrue
  <2>2. CASE log'[n] = e
    BY <1>2, <1>3, <1>4, <2>2
  <2> QED
    BY <1>6, <2>1, <2>2
<1>9. \A rev \in 1..revision : \E m \in DOMAIN log' : log'[m].kind = "marker" /\ log'[m].rev = rev
  BY <1>1, <1>5 DEF LogTrue
<1>10. Len(log') <= MaxSeq
  BY <1>2, <1>3, <1>5
<1>11. LogTrue'
  BY <1>1, <1>2, <1>5, <1>7, <1>8, <1>9, <1>10 DEF LogTrue
<1>12. Grows
  <2>1. \A n \in DOMAIN log' : n \notin DOMAIN log /\ log'[n].kind = "marker" => log'[n].rev > revision
    BY <1>4, <1>6
  <2>2. Len(log) <= Len(log') /\ revision <= revision'
    BY <1>2, <1>3, <1>5
  <2> QED
    BY <1>1, <1>2, <1>5, <1>11, <2>1, <2>2 DEF Grows
<1> QED
  BY <1>5, <1>12 DEF e

LEMMA AppendKeeps ==
    ASSUME SyncInv, NEW readable \in BOOLEAN, AppendEvent(readable)
    PROVE  SyncInv' /\ (OwnerInv => OwnerInv')
<1>1. PICK n : n = Len(log) + 1
  OBVIOUS
<1>2. PICK row : row = [seq |-> n, rev |-> revision, kind |-> "message", body |-> "text"]
  OBVIOUS
<1>3. PICK d, g : d = client /\ g = socket
  OBVIOUS
<1>4. /\ Grows /\ DOMAIN log' = 1..n /\ Len(log') = n
      /\ log'[n] = [readable |-> readable, kind |-> "message", rev |-> revision, gone |-> FALSE]
  BY <1>1, AppendGrows
<1>5. /\ socket' = FanOut(g, n, readable, row) /\ client' = d /\ UNCHANGED <<owner, revision, receipts>>
      /\ (owner => readable)
  BY <1>1, <1>2, <1>3 DEF AppendEvent
<1>6. /\ Len(log) \in Nat /\ n \in Nat /\ Len(log) < n /\ n \in DOMAIN log' /\ revision \in Nat
      /\ row \in Rows /\ row.seq = n /\ row.rev = revision
      /\ log'[n].readable = readable /\ log'[n].rev = revision /\ log'[n].gone = FALSE
  <2>1. Len(log) \in Nat /\ revision \in Nat
    BY LogIs DEF SyncInv
  <2>2. n \in Nat \ {0} /\ Len(log) < n
    BY <1>1, <2>1
  <2>3. row \in Rows /\ row.seq = n /\ row.rev = revision
    BY <1>2, <2>1, <2>2 DEF Rows
  <2> QED
    BY <1>4, <2>1, <2>2, <2>3
<1>7. RowTrue(row)'
  <2>1. Precedes(n, revision)'
    BY <1>4, <1>5, <1>6 DEF Grows, LogTrue
  <2> QED
    BY <1>5, <1>6, <2>1 DEF RowTrue, Fresh
<1>8. Published(n, readable, row)'
  BY <1>4, <1>5, <1>6, <1>7 DEF Published
<1>9. \A r \in receipts' : r.rev \in 0..revision' /\ r.seq \in 0..Len(log')
  BY <1>4, <1>5, <1>6 DEF SyncInv
<1>10. Followed(n)
  BY <1>1 DEF Followed
<1> QED
  BY <1>3, <1>4, <1>5, <1>6, <1>8, <1>9, <1>10, FanOutKeeps

\* The log after an erasure: what is gone carries the new revision, the marker ends it.
LEMMA EraseGrows ==
    ASSUME SyncInv, NEW gone \in SUBSET DOMAIN log, NEW failure \in BOOLEAN, NEW mine \in BOOLEAN,
           Erase(gone, failure, mine), NEW n, n = Len(log')
    PROVE  /\ Grows /\ n \in DOMAIN log' /\ Len(log) < n
           /\ log'[n] = [readable |-> TRUE, kind |-> "marker", rev |-> revision + 1, gone |-> FALSE]
           /\ socket' = FanOut(socket, n, TRUE, [seq |-> n, rev |-> revision + 1, kind |-> "marker", body |-> "text"])
           /\ client' = client /\ owner' = owner /\ revision' = revision + 1
           /\ receipts' \subseteq receipts \cup {[rev |-> revision + 1, seq |-> n]}
<1>1. LogTrue
  BY DEF SyncInv
<1>2. PICK rev : rev = revision + 1
  OBVIOUS
<1>3. PICK ef, em : /\ ef = [readable |-> TRUE, kind |-> "message", rev |-> rev, gone |-> FALSE]
                    /\ em = [readable |-> TRUE, kind |-> "marker", rev |-> rev, gone |-> FALSE]
  OBVIOUS
<1>4. PICK erased : erased = [l \in DOMAIN log |-> IF l \in gone THEN [log[l] EXCEPT !.gone = TRUE, !.rev = rev]
                                                  ELSE log[l]]
  OBVIOUS
<1>5. PICK tail : tail = (IF failure THEN <<ef>> ELSE <<>>) \o <<em>>
  OBVIOUS
<1>6. /\ revision < MaxErase /\ Len(log) + Len(tail) <= MaxSeq
      /\ \A l \in gone : log[l].kind = "message" /\ ~log[l].gone
      /\ log' = erased \o tail /\ revision' = rev /\ owner' = owner
  BY <1>2, <1>3, <1>4, <1>5 DEF Erase
<1>21. /\ socket' = FanOut(socket, Len(log) + Len(tail), TRUE,
                            [seq |-> Len(log) + Len(tail), rev |-> rev, kind |-> "marker", body |-> "text"])
       /\ client' = client /\ receipts' \subseteq receipts \cup {[rev |-> rev, seq |-> Len(log) + Len(tail)]}
  BY <1>2, <1>3, <1>5 DEF Erase
<1>7. /\ Len(log) \in Nat /\ DOMAIN log = 1..Len(log) /\ revision \in Nat
      /\ MaxErase \in Nat /\ MaxSeq \in Nat
      /\ \A l \in DOMAIN log : log[l] \in Entries /\ log[l].rev \in Nat
  BY <1>1, LogIs, SyncAssumption
<1>8. rev \in Nat /\ rev <= MaxErase /\ revision <= rev /\ rev > revision /\ rev > 0
      /\ \A x \in Nat : x <= revision => x < rev
  BY <1>2, <1>6, <1>7
<1>9. /\ ef \in Entries /\ ef.readable /\ ef.kind = "message" /\ ef.rev = rev
      /\ em \in Entries /\ em.readable /\ em.kind = "marker" /\ em.rev = rev
  BY <1>3, <1>8 DEF Entries
<1>10. ASSUME NEW l \in DOMAIN log
       PROVE  /\ erased[l] \in Entries
              /\ erased[l] = log[l] \/ /\ erased[l].kind = "message" /\ erased[l].rev = rev
                                        /\ erased[l].readable = log[l].readable /\ log[l].kind = "message"
  <2>1. PICK x : x = log[l]
    OBVIOUS
  <2>2. x \in Entries
    BY <1>7, <2>1
  <2>3. CASE l \in gone
    <3>1. PICK y : y = [x EXCEPT !.gone = TRUE, !.rev = rev]
      OBVIOUS
    <3>2. y \in Entries /\ y.kind = x.kind /\ y.rev = rev /\ y.readable = x.readable
      BY <1>8, <2>2, <3>1 DEF Entries
    <3>3. erased[l] = y /\ x.kind = "message"
      BY <1>4, <1>6, <2>1, <2>3, <3>1
    <3> QED
      BY <2>1, <3>2, <3>3
  <2>4. CASE l \notin gone
    <3>1. erased[l] = log[l]
      BY <1>4, <2>4
    <3> QED
      BY <2>1, <2>2, <3>1
  <2> QED
    BY <2>3, <2>4
<1>11. erased \in Seq(Entries) /\ Len(erased) = Len(log) /\ DOMAIN erased = 1..Len(log)
  <2>1. DOMAIN erased = 1..Len(log) /\ erased = [l \in 1..Len(log) |-> erased[l]]
    BY <1>4, <1>7
  <2>2. erased \in [1..Len(log) -> Entries]
    BY <1>7, <1>10, <2>1
  <2> QED
    BY <1>7, <2>1, <2>2
<1>12. /\ tail \in Seq(Entries) /\ Len(tail) \in 1..2 /\ DOMAIN tail = 1..Len(tail) /\ tail[Len(tail)] = em
       /\ \A l \in DOMAIN tail : tail[l] = ef \/ (tail[l] = em /\ l = Len(tail))
  <2>1. CASE failure
    <3>1. PICK a, b : a = <<ef>> /\ b = <<em>>
      OBVIOUS
    <3>2. /\ a \in Seq(Entries) /\ Len(a) = 1 /\ a[1] = ef
          /\ b \in Seq(Entries) /\ Len(b) = 1 /\ b[1] = em
      BY <1>9, <3>1
    <3>3. PICK c : c = a \o b
      OBVIOUS
    <3>4. c \in Seq(Entries) /\ Len(c) = 2 /\ c[1] = ef /\ c[2] = em
      BY <3>2, <3>3, ConcatProperties
    <3>5. tail = c
      BY <1>5, <2>1, <3>1, <3>3
    <3>6. DOMAIN c = 1..2 /\ \A l \in 1..2 : c[l] = ef \/ (c[l] = em /\ l = 2)
      BY <3>4
    <3>7. /\ Len(c) \in 1..2 /\ DOMAIN c = 1..Len(c) /\ c[Len(c)] = em
          /\ \A l \in DOMAIN c : c[l] = ef \/ (c[l] = em /\ l = Len(c))
      <4>1. Len(c) = 2 /\ 2 \in 1..2
        BY <3>4
      <4>2. c[Len(c)] = em
        BY <3>4
      <4> QED
        BY <3>6, <4>1, <4>2
    <3> QED
      BY <3>4, <3>5, <3>7, Zenon
  <2>2. CASE ~failure
    <3>1. tail = <<em>>
      BY <1>5, <2>2
    <3> QED
      BY <1>9, <3>1
  <2> QED
    BY <2>1, <2>2
<1>13. /\ log' \in Seq(Entries) /\ n = Len(log) + Len(tail) /\ DOMAIN log' = 1..n /\ n \in Nat /\ Len(log) < n
       /\ n <= MaxSeq /\ log'[n] = em
       /\ \A l \in DOMAIN log : log'[l] = erased[l] /\ l \in DOMAIN log'
       /\ \A l \in DOMAIN log' : l \in DOMAIN log \/ (l \notin DOMAIN log /\ (log'[l] = ef \/ l = n))
  <2>1. PICK w : w = erased \o tail
    OBVIOUS
  <2>2. w \in Seq(Entries) /\ Len(w) = Len(log) + Len(tail)
        /\ \A l \in 1..Len(w) : w[l] = IF l <= Len(erased) THEN erased[l] ELSE tail[l - Len(erased)]
    <3>1. erased \in Seq(Entries) /\ tail \in Seq(Entries) /\ Len(erased) = Len(log)
      BY <1>11, <1>12
    <3>2. /\ erased \o tail \in Seq(Entries) /\ Len(erased \o tail) = Len(erased) + Len(tail)
          /\ \A l \in 1..(Len(erased) + Len(tail)) :
               (erased \o tail)[l] = IF l <= Len(erased) THEN erased[l] ELSE tail[l - Len(erased)]
      BY <3>1, ConcatProperties
    <3> QED
      BY <2>1, <3>1, <3>2
  <2>3. Len(tail) \in Nat /\ Len(tail) > 0
    BY <1>12
  <2>4. ASSUME NEW l \in 1..Len(w), l \notin DOMAIN log
        PROVE  l - Len(log) \in DOMAIN tail /\ w[l] = tail[l - Len(log)]
    <3>1. l - Len(log) \in 1..Len(tail) /\ ~(l <= Len(log))
      BY <1>7, <2>2, <2>3, <2>4
    <3> QED
      BY <1>11, <1>12, <2>2, <3>1
  <2>5. ASSUME NEW l \in DOMAIN log PROVE l \in 1..Len(w) /\ w[l] = erased[l]
    <3>1. l \in 1..Len(w) /\ l <= Len(log)
      BY <1>7, <2>2, <2>3
    <3> QED
      BY <1>11, <2>2, <3>1
  <2>6. Len(w) \in 1..Len(w) /\ Len(w) \notin DOMAIN log /\ Len(w) - Len(log) = Len(tail) /\ Len(w) \in Nat
        /\ Len(log) < Len(w) /\ DOMAIN w = 1..Len(w) /\ log' = w /\ n = Len(w)
    BY <1>6, <1>7, <2>1, <2>2, <2>3
  <2>7. ASSUME NEW l \in 1..Len(w), l \notin DOMAIN log PROVE w[l] = ef \/ l = Len(w)
    <3>1. l - Len(log) = Len(tail) => l = Len(w)
      BY <1>7, <2>2, <2>3
    <3> QED
      BY <1>12, <2>4, <2>7, <3>1
  <2>8. w[Len(w)] = em
    BY <1>12, <2>4, <2>6
  <2> QED
    BY <1>6, <2>2, <2>5, <2>6, <2>7, <2>8
<1>14. ASSUME NEW l \in DOMAIN log'
       PROVE  \/ l \in DOMAIN log /\ log'[l] = log[l]
              \/ /\ l \in DOMAIN log /\ log'[l].kind = "message" /\ log'[l].rev = rev
                 /\ log'[l].readable = log[l].readable /\ log[l].kind = "message"
              \/ l \notin DOMAIN log /\ log'[l] = ef
              \/ l \notin DOMAIN log /\ log'[l] = em /\ l = n
  BY <1>10, <1>13
<1>15. ASSUME NEW l \in DOMAIN log' PROVE Precedes(l, log[l].rev)'
  <2> SUFFICES ASSUME NEW m \in DOMAIN log', log'[m].kind = "marker", log'[m].rev > log'[l].rev PROVE l < m
    BY DEF Precedes
  <2>1. (m \in DOMAIN log /\ log'[m] = log[m] /\ log[m].rev < rev) \/ (m = n /\ log'[m].rev = rev)
    <3>1. m \in DOMAIN log => log[m].rev < rev
      BY <1>1, <1>7, <1>8 DEF LogTrue
    <3> QED
      BY <1>9, <1>14, <3>1
  <2>2. log'[l].rev # rev
    BY <1>7, <1>8, <2>1
  <2>3. l \in DOMAIN log /\ log'[l] = log[l]
    BY <1>9, <1>14, <2>2
  <2>4. CASE m = n
    BY <1>7, <1>13, <2>3, <2>4
  <2>5. CASE m \in DOMAIN log /\ log'[m] = log[m]
    BY <1>1, <2>3, <2>5 DEF LogTrue, Precedes
  <2> QED
    BY <2>1, <2>4, <2>5
<1>16. ASSUME NEW l \in DOMAIN log'
       PROVE  /\ log'[l].rev <= rev /\ (owner => log'[l].readable)
              /\ log'[l].kind = "marker" => log'[l].rev > 0
  <2>1. CASE l \in DOMAIN log /\ log'[l] = log[l]
    <3>1. /\ log[l].rev <= revision /\ (owner => log[l].readable) /\ (log[l].kind = "marker" => log[l].rev > 0)
          /\ log[l].rev \in Nat
      BY <1>1, <1>7, <2>1 DEF LogTrue
    <3> QED
      BY <1>7, <1>8, <2>1, <3>1
  <2>2. CASE /\ l \in DOMAIN log /\ log'[l].kind = "message" /\ log'[l].rev = rev
             /\ log'[l].readable = log[l].readable
    <3>1. owner => log[l].readable
      BY <1>1, <2>2 DEF LogTrue
    <3> QED
      BY <1>8, <2>2, <3>1
  <2>3. CASE log'[l] = ef \/ log'[l] = em
    BY <1>8, <1>9, <2>3
  <2> QED
    BY <1>14, <2>1, <2>2, <2>3
<1>17. ASSUME NEW x \in 1..rev PROVE \E m \in DOMAIN log' : log'[m].kind = "marker" /\ log'[m].rev = x
  <2>1. CASE x = rev
    BY <1>9, <1>13, <2>1
  <2>2. CASE x # rev
    <3>1. x \in 1..revision
      BY <1>2, <1>7, <2>2
    <3>2. PICK m \in DOMAIN log : log[m].kind = "marker" /\ log[m].rev = x
      BY <1>1, <3>1 DEF LogTrue
    <3>3. m \in DOMAIN log' /\ log'[m] = log[m]
      BY <1>10, <1>13, <3>2
    <3> QED
      BY <3>2, <3>3
  <2> QED
    BY <2>1, <2>2
<1>18. LogTrue'
  BY <1>1, <1>6, <1>8, <1>13, <1>15, <1>16, <1>17 DEF LogTrue
<1>19. Grows
  <2>1. \A l \in DOMAIN log' : l \notin DOMAIN log /\ log'[l].kind = "marker" => log'[l].rev > revision
    BY <1>8, <1>9, <1>14
  <2>2. Len(log) <= Len(log') /\ revision <= revision'
    BY <1>6, <1>7, <1>8, <1>13
  <2>3. ASSUME NEW l \in DOMAIN log
        PROVE  \/ log'[l] = log[l]
               \/ /\ log[l].kind = "message" /\ log'[l].kind = "message" /\ log'[l].rev > revision
                  /\ log'[l].readable = log[l].readable
    BY <1>8, <1>10, <1>13
  <2> QED
    BY <1>1, <1>6, <1>18, <2>1, <2>2, <2>3 DEF Grows
<1>20. n \in DOMAIN log'
  BY <1>7, <1>13
<1> QED
  BY <1>2, <1>3, <1>6, <1>13, <1>19, <1>20, <1>21

LEMMA EraseKeeps ==
    ASSUME SyncInv, NEW gone \in SUBSET DOMAIN log, NEW failure \in BOOLEAN, NEW mine \in BOOLEAN,
           Erase(gone, failure, mine)
    PROVE  SyncInv' /\ (OwnerInv => OwnerInv')
<1>1. PICK n, rev : n = Len(log') /\ rev = revision + 1
  OBVIOUS
<1>2. PICK row : row = [seq |-> n, rev |-> rev, kind |-> "marker", body |-> "text"]
  OBVIOUS
<1>3. PICK d, g : d = client /\ g = socket
  OBVIOUS
<1>4. /\ Grows /\ n \in DOMAIN log' /\ Len(log) < n
      /\ log'[n] = [readable |-> TRUE, kind |-> "marker", rev |-> rev, gone |-> FALSE]
      /\ socket' = FanOut(g, n, TRUE, row) /\ client' = d /\ revision' = rev
      /\ receipts' \subseteq receipts \cup {[rev |-> rev, seq |-> n]}
  BY <1>1, <1>2, <1>3, EraseGrows
<1>5. /\ Len(log) \in Nat /\ revision \in Nat /\ Len(log') \in Nat /\ DOMAIN log' = 1..Len(log')
      /\ n = Len(log') /\ n \in Nat \ {0} /\ rev \in Nat /\ revision < rev
  <2>1. /\ Len(log) \in Nat /\ revision \in Nat /\ Len(log') \in Nat /\ DOMAIN log' = 1..Len(log')
    BY <1>4, GrowsIs
  <2>2. n = Len(log') /\ n \in Nat \ {0} /\ rev \in Nat /\ revision < rev
    BY <1>1, <1>4, <2>1
  <2> QED
    BY <2>1, <2>2
<1>6. /\ row \in Rows /\ row.seq = n /\ row.rev = rev
      /\ log'[n].readable = TRUE /\ log'[n].rev = rev /\ log'[n].gone = FALSE /\ log'[n].kind = "marker"
  <2>1. row \in Rows /\ row.seq = n /\ row.rev = rev
    BY <1>2, <1>5 DEF Rows
  <2> QED
    BY <1>4, <2>1
<1>7. RowTrue(row)'
  <2>1. Precedes(n, rev)'
    BY <1>4, <1>6 DEF Grows, LogTrue
  <2> QED
    BY <1>4, <1>5, <1>6, <2>1 DEF RowTrue, Fresh
<1>8. Published(n, TRUE, row)'
  BY <1>5, <1>6, <1>7 DEF Published
<1>9. ASSUME NEW r \in receipts' PROVE r.rev \in 0..revision' /\ r.seq \in 0..Len(log')
  <2>1. CASE r \in receipts
    <3>1. r.rev \in 0..revision /\ r.seq \in 0..Len(log)
      BY <2>1 DEF SyncInv
    <3> QED
      BY <1>4, <1>5, <3>1
  <2>2. CASE r = [rev |-> rev, seq |-> n]
    BY <1>4, <1>5, <2>2
  <2> QED
    BY <1>4, <2>1, <2>2
<1>10. Followed(n)
  BY <1>6 DEF Followed
<1>11. TRUE \in BOOLEAN
  OBVIOUS
<1> QED
  BY <1>3, <1>4, <1>8, <1>9, <1>10, <1>11, FanOutKeeps

-----------------------------------------------------------------------------
(* The theorems.                                                           *)

LEMMA SyncInit == Init => SyncInv /\ OwnerInv
<1> SUFFICES ASSUME Init PROVE SyncInv /\ OwnerInv
  OBVIOUS
<1>1. /\ log = <<>> /\ revision = 0 /\ owner \in BOOLEAN /\ receipts = {}
      /\ client = IdleClient /\ socket = [s \in Sockets |-> NoConnection]
  BY DEF Init
<1>2. LogTrue
  <2>1. log \in Seq(Entries) /\ Len(log) = 0 /\ DOMAIN log = {}
    BY <1>1
  <2>2. MaxSeq \in Nat /\ MaxErase \in Nat
    BY SyncAssumption
  <2> QED
    BY <1>1, <2>1, <2>2 DEF LogTrue
<1>3. ClientTrue(IdleClient) /\ OwnerTrue(IdleClient)
  BY <1>2, SyncAssumption, IdleIs
<1>4. StateTrue(client, socket) /\ OwnerState(client, socket)
  BY <1>1, <1>2, <1>3, NewPage
<1> QED
  BY <1>1, <1>2, <1>4 DEF SyncInv, OwnerInv

\* Every step keeps the invariant, and the owner's.
LEMMA SyncStep == SyncInv /\ [Next]_vars => SyncInv' /\ (OwnerInv => OwnerInv')
<1> SUFFICES ASSUME SyncInv, [Next]_vars PROVE SyncInv' /\ (OwnerInv => OwnerInv')
  OBVIOUS
<1>1. ASSUME NEW readable \in BOOLEAN, AppendEvent(readable) PROVE SyncInv' /\ (OwnerInv => OwnerInv')
  BY <1>1, AppendKeeps
<1>2. ASSUME NEW gone \in SUBSET DOMAIN log, NEW failure \in BOOLEAN, NEW mine \in BOOLEAN,
             Erase(gone, failure, mine)
      PROVE  SyncInv' /\ (OwnerInv => OwnerInv')
  BY <1>2, EraseKeeps
<1>3. ASSUME NEW s \in Sockets,
             \/ Subscribe(s) \/ PageSent(s) \/ Receive(s) \/ ReplayFails(s) \/ SubscribeRefused(s)
             \/ \E k \in 0..Len(socket[s].wire) : Drop(s, k)
      PROVE  SyncInv' /\ (OwnerInv => OwnerInv')
  BY <1>3, SubscribeKeeps, PageSentKeeps, ReceiveKeeps, ReplayFailsKeeps, SubscribeRefusedKeeps, DropKeeps
<1>4. ASSUME NEW i \in DOMAIN client.recs, ReplayAnswered(i) \/ ReplayArrives(i) \/ ReplayLost(i)
      PROVE  SyncInv' /\ (OwnerInv => OwnerInv')
  BY <1>4, ReplayAnsweredKeeps, ReplayArrivesKeeps, ReplayLostKeeps
<1>5. ASSUME NEW i \in DOMAIN client.opening, TicketFails(i) \/ \E s \in Sockets : SocketOpens(i, s)
      PROVE  SyncInv' /\ (OwnerInv => OwnerInv')
  BY <1>5, TicketFailsKeeps, SocketOpensKeeps
<1>6. CASE TimerFires \/ RetryClicked \/ Connect \/ Disconnect
  BY <1>6, TimerFiresKeeps, RetryClickedKeeps, ConnectKeeps, DisconnectKeeps
<1>7. ASSUME NEW r \in receipts, ReceiptArrives(r) PROVE SyncInv' /\ (OwnerInv => OwnerInv')
  BY <1>7, ReceiptArrivesKeeps
<1>8. CASE UNCHANGED vars
  <2>1. PICK d, f : d = client /\ f = socket
    OBVIOUS
  <2>2. /\ UNCHANGED <<log, revision, owner>> /\ receipts' \subseteq receipts /\ client' = d /\ socket' = f
    BY <1>8, <2>1 DEF vars
  <2>3. StateTrue(d, f) /\ (Owned /\ OwnerState(client, socket) => OwnerState(d, f))
    BY <2>1 DEF SyncInv
  <2> QED
    BY <2>2, <2>3, StepKeeps
<1> QED
  BY <1>1, <1>2, <1>3, <1>4, <1>5, <1>6, <1>7, <1>8 DEF Next

\* The invariant holds in every state, for every value of the constants.
THEOREM SyncInvariant == Spec => []SyncInv
<1>1. Init => SyncInv
  BY SyncInit
<1>2. SyncInv /\ [Next]_vars => SyncInv'
  BY SyncStep
<1> QED
  BY <1>1, <1>2, PTL DEF Spec

\* Once the client knows a content revision, nothing that the revision erased is shown
\* or waits to be shown, whichever path delivered it and whatever was in flight
\* (realtime.js invalidateContent, #recover and the socket's listeners); and positions
\* never point past the log.
THEOREM TimelineIsSound == Spec => []TimelineSound
<1>1. SyncInv => TimelineSound
  <2> SUFFICES ASSUME SyncInv PROVE TypeOK /\ ErasedStaysHidden
    BY DEF TimelineSound
  <2>1. /\ LogTrue /\ ClientTrue(client) /\ client \in Clients /\ socket \in [Sockets -> Connections]
        /\ Len(log) \in Nat /\ revision \in Nat
    BY LogIs DEF SyncInv, StateTrue, ClientTrue
  <2>2. /\ client.phase \in Phases /\ client.socket \in Sockets \cup {NoSocket}
        /\ client.cursor \in Nat /\ client.head \in Nat /\ client.rev \in Nat
        /\ client.events \in Seq(Rows) /\ client.recs \in Seq(Recs)
    BY <2>1 DEF Clients
  <2>3. ASSUME NEW r \in Range(client.recs)
        PROVE  r.before \in 0..Len(log) /\ r.then \in {"none", "open", "swallow"}
    <3>1. PICK i \in DOMAIN client.recs : r = client.recs[i]
      BY DEF Range
    <3>2. r \in Recs /\ RecoveryTrue(client, r)
      BY <2>1, <2>2, <3>1 DEF ClientTrue
    <3> QED
      BY <2>1, <3>2 DEF Recs, RecoveryTrue
  <2>4. \A s \in Sockets : socket[s].state \in {"none", "open", "closing"}
    BY <2>1 DEF Connections
  <2>5. TypeOK
    BY <2>1, <2>2, <2>3, <2>4 DEF TypeOK, ClientTrue, LogTrue
  <2>6. ASSUME NEW e \in Range(client.events) \cup client.buffer, e.body = "text", log[e.seq].gone,
               log[e.seq].rev <= client.rev
        PROVE  FALSE
    <3>1. Fresh(e, client.rev)
      BY <2>1, <2>6 DEF ClientTrue, Range
    <3>2. log[e.seq].rev > client.rev /\ log[e.seq].rev \in Nat
      BY <2>1, <2>6, <3>1, LogIs DEF Fresh
    <3> QED
      BY <2>2, <2>6, <3>2
  <2> QED
    BY <2>5, <2>6 DEF ErasedStaysHidden
<1> QED
  BY <1>1, SyncInvariant, PTL

\* What a connection still has to deliver leaves out nothing the reader may read that no
\* marker follows: page after page, then live (server.ts, the "connection" handler and
\* the fan-out of published events).
THEOREM WireIsComplete == Spec => []WireComplete
<1>1. SyncInv => WireComplete
  <2> SUFFICES ASSUME SyncInv, NEW s \in Sockets, NEW i \in DOMAIN socket[s].wire, NEW j \in DOMAIN socket[s].wire,
                      j = i + 1, Reaches(socket[s].wire[i]) > 0, Reaches(socket[s].wire[j]) > 0
               PROVE  LET w == socket[s].wire
                          between == {n \in Readable : Reaches(w[i]) < n /\ n <= Reaches(w[j])}
                      IN  between \subseteq Carries(w[j]) \/ \E n \in between : log[n].kind = "marker"
    BY DEF WireComplete
  <2>1. WireTrue(socket[s].wire)
    BY DEF SyncInv, StateTrue, ConnectionTrue
  <2>2. Complete(socket[s].wire[i], socket[s].wire[j])
    BY <2>1 DEF WireTrue
  <2> QED
    BY <2>2 DEF Complete
<1> QED
  BY <1>1, SyncInvariant, PTL

\* As long as no retry overtakes a refresh (realtime.js retry, which does not look for a
\* recovery in flight), an owner's timeline is the log up to the cursor, in its order.
THEOREM OwnerSeesAll ==
    ASSUME "overlap" \notin Faults
    PROVE  Spec => []OwnerMissesNothing
<1>1. SyncInv /\ OwnerInv => OwnerMissesNothing
  <2> SUFFICES ASSUME SyncInv, OwnerInv, owner PROVE NothingLost /\ TimelineOrdered
    BY DEF OwnerMissesNothing
  <2>1. LogTrue /\ ClientTrue(client) /\ client \in Clients /\ OwnerTrue(client)
    BY DEF SyncInv, StateTrue, ClientTrue, OwnerInv, Owned, OwnerState
  <2>2. client.events \in Seq(Rows) /\ client.cursor \in Nat /\ DOMAIN client.events = 1..Len(client.events)
        /\ DOMAIN log \subseteq Nat \ {0}
    BY <2>1, LogIs DEF Clients
  <2>3. \A i \in DOMAIN client.events : client.events[i].seq = i
    BY <2>1 DEF OwnerTrue
  <2>4. TimelineOrdered
    BY <2>2, <2>3 DEF TimelineOrdered
  <2>5. NothingLost
    <3> SUFFICES ASSUME ~client.refreshing, NEW n \in Readable, n <= client.cursor PROVE n \in Shown
      BY DEF NothingLost
    <3>1. Len(client.events) = client.cursor
      BY <2>1 DEF OwnerTrue
    <3>2. n \in DOMAIN client.events
      BY <2>2, <3>1 DEF Readable
    <3> QED
      BY <2>3, <3>2 DEF Shown, Range
  <2> QED
    BY <2>4, <2>5
<1>2. Init => SyncInv /\ OwnerInv
  BY SyncInit
<1>3. SyncInv /\ OwnerInv /\ [Next]_vars => (SyncInv /\ OwnerInv)'
  BY SyncStep
<1> QED
  BY <1>1, <1>2, <1>3, PTL DEF Spec
=============================================================================
