-------------------------- MODULE CodeRepository --------------------------
(***************************************************************************)
(* The cloud code of one project (apps/server/src/code-repository.ts, and  *)
(* the removal of a member in database.ts): heads, reviews and retry       *)
(* receipts in SQLite, commits in a bare Git store, Git refs derived from  *)
(* the heads, and the daily maintenance that prunes the store              *)
(* (scripts/prune-code-objects.mjs).                                       *)
(*                                                                         *)
(* A server call runs without yielding, but other processes run between    *)
(* its Git commands, and it may die between any two of them: objects are   *)
(* written first, then the transaction commits, then the refs are          *)
(* repaired.  The maintenance works from a snapshot of the heads; while it *)
(* holds the lock no Git command of the server can run.                    *)
(*                                                                         *)
(* A commit is its place in "commits" and keeps its tree and its own       *)
(* history.  Quotas, secret checks and archived projects only refuse a     *)
(* request and are left out; so is the removal, 30 days later, of the      *)
(* receipts a cleanup has voided.                                          *)
(***************************************************************************)
EXTENDS Naturals, Sequences, FiniteSets

CONSTANTS Owner,        \* the project's owner
          Writer,       \* the members who keep a branch, the owner among them or not
          File, Content, Absent,
          MaxSends,     \* bound on the requests of the browsers
          MaxResends,   \* bound on retries of the same request
          MaxCommits,   \* bound on the commits of the store
          MaxCrashes    \* bound on server crashes

ASSUME CodeAssumption ==
  /\ Absent \in Content
  /\ "main" \notin Writer
  /\ {MaxSends, MaxResends, MaxCommits, MaxCrashes} \subseteq Nat /\ MaxCommits >= 2

None   == 0             \* no commit
Member == Writer \cup {Owner}
Ref    == Writer \cup {"main"}
Tree   == [File -> Content]
Empty  == [f \in File |-> Absent]

VARIABLES commits,   \* every commit ever made: [tree, past]
          stored,    \* the commits whose objects are in the Git store
          old,       \* those of them past the maintenance's retention
          refs,      \* refs/heads
          repo,      \* the code_repositories row
          branch,    \* the code_branches rows
          members,   \* who has a role in the project
          receipts,  \* the code_mutations rows
          submitted, \* ghost: the head each branch was last submitted at
          applied,   \* ghost: the keys that took effect
          wire,      \* requests on their way to the server
          server,    \* the request being served
          keeper,    \* the maintenance run
          timer,     \* whether the deployment schedules the maintenance
          sends, resends, crashes   \* how many may still happen

rows     == <<repo, branch, members, receipts, submitted, applied>>
limits   == <<timer, sends, resends, crashes>>
codeVars == <<commits, stored, old, refs, rows, wire, server, keeper, limits>>

Idle     == [at |-> "idle"]
NoBranch == [head |-> None, review |-> "none"]

Tip(m)      == branch[m].head
HasBranch(m) == branch[m] # NoBranch
HeadIs(m, c) == HasBranch(m) /\ Tip(m) = c
Heads        == [r \in Ref |-> IF r = "main" THEN repo.main ELSE Tip(r)]
Base(m)      == IF HasBranch(m) THEN Tip(m) ELSE repo.main
Open         == repo.main # None /\ repo.enabled      \* requireRepo
Past(c)      == IF c = None THEN {} ELSE commits[c].past
Reach(heads) == UNION {Past(heads[r]) : r \in Ref}
-----------------------------------------------------------------------------
(* Requests.  A request names the heads its sender saw.                    *)

OwnerOnly == {"enable", "disable", "merge", "clearProject"}
Leaving   == {"leave", "leaveMerged"}   \* a member removed, or leaving

Ask(op, m) == [op |-> op, by |-> m, of |-> m, key |-> [click |-> None], base |-> None,
               main |-> None, heads |-> [r \in Ref |-> None], tree |-> Empty,
               device |-> FALSE]

\* A request about one head, a merge into main, a changed file.
OnHead(op, m, w) == [Ask(op, m) EXCEPT !.of = w, !.base = Tip(w)]
Merge(m, w)      == [Ask("merge", m) EXCEPT !.of = w, !.base = Tip(w), !.main = repo.main]
Save(m, f, v)    == [Ask("save", m) EXCEPT !.base = Base(m),
                                           !.tree = [commits[Base(m)].tree EXCEPT ![f] = v]]

\* What the browser of a member may ask for with the status it has on screen:
\* what the owner alone may do, and what all do with a branch of their own.
Decisions(m) ==
  {Ask("enable", m), Ask("disable", m)}
  \cup {[Ask("clearProject", m) EXCEPT !.main = repo.main, !.heads = Heads]}
  \cup {Merge(m, w) : w \in {w \in Writer : branch[w].review = "requested"}}

Contributions(m) ==
  {OnHead(op, m, m) : op \in {"review", "clearBranch"}}
  \cup {[Ask("update", m) EXCEPT !.base = Tip(m), !.main = repo.main]}
  \cup {Save(m, f, v) : f \in {f \in File : Base(m) # None}, v \in Content}

Departures(m) ==
  {OnHead(op, m, w) : op \in Leaving, w \in (IF m = Owner THEN Writer ELSE {m}) \ {Owner}}

Requests(m) == Departures(m)
               \cup (IF m = Owner THEN Decisions(m) ELSE {})
               \cup (IF m \in Writer THEN Contributions(m) ELSE {})

Served == IF server = Idle THEN {} ELSE {server.body}

\* A browser has one request under way.
Send(m) ==
  /\ sends > 0 /\ \A b \in wire \cup Served : b.by # m \/ b.device
  /\ \E b \in Requests(m) : wire' = wire \cup {[b EXCEPT !.key = [click |-> sends]]}
  /\ sends' = sends - 1
  /\ UNCHANGED <<commits, stored, old, refs, rows, server, keeper, timer, resends, crashes>>

\* The reply of b did not arrive, and the browser sends the same request with
\* the same key: "Retry operation" of the file workspace, and what the key
\* allows for every other request.
Retry(b) ==
  \/ UNCHANGED <<wire, resends>>
  \/ /\ resends > 0 /\ ~b.device
     /\ wire' = wire \cup {b}
     /\ resends' = resends - 1

\* authorize and the checks of each operation, under the write lock.
Accepts(b) ==
  /\ b.by \in members
  /\ b.op \in OwnerOnly => b.by = Owner
  /\ b.op \in {"disable", "save", "review", "merge", "update"} => Open
  /\ b.op \in {"review", "merge", "update", "clearBranch"} => HeadIs(b.of, b.base)
  /\ b.op \in {"merge", "update"} => repo.main = b.main
  /\ b.op = "save" => b.base = Base(b.by)
  /\ b.op = "merge" => branch[b.of].review = "requested"
  /\ b.op = "clearProject" => repo.main # None /\ repo.main = b.main /\ Heads = b.heads
  /\ b.op \in Leaving => b.of \in members \ {Owner} /\ Tip(b.of) = b.base
  /\ b.op = "leaveMerged" => branch[b.of].review = "merged"

\* A cleanup forgets the receipts it voids.
Known_Live(b) == b.op \notin Leaving /\ \E r \in receipts : r.key = b.key /\ r.live

\* The receipt of an earlier delivery answers a retry; leaving has none.
Known(b) == b.op \notin Leaving /\ \E r \in receipts : r.key = b.key
-----------------------------------------------------------------------------
(* Git objects.                                                            *)

\* git merge-base, and a three-way merge of each file.
MergeBases(x, y) ==
  LET common == Past(x) \cap Past(y)
  IN  {c \in common : \A d \in common : c \in Past(d) => d = c}

MergeTrees(x, y) ==
  LET ours == commits[x].tree  theirs == commits[y].tree
      Clean(was)  == \A f \in File : was[f] \in {ours[f], theirs[f]} \/ ours[f] = theirs[f]
      Joined(was) == [f \in File |-> IF ours[f] = was[f] THEN theirs[f] ELSE ours[f]]
  IN  {Joined(was) : was \in {w \in {commits[c].tree : c \in MergeBases(x, y)} : Clean(w)}}

New(tree, parents) ==
  [tree |-> tree, past |-> {Len(commits) + 1} \cup UNION {Past(p) : p \in parents}]

\* Whether a request needs a new commit, and those it may write; none for a
\* merge with conflicts, which is an error.
Writes(b) == \/ b.op = "enable" /\ repo.main = None
             \/ b.op = "clearProject"
             \/ b.op = "save" /\ b.tree # commits[b.base].tree
             \/ b.op \in {"merge", "update"} /\ repo.main # b.base
Written(b) ==
  CASE b.op \in {"enable", "clearProject"} -> {New(Empty, {})}
    [] b.op = "save" -> {New(b.tree, {b.base})}
    [] b.op \in {"merge", "update"} ->
         {New(t, {repo.main, b.base}) : t \in MergeTrees(repo.main, b.base)}
-----------------------------------------------------------------------------
(* Serving a request.                                                      *)

\* mutate up to COMMIT, for an operation that writes Git objects.
Write(b) ==
  /\ server = Idle /\ keeper = Idle
  /\ b.op \notin Leaving /\ Accepts(b) /\ ~Known(b) /\ Writes(b)
  /\ Len(commits) < MaxCommits
  /\ \E c \in Written(b) : commits' = Append(commits, c)
  /\ stored' = stored \cup {Len(commits) + 1}
  /\ server' = [at |-> "written", body |-> b, commit |-> Len(commits) + 1]
  /\ wire' = wire \ {b}
  /\ UNCHANGED <<old, refs, rows, keeper, limits>>

Void(void) == {[r EXCEPT !.live = @ /\ r.by \notin void] : r \in receipts}

\* What COMMIT makes visible: the rows of one operation with result c.
Install(b, c) ==
  /\ repo' = CASE b.op = "enable" -> [main |-> c, enabled |-> TRUE]
               [] b.op = "disable" -> [repo EXCEPT !.enabled = FALSE]
               [] b.op = "merge" -> [repo EXCEPT !.main = c]
               [] b.op = "clearProject" -> [main |-> c, enabled |-> FALSE]
               [] OTHER -> repo
  /\ branch' = CASE b.op = "save" ->
                      [branch EXCEPT ![b.of] = [head |-> c,
                         review |-> IF HeadIs(b.of, c) THEN @.review ELSE "draft"]]
                 [] b.op = "update" ->
                      [branch EXCEPT ![b.of] = [head |-> c, review |-> "draft"]]
                 [] b.op = "review" -> [branch EXCEPT ![b.of].review = "requested"]
                 [] b.op = "merge" -> [branch EXCEPT ![b.of].review = "merged"]
                 [] b.op = "clearBranch" -> [branch EXCEPT ![b.of] = NoBranch]
                 [] b.op = "clearProject" -> [w \in Writer |-> NoBranch]
                 [] OTHER -> branch
  /\ receipts' = Void(CASE b.op = "clearProject" -> Member
                        [] b.op = "clearBranch" -> {b.by}
                        [] OTHER -> {})
                 \cup {[key |-> b.key, by |-> b.by, live |-> TRUE, commit |-> c]}
  /\ submitted' = CASE b.op = "review" -> [submitted EXCEPT ![b.of] = c]
                    [] b.op = "clearBranch" -> [submitted EXCEPT ![b.of] = None]
                    [] b.op = "clearProject" -> [w \in Writer |-> None]
                    [] OTHER -> submitted
  /\ applied' = applied \cup {b.key}
  /\ server' = [at |-> "committed", body |-> b, commit |-> c]
  /\ UNCHANGED <<commits, stored, old, refs, members, keeper, limits>>

Commit ==
  /\ server.at = "written"
  /\ Install(server.body, server.commit)
  /\ UNCHANGED wire

\* The same for an operation that writes no commit; some still run Git.
Alter(b) ==
  /\ server = Idle
  /\ b.op \in {"save", "merge", "update"} => keeper = Idle
  /\ b.op \notin Leaving /\ Accepts(b) /\ ~Known(b) /\ ~Writes(b)
  /\ Install(b, IF b.op \in {"enable", "disable"} THEN repo.main ELSE b.base)
  /\ wire' = wire \ {b}

\* removeProjectMemberInsideTransaction: it keeps no receipt of its own.
Leave(b) ==
  /\ server = Idle
  /\ b.op \in Leaving /\ Accepts(b)
  /\ branch' = [branch EXCEPT ![b.of] = NoBranch]
  /\ receipts' = Void(IF HasBranch(b.of) THEN {b.of} ELSE {})
  /\ members' = members \ {b.of}
  /\ submitted' = [submitted EXCEPT ![b.of] = None]
  /\ applied' = applied \cup {b.key}
  /\ server' = [at |-> "committed", body |-> b, commit |-> None]
  /\ wire' = wire \ {b}
  /\ UNCHANGED <<commits, stored, old, refs, repo, keeper, limits>>

\* A request that is not accepted, or fails, changes nothing, and the reply of
\* an earlier delivery is only repeated.
Refuse(b) ==
  /\ server = Idle
  /\ wire' = wire \ {b}
  /\ UNCHANGED <<commits, stored, old, refs, rows, server, keeper, limits>>

\* repairRefs: a failure, or a maintenance that holds the lock, is ignored.
Repair ==
  /\ server.at = "committed"
  /\ refs' \in {refs} \cup {h \in {Heads} : keeper = Idle}
  /\ server' = Idle
  /\ Retry(server.body)
  /\ UNCHANGED <<commits, stored, old, rows, keeper, timer, sends, crashes>>

\* The server dies; SQLite rolls an open transaction back.
Crash ==
  /\ server # Idle /\ crashes > 0
  /\ server' = Idle
  /\ Retry(server.body)
  /\ crashes' = crashes - 1
  /\ UNCHANGED <<commits, stored, old, refs, rows, keeper, timer, sends>>
-----------------------------------------------------------------------------
(* The maintenance.                                                        *)

\* Thirteen days pass; no call and no maintenance run takes that long.
Age ==
  /\ timer /\ server = Idle /\ keeper = Idle /\ old # stored
  /\ old' = stored
  /\ UNCHANGED <<commits, stored, refs, rows, wire, server, keeper, limits>>

\* pruneCodeObjects reads the heads once, with the lock already held.
Snapshot ==
  /\ timer /\ keeper = Idle /\ repo.main # None
  /\ keeper' = [at |-> "holding", heads |-> Heads]
  /\ UNCHANGED <<commits, stored, old, refs, rows, wire, server, limits>>

\* git gc --prune=now.
Sweep_Now ==
  /\ keeper.at = "holding"
  /\ refs' = keeper.heads
  /\ stored' = stored \cap Reach(keeper.heads)
  /\ old' = old \cap Reach(keeper.heads)
  /\ keeper' = Idle
  /\ UNCHANGED <<commits, rows, wire, server, limits>>

\* Only the objects are collected.
Sweep_RefsAlone ==
  /\ keeper.at = "holding"
  /\ stored' = stored \ (old \ Reach(keeper.heads))
  /\ old' = old \cap Reach(keeper.heads)
  /\ keeper' = Idle
  /\ UNCHANGED <<commits, refs, rows, wire, server, limits>>

\* It puts the refs at those heads and collects what is old and unreachable.
Sweep ==
  /\ keeper.at = "holding"
  /\ refs' = keeper.heads
  /\ stored' = stored \ (old \ Reach(keeper.heads))
  /\ old' = old \cap Reach(keeper.heads)
  /\ keeper' = Idle
  /\ UNCHANGED <<commits, rows, wire, server, limits>>
-----------------------------------------------------------------------------
Root == [tree |-> Empty, past |-> {1}]
Saved(f, v) ==[tree |-> [Empty EXCEPT ![f] = v], past |-> {1, 2}]

\* A project without code, one whose owner enabled it some time ago, or one
\* where a member has uploaded a file since.
CodeInit(start) ==
  /\ \E f \in File, v \in Content \ {Absent} :
       commits = SubSeq(<<Root, Saved(f, v)>>, 1, start)
  /\ repo = [main |-> IF start = 0 THEN None ELSE 1, enabled |-> start > 0]
  /\ \E w \in Writer :
       branch = IF start < 2 THEN [m \in Writer |-> NoBranch]
                ELSE [[m \in Writer |-> NoBranch] EXCEPT ![w] = [head |-> 2, review |-> "draft"]]
  /\ refs = Heads
  /\ stored = DOMAIN commits /\ old = {}
  /\ members = Member
  /\ receipts = {} /\ applied = {} /\ submitted = [w \in Writer |-> None]
  /\ wire = {} /\ server = Idle /\ keeper = Idle
  /\ timer \in BOOLEAN
  /\ sends \in 0..MaxSends /\ resends \in 0..MaxResends /\ crashes \in 0..MaxCrashes

CodeNext ==
  \/ \E m \in Member : Send(m)
  \/ \E b \in wire : Write(b) \/ Alter(b) \/ Leave(b) \/ Refuse(b)
  \/ Commit \/ Crash
  \/ Age \/ Snapshot \/ Sweep
-----------------------------------------------------------------------------
(* Properties.                                                             *)

Id == 0..MaxCommits
CodeTypeOK ==
  /\ commits \in Seq([tree : Tree, past : SUBSET Id])
  /\ Len(commits) <= MaxCommits
  /\ old \subseteq stored /\ stored \subseteq 1..Len(commits)
  /\ refs \in [Ref -> Id] /\ Heads \in [Ref -> Id]
  /\ repo.enabled \in BOOLEAN
  /\ \A w \in Writer : branch[w].review \in {"none", "draft", "requested", "merged"}
  /\ members \subseteq Member
  /\ server.at \in {"idle", "written", "committed"} /\ keeper.at \in {"idle", "holding"}
  /\ sends \in 0..MaxSends /\ resends \in 0..MaxResends /\ crashes \in 0..MaxCrashes

\* No head the database or a ref names, and nothing in their history, is ever
\* missing from the store: not while an object waits for its transaction, not
\* after a crash left the refs behind, not when rows change under a sweep.
HeadsStored ==
  /\ Reach(Heads) \cup Reach(refs) \subseteq stored
  /\ server.at = "written" => Past(server.commit) \subseteq stored
  /\ keeper.at = "holding" => Reach(keeper.heads) \subseteq stored

\* The store is typed and complete.
StoreSound == CodeTypeOK /\ HeadsStored

\* A branch marked merged is in main: its author may then leave as "merged".
MergedIsInMain ==
  \A w \in Writer : branch[w].review = "merged" => Tip(w) \in Past(repo.main)

Lands == server.at # "committed" /\ server'.at = "committed"

\* Shared main receives a member's work only if its author submitted exactly
\* that head and has not withdrawn the branch since.
MergedAsReviewed ==
  Lands /\ server'.body.op = "merge"
    => submitted[server'.body.of] = server'.body.base

\* However often a request is delivered, and whatever was cleared since, it
\* takes effect once.
AppliedOnce == Lands => server'.body.key \notin applied

\* main and every branch only move forward, except where somebody clears them.
Forward(m, n) == m \in commits'[n].past
FastForwardOnly ==
  /\ \A w \in Writer : Tip(w) # None /\ branch'[w].head # None
                        => Forward(Tip(w), branch'[w].head)
  /\ repo.main # None /\ repo'.main # repo.main
       => \/ Forward(repo.main, repo'.main)
          \/ Lands /\ server'.body.op = "clearProject"

\* What the shared history promises its members, of states and of steps.
HistorySound ==
  []MergedIsInMain /\ [][MergedAsReviewed /\ AppliedOnce /\ FastForwardOnly]_codeVars

\* The refs follow the heads in the end, however often a repair failed.
RefsCatchUp == timer => <>[](refs = Heads)
=============================================================================
