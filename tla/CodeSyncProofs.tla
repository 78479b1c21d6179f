--------------------------- MODULE CodeSyncProofs ---------------------------
(***************************************************************************)
(* Theorems of CodeSync and of the repository it is composed with, for any *)
(* members, files and bounds: the store never misses an object that a head *)
(* needs, the shared history keeps its promises, and a workspace knows     *)
(* what it is based on and loses no local work but a save between the last *)
(* check of a file and its replacement.                                    *)
(***************************************************************************)
EXTENDS CodeSync, TLAPS, SequenceTheorems

Made == 1..Len(commits)
Some == {None} \cup Made

Op == OwnerOnly \cup Leaving \cup {"save", "review", "update", "clearBranch"}
Click     == [click : Nat]
DeviceKey == [base : Nat, tree : Tree]
Request   == [op : Op, by : Member, of : Member, key : Click \cup DeviceKey, base : Nat,
              main : Nat, heads : [Ref -> Nat], tree : Tree, device : BOOLEAN]
Receipt   == [key : Click \cup DeviceKey, by : Member, live : BOOLEAN, commit : Nat]
Row       == [head : Nat, review : {"none", "draft", "requested", "merged"}]
-----------------------------------------------------------------------------
(* The inductive invariant.                                                *)

\* Commits are made whole, with a history that is closed.
GraphOK ==
  /\ commits \in Seq([tree : Tree, past : SUBSET Nat])
  /\ Len(commits) <= MaxCommits
  /\ \A c \in Made : /\ c \in Past(c) /\ Past(c) \subseteq Made
                     /\ \A d \in Past(c) : Past(d) \subseteq Past(c)

RowsOK ==
  /\ branch \in [Writer -> Row] /\ submitted \in [Writer -> Nat]
  /\ repo \in [main : Nat, enabled : BOOLEAN]
  /\ repo.main \in Some
  /\ \A w \in Writer : /\ Tip(w) \in Some
                       /\ Tip(w) = None => ~HasBranch(w)
                       /\ branch[w].review = "requested" => submitted[w] = Tip(w)
                       /\ branch[w].review = "merged" => Tip(w) \in Past(repo.main)
  /\ members \subseteq Member

\* A request that may take effect with commit c.
Ready(b, c) ==
  /\ b.op \notin Leaving /\ Accepts(b) /\ ~Known(b)
  /\ c \in Some /\ Past(c) \subseteq stored /\ Past(c) \cap old \subseteq Reach(Heads)
  /\ b.op = "save" => c # None /\ commits[c].tree = b.tree
  /\ b.op \in {"save", "merge", "update"} => c # None /\ b.base \in Past(c)
  /\ b.op \in {"merge", "update"} => repo.main \in Past(c)
  /\ b.op \in {"enable", "clearProject"} => c # None
  /\ b.op = "enable" => repo.main \in {None, c}
  /\ b.op = "review" => c = b.base

ServerOK ==
  \/ server = Idle
  \/ /\ server = [at |-> server.at, body |-> server.body, commit |-> server.commit]
     /\ server.at \in {"written", "committed"} /\ server.commit \in Some
     /\ server.at = "written" => Ready(server.body, server.commit)
     /\ server.at = "committed" /\ server.body.op = "save"
          => server.commit # None /\ commits[server.commit].tree = server.body.tree

StoreOK ==
  /\ refs \in [Ref -> Some]
  /\ old \subseteq stored /\ stored \subseteq Made
  /\ Reach(Heads) \cup Reach(refs) \subseteq stored
  /\ \/ keeper = Idle
     \/ /\ keeper = [at |-> "holding", heads |-> keeper.heads]
        /\ keeper.heads \in [Ref -> Some]
        /\ Reach(keeper.heads) \subseteq stored
        /\ Reach(Heads) \cap old \subseteq Reach(keeper.heads)

\* A key belongs to one request; what it left behind is its receipt, or, for
\* a member who left, that membership.
Given(k) == \E r \in receipts : r.key = k
BodyOK(b) ==
  /\ b \in Request
  /\ b.op \in Leaving \cup {"merge"} => b.of \in Writer
  /\ b.op \in {"save", "review", "update", "clearBranch"} => b.of = b.by /\ b.of \in Writer
  /\ IF b.device THEN b = Body(b.base, b.tree) ELSE b.key \in Click
KeysOK ==
  /\ receipts \subseteq Receipt
  /\ \A r \in receipts : r.commit \in Some
  /\ \A r \in receipts : r.key \in DeviceKey => r.commit # None /\ commits[r.commit].tree = r.key.tree
  /\ applied \subseteq Click \cup DeviceKey
  /\ \A k \in Click : k \in applied \/ Given(k) => k.click > sends
  /\ \A k \in applied : Given(k) \/ k \in Click
WireOK ==
  /\ \A b \in wire \cup Served : BodyOK(b) /\ (b.key \in Click => b.key.click > sends)
  /\ \A a, b \in wire \cup Served : a.key = b.key => a = b
  /\ \A b \in wire \cup Served : b.op \in Leaving => ~Given(b.key)
  /\ \A b \in wire \cup Served : b.key \in applied
                                   => Given(b.key) \/ (b.op \in Leaving /\ b.of \notin members)

\* The workspace, and the operation under way.
WorkOK ==
  /\ files \in Tree /\ last \in Tree /\ backups \subseteq Tree
  /\ edits \in 0..MaxEdits /\ overtaken \subseteq File
  /\ binding \in [base : Nat, baseline : Tree, torn : BOOLEAN] /\ binding.base \in Some
  /\ BaselineTrue /\ LocalWorkKept
DevOK ==
  \/ dev = Idle
  \/ /\ dev.at = "posted" /\ dev = [at |-> "posted", body |-> dev.body]
     /\ BodyOK(dev.body) /\ dev.body.device
  \/ /\ dev.at = "answered" /\ dev = [at |-> "answered", body |-> dev.body, commit |-> dev.commit]
     /\ dev.commit \in Made /\ dev.body.tree = commits[dev.commit].tree
  \/ /\ dev.at = "placing" /\ dev = [at |-> "placing", commit |-> dev.commit, tree |-> dev.tree, todo |-> dev.todo]
     /\ dev.commit \in Made /\ dev.tree = commits[dev.commit].tree /\ dev.todo \subseteq File
     /\ binding.baseline \in backups
  \/ /\ dev.at = "checked"
     /\ dev = [at |-> "checked", commit |-> dev.commit, tree |-> dev.tree,
               todo |-> dev.todo, file |-> dev.file, seen |-> dev.seen]
     /\ dev.commit \in Made /\ dev.tree = commits[dev.commit].tree /\ dev.todo \subseteq File
     /\ binding.baseline \in backups
     /\ dev.file \in File /\ dev.seen = binding.baseline[dev.file]

RepositoryOK == GraphOK /\ RowsOK /\ ServerOK /\ StoreOK
LimitsOK     == sends \in 0..MaxSends /\ resends \in 0..MaxResends /\ crashes \in 0..MaxCrashes
RequestsOK   == LimitsOK /\ KeysOK /\ WireOK
DeviceOK     == WorkOK /\ DevOK
Inv == RepositoryOK /\ RequestsOK /\ DeviceOK
-----------------------------------------------------------------------------
(* Commits, heads and what they reach.                                     *)

LEMMA Basics ==
  /\ None \notin Made /\ None \in Nat /\ Made \subseteq Nat
  /\ Writer \subseteq Ref /\ Writer \subseteq Member /\ Owner \in Member
  /\ "main" \in Ref /\ "main" \notin Writer
  /\ Empty \in Tree
BY CodeAssumption DEF None, Made, Ref, Member, Empty, Tree

\* A new commit leaves the others and their histories as they are.
LEMMA NewCommit ==
  ASSUME GraphOK, NEW x \in [tree : Tree, past : SUBSET Nat], commits' = Append(commits, x)
  PROVE  LET n == Len(commits) + 1
         IN  /\ commits' \in Seq([tree : Tree, past : SUBSET Nat])
             /\ Len(commits)' = n /\ Made' = Made \cup {n} /\ n \notin Some
             /\ \A c \in Made : commits'[c] = commits[c]
             /\ \A c \in Some : Past(c)' = Past(c)
             /\ commits'[n] = x /\ \A c : c = n => Past(c)' = x.past
<1> DEFINE n == Len(commits) + 1
<1>1. Len(commits) \in Nat
  BY LenProperties DEF GraphOK
<1>2. commits' \in Seq([tree : Tree, past : SUBSET Nat]) /\ Len(commits') = n /\ commits'[n] = x
      /\ \A c \in Made : commits'[c] = commits[c]
  BY AppendProperties, LenProperties DEF GraphOK, Made
<1>3. Made' = Made \cup {n} /\ n \notin Some /\ n # None
  BY <1>1, <1>2 DEF Made, Some, None
<1>4. \A c \in Some : Past(c)' = Past(c)
  BY <1>2 DEF Past, Some
<1>5. \A c : c = n => Past(c)' = x.past
  BY <1>2, <1>3 DEF Past
<1> QED
  BY <1>2, <1>3, <1>4, <1>5

\* The history of a commit ends in it and is made of commits.
LEMMA PastOf ==
  ASSUME GraphOK
  PROVE  /\ Past(None) = {}
         /\ \A c \in Some : Past(c) \subseteq Made
         /\ \A c \in Made : c \in Past(c) /\ \A d \in Past(c) : Past(d) \subseteq Past(c)
BY Basics DEF GraphOK, Past, Some

\* What is reached from the heads is reached from main or from a branch.
LEMMA ReachHeads ==
  /\ Reach(Heads) = Past(repo.main) \cup UNION {Past(Tip(w)) : w \in Writer}
  /\ \A r \in Ref : Heads[r] = IF r = "main" THEN repo.main ELSE Tip(r)
<1>1. \A r \in Ref : Heads[r] = IF r = "main" THEN repo.main ELSE Tip(r)
  BY DEF Heads
<1>2. \A w \in Writer : Heads[w] = Tip(w)
  BY <1>1, Basics
<1>3. Heads["main"] = repo.main
  BY <1>1, Basics
<1> QED
  BY <1>1, <1>2, <1>3, Basics DEF Reach, Ref
\* The heads a request names are heads of the project.
LEMMA Accepted ==
  ASSUME GraphOK, RowsOK, NEW b, BodyOK(b), Accepts(b),
         b.op \in {"save", "review", "merge", "update"}
  PROVE  /\ b.of \in Writer /\ b.base \in Made /\ repo.main \in Made
         /\ Past(b.base) \subseteq Reach(Heads) /\ Past(repo.main) \subseteq Reach(Heads)
         /\ b.op = "save" => b.base = Base(b.of)
         /\ b.op # "save" => HasBranch(b.of) /\ Tip(b.of) = b.base
         /\ b.op \in {"merge", "update"} => repo.main = b.main
<1>1. b.of \in Writer /\ repo.main \in Made /\ (b.op # "merge" => b.of = b.by)
  BY DEF BodyOK, RowsOK, Accepts, Open, Some
<1>2. \A w \in Writer : HasBranch(w) => Tip(w) \in Made
  BY DEF RowsOK, Some
<1>3. b.op = "save" => b.base = Base(b.of)
  BY <1>1 DEF Accepts
<1>4. b.op # "save" => HasBranch(b.of) /\ Tip(b.of) = b.base
  BY DEF Accepts, HeadIs
<1>5. b.base \in Made /\ b.base \in {repo.main, Tip(b.of)}
  BY <1>1, <1>2, <1>3, <1>4 DEF Base
<1>6. b.op \in {"merge", "update"} => repo.main = b.main
  BY DEF Accepts
<1> QED
  BY <1>1, <1>3, <1>4, <1>5, <1>6, ReachHeads

LEMMA TreesOf ==
  ASSUME GraphOK, NEW c \in Made
  PROVE  commits[c] \in [tree : Tree, past : SUBSET Nat] /\ commits[c].tree \in Tree
<1>1. commits[c] \in [tree : Tree, past : SUBSET Nat]
  BY ElementOfSeq DEF GraphOK, Made
<1> QED
  BY <1>1

LEMMA MergedTrees ==
  ASSUME GraphOK, NEW x \in Made, NEW y \in Made
  PROVE  MergeTrees(x, y) \subseteq Tree
<1>1. commits[x].tree \in Tree /\ commits[y].tree \in Tree
  BY TreesOf
<1> QED
  BY <1>1 DEF MergeTrees, Tree

\* A written commit follows the heads its request names.
LEMMA WrittenCommit ==
  ASSUME GraphOK, RowsOK, NEW b, BodyOK(b), Accepts(b), Writes(b), b.op \notin Leaving,
         NEW x \in Written(b)
  PROVE  /\ x \in [tree : Tree, past : SUBSET Nat]
         /\ Len(commits) + 1 \in x.past
         /\ x.past \subseteq {Len(commits) + 1} \cup Reach(Heads)
         /\ \A d \in x.past : d = Len(commits) + 1 \/ (d \in Made /\ Past(d) \subseteq x.past)
         /\ b.op = "save" => x.tree = b.tree /\ b.base \in x.past
         /\ b.op \in {"merge", "update"} => b.base \in x.past /\ repo.main \in x.past
<1>1. Len(commits) + 1 \in Nat
  BY LenProperties DEF GraphOK
<1>2. b.op \in {"enable", "clearProject", "save", "merge", "update"}
  BY DEF Writes
<1>3. CASE b.op \in {"enable", "clearProject"}
  <2>1. x = New(Empty, {})
    BY <1>3 DEF Written
  <2>2. x.past = {Len(commits) + 1} /\ x.tree = Empty
    BY <2>1 DEF New
  <2> QED
    BY <1>1, <1>3, <2>1, <2>2, Basics DEF New
<1>4. CASE b.op = "save"
  <2>1. x = New(b.tree, {b.base}) /\ b.tree \in Tree
    BY <1>4 DEF Written, BodyOK, Request
  <2>2. x.past = {Len(commits) + 1} \cup Past(b.base) /\ x.tree = b.tree
    BY <2>1 DEF New
  <2>3. b.base \in Made /\ Past(b.base) \subseteq Reach(Heads) /\ Past(b.base) \subseteq Made
        /\ b.base \in Past(b.base) /\ \A d \in Past(b.base) : Past(d) \subseteq Past(b.base)
    BY <1>4, Accepted, PastOf DEF Some
  <2>4. x \in [tree : Tree, past : SUBSET Nat]
    BY <1>1, <2>1, <2>2, <2>3, Basics DEF New
  <2> QED
    BY <1>4, <2>2, <2>3, <2>4
<1>5. CASE b.op \in {"merge", "update"}
  <2>1. PICK t \in MergeTrees(repo.main, b.base) : x = New(t, {repo.main, b.base})
    BY <1>5 DEF Written
  <2>2. t \in Tree
    BY <1>5, <2>1, Accepted, MergedTrees
  <2>3. x.past = {Len(commits) + 1} \cup Past(repo.main) \cup Past(b.base) /\ x.tree = t
    BY <2>1 DEF New
  <2>4. \A c \in {repo.main, b.base} :
           /\ c \in Made /\ Past(c) \subseteq Reach(Heads) /\ Past(c) \subseteq Made
           /\ c \in Past(c) /\ \A d \in Past(c) : Past(d) \subseteq Past(c)
    BY <1>5, Accepted, PastOf DEF Some
  <2>5. x \in [tree : Tree, past : SUBSET Nat]
    BY <1>1, <2>1, <2>2, <2>3, <2>4, Basics DEF New
  <2> QED
    BY <1>5, <2>3, <2>4, <2>5
<1> QED
  BY <1>2, <1>3, <1>4, <1>5
-----------------------------------------------------------------------------
(* The repository.                                                         *)

\* Rows that stay as they are stay sound while commits are added.
LEMMA RowsKept ==
  ASSUME RowsOK, UNCHANGED <<repo, branch, members, submitted>>,
         Some \subseteq Some', \A c \in Some : Past(c)' = Past(c)
  PROVE  /\ RowsOK' /\ Heads' = Heads /\ Reach(Heads)' = Reach(Heads)
<1>1. \A w \in Writer : /\ Tip(w)' = Tip(w) /\ HasBranch(w)' = HasBranch(w)
                        /\ Tip(w) \in Some
  BY DEF Tip, HasBranch, RowsOK
<1>2. Heads' = Heads
  BY DEF Heads, Tip
<1>3. \A r \in Ref : Heads[r] \in Some
  BY <1>1, ReachHeads DEF RowsOK, Ref
<1>4. Reach(Heads)' = Reach(Heads)
  BY <1>2, <1>3 DEF Reach
<1>5. RowsOK'
  BY <1>1 DEF RowsOK, Tip
<1> QED
  BY <1>2, <1>4, <1>5

LEMMA WriteRepository ==
  ASSUME RepositoryOK, NEW b, BodyOK(b), Write(b)
  PROVE  RepositoryOK'
<1> USE DEF RepositoryOK
<1>1. PICK n : n = Len(commits) + 1
  OBVIOUS
<1>2. /\ Accepts(b) /\ Writes(b) /\ b.op \notin Leaving /\ ~Known(b) /\ n <= MaxCommits
      /\ stored' = stored \cup {n}
      /\ server' = [at |-> "written", body |-> b, commit |-> n]
      /\ keeper = Idle
      /\ UNCHANGED <<old, refs, keeper, repo, branch, members, receipts, submitted>>
  <2>1. Len(commits) \in Nat /\ Len(commits) < MaxCommits /\ MaxCommits \in Nat
    BY LenProperties, CodeAssumption DEF GraphOK, Write
  <2> QED
    BY <1>1, <2>1 DEF Write, rows
<1>3. PICK x \in Written(b) : commits' = Append(commits, x)
  BY DEF Write
<1>4. /\ x \in [tree : Tree, past : SUBSET Nat] /\ n \in x.past
      /\ x.past \subseteq {n} \cup Reach(Heads)
      /\ \A d \in x.past : d = n \/ (d \in Made /\ Past(d) \subseteq x.past)
      /\ b.op = "save" => x.tree = b.tree /\ b.base \in x.past
      /\ b.op \in {"merge", "update"} => b.base \in x.past /\ repo.main \in x.past
  BY <1>1, <1>2, WrittenCommit
<1>5. /\ commits' \in Seq([tree : Tree, past : SUBSET Nat])
      /\ Len(commits)' = n /\ Made' = Made \cup {n} /\ n \notin Some
      /\ \A c \in Made : commits'[c] = commits[c]
      /\ \A c \in Some : Past(c)' = Past(c)
      /\ commits'[n] = x /\ Past(n)' = x.past
  BY <1>1, <1>3, <1>4, NewCommit
<1>6. Some' = Some \cup {n} /\ Some \subseteq Some'
  BY <1>5 DEF Some
<1>7. RowsOK' /\ Heads' = Heads /\ Reach(Heads)' = Reach(Heads)
  BY <1>2, <1>5, <1>6, RowsKept
<1>8. GraphOK'
  <2>1. \A c \in Made : c \in Past(c) /\ Past(c) \subseteq Made /\ Past(c)' = Past(c)
                        /\ \A d \in Past(c) : Past(d) \subseteq Past(c)
    BY <1>5, PastOf DEF Some
  <2>2. x.past \subseteq Made'
    BY <1>4, <1>5
  <2>3. \A d \in x.past : Past(d)' \subseteq x.past
    BY <1>4, <1>5 DEF Some
  <2>4. \A c \in Made' : /\ c \in Past(c)' /\ Past(c)' \subseteq Made'
                         /\ \A d \in Past(c)' : Past(d)' \subseteq Past(c)'
    BY <1>4, <1>5, <2>1, <2>2, <2>3
  <2> QED
    BY <1>2, <1>5, <2>4 DEF GraphOK
<1>9. Reach(refs) \subseteq stored /\ Reach(refs)' = Reach(refs) /\ old \subseteq stored
      /\ stored \subseteq Made /\ Reach(Heads) \subseteq stored
  BY <1>2, <1>5 DEF StoreOK, Reach
<1>10. StoreOK'
  BY <1>2, <1>5, <1>6, <1>7, <1>9 DEF StoreOK
<1>11. Ready(b, n)'
  <2>1. Accepts(b)' /\ ~Known(b)'
    BY <1>2 DEF Accepts, Known, Open, HeadIs, HasBranch, Tip, Base, Heads
  <2>2. Past(n)' \subseteq stored' /\ Past(n)' \cap old' \subseteq Reach(Heads)'
    BY <1>2, <1>4, <1>5, <1>7, <1>9 DEF Some
  <2>3. n # None /\ n \in Some'
    BY <1>5, <1>6 DEF Some
  <2> QED
    BY <1>2, <1>4, <1>5, <2>1, <2>2, <2>3, Accepted DEF Ready, Writes
<1>12. ServerOK'
  BY <1>2, <1>6, <1>11 DEF ServerOK
<1> QED
  BY <1>7, <1>8, <1>10, <1>12

\* What a request may change, and how: heads move forward, or are cleared.
LEMMA InstallRows ==
  ASSUME GraphOK, RowsOK, NEW b, NEW c, BodyOK(b), Ready(b, c), Install(b, c)
  PROVE  /\ RowsOK'
         /\ repo'.main \in {repo.main, c} /\ \A w \in Writer : Tip(w)' \in {Tip(w), None, c}
         /\ \A w \in Writer : Tip(w) # None /\ Tip(w)' # None => Tip(w) \in Past(Tip(w)')
         /\ repo.main # None /\ repo'.main # repo.main
              => repo.main \in Past(repo'.main) \/ b.op = "clearProject"
         /\ b.op = "merge" => submitted[b.of] = b.base
<1> DEFINE Goal == /\ RowsOK'
                   /\ repo'.main \in {repo.main, c}
                   /\ \A w \in Writer : Tip(w)' \in {Tip(w), None, c}
                   /\ \A w \in Writer : Tip(w) # None /\ Tip(w)' # None => Tip(w) \in Past(Tip(w)')
                   /\ repo.main # None /\ repo'.main # repo.main
                        => repo.main \in Past(repo'.main) \/ b.op = "clearProject"
                   /\ b.op = "merge" => submitted[b.of] = b.base
<1>1. UNCHANGED <<commits, members>> /\ Some' = Some /\ \A d : Past(d)' = Past(d)
  BY DEF Install, Some, Made, Past
<1>2. Accepts(b) /\ c \in Some /\ b.op \in Op \ Leaving
  BY DEF Ready, BodyOK, Request
<1>3. \A d \in Some \ {None} : d \in Past(d)
  BY PastOf DEF Some
<1>4. \A w \in Writer : Tip(w)' = branch'[w].head
  BY DEF Tip
<1>5. CASE b.op \in {"enable", "disable"}
  <2>1. /\ repo' = IF b.op = "enable" THEN [main |-> c, enabled |-> TRUE]
                   ELSE [repo EXCEPT !.enabled = FALSE]
        /\ branch' = branch /\ submitted' = submitted
    BY <1>5 DEF Install
  <2>2. b.op = "enable" => repo.main \in {None, c} /\ c # None
    BY DEF Ready
  <2>3. repo' \in [main : Nat, enabled : BOOLEAN] /\ repo'.main \in {repo.main, c}
        /\ (repo.main # None => repo'.main = repo.main)
    BY <1>1, <1>2, <1>5, <2>1, <2>2, Basics DEF RowsOK, Some
  <2>4. \A w \in Writer : branch[w].review = "merged" => Tip(w) \in Past(repo'.main)
    BY <2>3, PastOf DEF RowsOK
  <2>5. RowsOK'
    BY <1>1, <1>2, <2>1, <2>3, <2>4 DEF RowsOK, Tip, HasBranch
  <2> QED
    BY <1>2, <1>3, <1>5, <2>1, <2>3, <2>5 DEF Tip, RowsOK
<1>6. CASE b.op \in {"save", "review", "merge", "update"}
  <2>1. /\ b.of \in Writer /\ b.base \in Made /\ repo.main \in Made
        /\ b.op = "save" => b.base = Base(b.of)
        /\ b.op # "save" => HasBranch(b.of) /\ Tip(b.of) = b.base
    BY <1>2, <1>6, Accepted
  <2>2. c # None /\ b.base \in Past(c) /\ (b.op \in {"merge", "update"} => repo.main \in Past(c))
        /\ (b.op = "review" => c = b.base)
    BY <1>3, <1>6, <2>1, Basics DEF Ready, Some
  <2>3. repo' = IF b.op = "merge" THEN [repo EXCEPT !.main = c] ELSE repo
    BY <1>6 DEF Install
  <2>4. /\ branch' = [branch EXCEPT ![b.of] = branch'[b.of]]
        /\ branch'[b.of] \in Row
        /\ branch'[b.of].head = IF b.op \in {"save", "update"} THEN c ELSE Tip(b.of)
        /\ b.op = "merge" => branch'[b.of].review = "merged"
        /\ b.op = "update" => branch'[b.of].review = "draft"
        /\ b.op = "review" => branch'[b.of].review = "requested"
        /\ b.op = "save" => branch'[b.of].review
                              = IF HeadIs(b.of, c) THEN branch[b.of].review ELSE "draft"
    <3>1. branch[b.of] \in Row /\ branch \in [Writer -> Row] /\ c \in Nat /\ b.of \in Writer
      BY <1>2, <2>1, Basics DEF RowsOK, Some
    <3>2. CASE b.op = "save"
      <4>1. branch' = [branch EXCEPT ![b.of] =
              [head |-> c, review |-> IF HeadIs(b.of, c) THEN branch[b.of].review ELSE "draft"]]
        BY <3>2 DEF Install
      <4> QED
        BY <3>1, <3>2, <4>1 DEF Row
    <3>3. CASE b.op = "update"
      <4>1. branch' = [branch EXCEPT ![b.of] = [head |-> c, review |-> "draft"]]
        BY <3>3 DEF Install
      <4> QED
        BY <3>1, <3>3, <4>1 DEF Row
    <3>4. CASE b.op \in {"review", "merge"}
      <4>1. branch' = [branch EXCEPT ![b.of].review = IF b.op = "review" THEN "requested"
                                                      ELSE "merged"]
        BY <3>4 DEF Install
      <4> QED
        BY <3>1, <3>4, <4>1 DEF Row, Tip
    <3> QED
      BY <1>6, <3>2, <3>3, <3>4
  <2>5. submitted' = IF b.op = "review" THEN [submitted EXCEPT ![b.of] = c] ELSE submitted
    BY <1>6 DEF Install
  <2>6. \A w \in Writer \ {b.of} : branch'[w] = branch[w] /\ submitted'[w] = submitted[w]
    BY <2>1, <2>4, <2>5 DEF RowsOK
  <2>7. \A d \in Some : d \in Past(repo.main) => d \in Past(repo'.main)
    BY <2>1, <2>2, <2>3, <1>2, PastOf DEF Some, RowsOK
  <2>8. RowsOK'
    <3>1. repo' \in [main : Nat, enabled : BOOLEAN] /\ repo'.main \in Some
      BY <1>2, <2>3, Basics DEF RowsOK, Some
    <3>2. branch' \in [Writer -> Row] /\ submitted' \in [Writer -> Nat]
      BY <1>2, <2>1, <2>4, <2>5, Basics DEF RowsOK, Some
    <3>3. \A w \in Writer \ {b.of} :
            /\ branch'[w].head \in Some
            /\ branch'[w].head = None => branch'[w] = NoBranch
            /\ branch'[w].review = "requested" => submitted'[w] = branch'[w].head
            /\ branch'[w].review = "merged" => branch'[w].head \in Past(repo'.main)
      BY <2>6, <2>7 DEF RowsOK, Tip, HasBranch
    <3>4. branch'[b.of].head \in Made
      BY <1>2, <2>1, <2>2, <2>4 DEF Some, RowsOK
    <3>5. branch'[b.of].review = "requested" => submitted'[b.of] = branch'[b.of].head
      BY <1>6, <2>1, <2>2, <2>4, <2>5 DEF RowsOK, Tip, HeadIs
    <3>6. branch'[b.of].review = "merged" => branch'[b.of].head \in Past(repo'.main)
      BY <1>2, <1>6, <2>1, <2>2, <2>3, <2>4, <2>7 DEF RowsOK, Tip, HeadIs
    <3> QED
      BY <1>1, <2>1, <3>1, <3>2, <3>3, <3>4, <3>5, <3>6, Basics DEF RowsOK, Tip, HasBranch, Some
  <2>9. Tip(b.of) # None => Tip(b.of) \in Past(branch'[b.of].head)
    <3>1. Tip(b.of) # None => HasBranch(b.of) /\ Tip(b.of) \in Past(Tip(b.of))
      BY <1>3, <2>1 DEF RowsOK, HasBranch, NoBranch, Tip
    <3> QED
      BY <1>6, <2>1, <2>2, <2>4, <3>1 DEF Base
  <2>10. \A w \in Writer : Tip(w) \in Some
    BY DEF RowsOK
  <2>11. /\ \A w \in Writer : Tip(w)' \in {Tip(w), None, c}
         /\ \A w \in Writer : Tip(w) # None /\ Tip(w)' # None => Tip(w) \in Past(Tip(w)')
    BY <1>3, <1>4, <2>1, <2>4, <2>6, <2>9, <2>10 DEF Tip
  <2>12. b.op = "merge" => submitted[b.of] = b.base
    BY <1>2, <2>1 DEF Accepts, RowsOK
  <2>13. repo'.main = IF b.op = "merge" THEN c ELSE repo.main
    BY <2>3 DEF RowsOK
  <2> QED
    BY <1>1, <1>6, <2>1, <2>2, <2>8, <2>11, <2>12, <2>13
<1>7. CASE b.op = "clearBranch"
  <2>1. repo' = repo /\ branch' = [branch EXCEPT ![b.of] = NoBranch]
        /\ submitted' = [submitted EXCEPT ![b.of] = None] /\ b.of \in Writer
    BY <1>7 DEF Install, BodyOK
  <2>2. RowsOK'
    BY <1>1, <2>1, Basics DEF RowsOK, Tip, HasBranch, NoBranch, Row, Some
  <2> QED
    BY <1>3, <1>7, <2>1, <2>2 DEF RowsOK, Tip, NoBranch
<1>8. CASE b.op = "clearProject"
  <2>1. repo' = [main |-> c, enabled |-> FALSE] /\ branch' = [w \in Writer |-> NoBranch]
        /\ submitted' = [w \in Writer |-> None]
    BY <1>8 DEF Install
  <2>2. RowsOK'
    BY <1>1, <1>2, <2>1, Basics DEF RowsOK, Tip, HasBranch, NoBranch, Row, Some
  <2> QED
    BY <1>8, <2>1, <2>2 DEF Tip, NoBranch
<1> QED
  BY <1>2, <1>5, <1>6, <1>7, <1>8 DEF Op, OwnerOnly

LEMMA InstallRepository ==
  ASSUME RepositoryOK, NEW b, NEW c, BodyOK(b), Ready(b, c), Install(b, c)
  PROVE  RepositoryOK'
<1> USE DEF RepositoryOK
<1>1. /\ UNCHANGED <<commits, stored, old, refs, keeper>>
      /\ server' = [at |-> "committed", body |-> b, commit |-> c]
  BY DEF Install
<1>2. Some' = Some /\ Made' = Made /\ \A d : Past(d)' = Past(d)
  BY <1>1 DEF Some, Made, Past
<1>3. RowsOK' /\ repo'.main \in {repo.main, c} /\ \A w \in Writer : Tip(w)' \in {Tip(w), None, c}
  BY InstallRows
<1>4. Reach(Heads)' \subseteq Reach(Heads) \cup Past(c)
  <2>1. Reach(Heads)' = Past(repo.main)' \cup UNION {Past(Tip(w))' : w \in Writer}
    BY Basics DEF Heads, Reach, Ref
  <2>2. \A w \in Writer : Past(Tip(w))' \subseteq Reach(Heads) \cup Past(c)
    BY <1>2, <1>3, ReachHeads, PastOf
  <2> QED
    BY <1>2, <1>3, <2>1, <2>2, ReachHeads
<1>5. Past(c) \subseteq stored /\ Past(c) \cap old \subseteq Reach(Heads)
      /\ (b.op = "save" => c # None /\ commits[c].tree = b.tree) /\ c \in Some
  BY DEF Ready
<1>6. StoreOK'
  <2>1. Reach(refs)' = Reach(refs)
    BY <1>1, <1>2 DEF Reach
  <2>2. keeper # Idle => Reach(keeper.heads)' = Reach(keeper.heads)
    BY <1>1, <1>2 DEF Reach
  <2> QED
    BY <1>1, <1>2, <1>4, <1>5, <2>1, <2>2 DEF StoreOK
<1>7. ServerOK'
  BY <1>1, <1>2, <1>5 DEF ServerOK
<1>8. GraphOK'
  BY <1>1, <1>2 DEF GraphOK
<1> QED
  BY <1>3, <1>6, <1>7, <1>8

LEMMA AlterReady ==
  ASSUME RepositoryOK, NEW b, BodyOK(b), Alter(b)
  PROVE  \E c : Ready(b, c) /\ Install(b, c)
<1> USE DEF RepositoryOK
<1> DEFINE c == IF b.op \in {"enable", "disable"} THEN repo.main ELSE b.base
<1>1. /\ b.op \in Op \ Leaving /\ Accepts(b) /\ ~Known(b) /\ ~Writes(b) /\ Install(b, c)
  BY DEF Alter, BodyOK, Request
<1>2. b.op # "clearProject" /\ (b.op = "enable" => repo.main # None)
      /\ (b.op = "save" => b.tree = commits[b.base].tree)
      /\ (b.op \in {"merge", "update"} => repo.main = b.base)
  BY <1>1 DEF Writes
<1>3. b.op = "clearBranch" => b.base \in Some /\ Past(b.base) \subseteq Reach(Heads)
  BY <1>1, ReachHeads DEF BodyOK, Accepts, HeadIs, RowsOK
<1>4. b.op \in {"save", "review", "merge", "update"}
        => b.base \in Made /\ Past(b.base) \subseteq Reach(Heads) /\ b.base \in Past(b.base)
  BY <1>1, Accepted, PastOf
<1>5. c \in Some /\ Past(c) \subseteq Reach(Heads)
  BY <1>1, <1>2, <1>3, <1>4, ReachHeads DEF Op, OwnerOnly, RowsOK, Some
<1>6. Past(c) \subseteq stored
  BY <1>5 DEF StoreOK
<1>7. Ready(b, c)
  BY <1>1, <1>2, <1>4, <1>5, <1>6, Basics DEF Ready
<1> QED
  BY <1>1, <1>7

LEMMA CommitReady ==
  ASSUME RepositoryOK, Commit
  PROVE  Ready(server.body, server.commit) /\ Install(server.body, server.commit)
BY DEF RepositoryOK, ServerOK, Commit, Idle

LEMMA LeaveRepository ==
  ASSUME RepositoryOK, NEW b, BodyOK(b), Leave(b)
  PROVE  RepositoryOK'
<1> USE DEF RepositoryOK
<1>1. /\ UNCHANGED <<commits, stored, old, refs, repo, keeper>>
      /\ branch' = [branch EXCEPT ![b.of] = NoBranch] /\ members' = members \ {b.of}
      /\ submitted' = [submitted EXCEPT ![b.of] = None]
      /\ server' = [at |-> "committed", body |-> b, commit |-> None]
      /\ b.op \in Leaving /\ b.of \in Writer
  BY DEF Leave, BodyOK
<1>2. Some' = Some /\ Made' = Made /\ \A d : Past(d)' = Past(d)
  BY <1>1 DEF Some, Made, Past
<1>3. RowsOK' /\ \A w \in Writer : Tip(w)' \in {Tip(w), None}
  BY <1>1, <1>2, Basics DEF RowsOK, Tip, HasBranch, NoBranch, Row, Some
<1>4. Reach(Heads)' \subseteq Reach(Heads)
  <2>1. Reach(Heads)' = Past(repo.main)' \cup UNION {Past(Tip(w))' : w \in Writer}
    BY Basics DEF Heads, Reach, Ref
  <2>2. \A w \in Writer : Past(Tip(w))' \subseteq Reach(Heads)
    BY <1>2, <1>3, ReachHeads, PastOf
  <2> QED
    BY <1>1, <1>2, <2>1, <2>2, ReachHeads
<1>5. StoreOK'
  <2>1. Reach(refs)' = Reach(refs) /\ (keeper # Idle => Reach(keeper.heads)' = Reach(keeper.heads))
    BY <1>1, <1>2 DEF Reach
  <2> QED
    BY <1>1, <1>2, <1>4, <2>1 DEF StoreOK
<1>6. ServerOK' /\ GraphOK'
  BY <1>1, <1>2, Basics DEF ServerOK, GraphOK, Leaving, Some
<1> QED
  BY <1>3, <1>5, <1>6

\* Nothing but the refs, the clock, the server or the maintenance moved.
LEMMA RowsStay ==
  ASSUME RepositoryOK, UNCHANGED <<commits, rows>>
  PROVE  /\ GraphOK' /\ RowsOK' /\ Heads' = Heads /\ Reach(Heads)' = Reach(Heads)
         /\ Some' = Some /\ Made' = Made /\ \A d : Past(d)' = Past(d)
         /\ \A b : (Accepts(b)' <=> Accepts(b)) /\ (Known(b)' <=> Known(b))
<1>1. Some' = Some /\ Made' = Made /\ \A d : Past(d)' = Past(d)
  BY DEF Some, Made, Past
<1>2. RowsOK' /\ Heads' = Heads /\ Reach(Heads)' = Reach(Heads)
  BY <1>1, RowsKept DEF RepositoryOK, rows
<1>3. GraphOK'
  BY <1>1 DEF RepositoryOK, GraphOK
<1>4. \A b : (Accepts(b)' <=> Accepts(b)) /\ (Known(b)' <=> Known(b))
  BY <1>2 DEF rows, Accepts, Known, Open, HeadIs, HasBranch, Tip, Base
<1> QED
  BY <1>1, <1>2, <1>3, <1>4

LEMMA HeadsTyped ==
  ASSUME RowsOK
  PROVE  Heads \in [Ref -> Some]
<1>1. \A r \in Ref : Heads[r] \in Some
  BY ReachHeads DEF RowsOK, Ref
<1> QED
  BY <1>1 DEF Heads

LEMMA RepairRepository ==
  ASSUME RepositoryOK, Repair
  PROVE  RepositoryOK'
<1>1. /\ UNCHANGED <<commits, stored, old, rows, keeper>> /\ server' = Idle
      /\ refs' \in {refs, Heads}
  BY DEF Repair
<1>2. /\ GraphOK' /\ RowsOK' /\ Heads' = Heads /\ Reach(Heads)' = Reach(Heads)
      /\ Some' = Some /\ Made' = Made /\ \A d : Past(d)' = Past(d)
  BY <1>1, RowsStay
<1>3. refs' \in [Ref -> Some] /\ Reach(refs)' \subseteq stored
  BY <1>1, <1>2, HeadsTyped DEF RepositoryOK, StoreOK, Reach
<1>4. keeper # Idle => Reach(keeper.heads)' = Reach(keeper.heads)
  BY <1>1, <1>2 DEF Reach
<1> QED
  BY <1>1, <1>2, <1>3, <1>4 DEF RepositoryOK, StoreOK, ServerOK

LEMMA KeptRefs ==
  ASSUME RepositoryOK, UNCHANGED <<commits, rows, refs>>
  PROVE  Reach(refs)' = Reach(refs) /\ (UNCHANGED keeper => Reach(keeper.heads)' = Reach(keeper.heads))
BY RowsStay DEF Reach

LEMMA CrashRepository ==
  ASSUME RepositoryOK, Crash
  PROVE  RepositoryOK'
<1>1. UNCHANGED <<commits, stored, old, refs, rows, keeper>> /\ server' = Idle
  BY DEF Crash
<1> QED
  BY <1>1, RowsStay, KeptRefs DEF RepositoryOK, StoreOK, ServerOK

LEMMA AgeRepository ==
  ASSUME RepositoryOK, Age
  PROVE  RepositoryOK'
<1>1. /\ UNCHANGED <<commits, stored, refs, rows, server, keeper>>
      /\ old' = stored /\ server = Idle /\ keeper = Idle
  BY DEF Age
<1> QED
  BY <1>1, RowsStay, KeptRefs DEF RepositoryOK, StoreOK, ServerOK

\* A commit that is ready stays so while the store keeps what it needs.
LEMMA ServerKept ==
  ASSUME RepositoryOK, UNCHANGED <<commits, rows, server>>, old' \subseteq old,
         \A c : Past(c) \subseteq stored /\ Past(c) \cap old \subseteq Reach(Heads)
                  => Past(c) \subseteq stored'
  PROVE  ServerOK'
<1>1. /\ Some' = Some /\ Reach(Heads)' = Reach(Heads) /\ \A d : Past(d)' = Past(d)
      /\ \A b : (Accepts(b)' <=> Accepts(b)) /\ (Known(b)' <=> Known(b))
  BY RowsStay
<1>2. UNCHANGED repo
  BY DEF rows
<1>3. CASE server = Idle
  BY <1>3 DEF ServerOK
<1>4. CASE server # Idle
  <2>1. PICK b, c : b = server.body /\ c = server.commit
    OBVIOUS
  <2>2. server.at = "written" => Ready(b, c)
    BY <1>4, <2>1 DEF RepositoryOK, ServerOK
  <2>3. server.at = "written" => Ready(b, c)'
    BY <1>1, <1>2, <2>2 DEF Ready
  <2> QED
    BY <1>1, <1>4, <2>1, <2>3 DEF RepositoryOK, ServerOK
<1> QED
  BY <1>3, <1>4

LEMMA SnapshotRepository ==
  ASSUME RepositoryOK, Snapshot
  PROVE  RepositoryOK'
<1>1. /\ UNCHANGED <<commits, stored, old, refs, rows, server>>
      /\ keeper' = [at |-> "holding", heads |-> Heads]
  BY DEF Snapshot
<1>2. /\ GraphOK' /\ RowsOK' /\ Reach(Heads)' = Reach(Heads) /\ Some' = Some /\ Made' = Made
      /\ \A d : Past(d)' = Past(d)
  BY <1>1, RowsStay
<1>3. ServerOK'
  BY <1>1, ServerKept
<1>4. Reach(keeper.heads)' = Reach(Heads) /\ Reach(refs)' = Reach(refs)
  BY <1>1, <1>2 DEF Reach
<1> QED
  BY <1>1, <1>2, <1>3, <1>4, HeadsTyped DEF RepositoryOK, StoreOK

\* The sweep removes nothing that a head, a ref or a commit to come needs.
LEMMA SweepRepository ==
  ASSUME RepositoryOK, Sweep
  PROVE  RepositoryOK'
<1> DEFINE kept == Reach(keeper.heads)
<1>1. /\ UNCHANGED <<commits, rows, server>> /\ keeper # Idle
      /\ refs' = keeper.heads /\ keeper' = Idle
      /\ stored' = stored \ (old \ kept) /\ old' = old \cap kept
  BY DEF Sweep, Idle
<1>2. /\ GraphOK' /\ RowsOK' /\ Reach(Heads)' = Reach(Heads) /\ Some' = Some /\ Made' = Made
      /\ \A d : Past(d)' = Past(d)
  BY <1>1, RowsStay
<1>3. /\ keeper.heads \in [Ref -> Some] /\ kept \subseteq stored
      /\ Reach(Heads) \cap old \subseteq kept
  BY <1>1 DEF RepositoryOK, StoreOK
<1>4. ServerOK'
  BY <1>1, <1>3, ServerKept
<1>5. Reach(refs)' = kept
  BY <1>1, <1>2 DEF Reach
<1>6. StoreOK'
  BY <1>1, <1>2, <1>3, <1>5 DEF RepositoryOK, StoreOK
<1> QED
  BY <1>2, <1>4, <1>6 DEF RepositoryOK
-----------------------------------------------------------------------------
(* Requests, their keys and what they left behind.                         *)

LEMMA KeysDiffer == Click \cap DeviceKey = {}
<1> SUFFICES ASSUME NEW n \in Nat, NEW x \in Nat, NEW t \in Tree,
                    [click |-> n] = [base |-> x, tree |-> t]
             PROVE  FALSE
  BY DEF Click, DeviceKey
<1>1. DOMAIN [click |-> n] = {"click"} /\ DOMAIN [base |-> x, tree |-> t] = {"base", "tree"}
  OBVIOUS
<1> QED
  BY <1>1

LEMMA BodyKey ==
  ASSUME NEW b, BodyOK(b)
  PROVE  /\ b.key \in Click \cup DeviceKey /\ (b.device => b.key \in DeviceKey)
         /\ b.key \in DeviceKey => b.op = "save" /\ b.key.tree = b.tree
         /\ b.op \in Leaving => b.key \in Click
<1>1. b.device => b.op = "save" /\ b.key = [base |-> b.base, tree |-> b.tree] /\ b.key.tree = b.tree
  <2> HAVE b.device
  <2>1. b = Body(b.base, b.tree)
    BY DEF BodyOK
  <2>2. \A x, t : Body(x, t).op = "save" /\ Body(x, t).key = [base |-> x, tree |-> t]
    BY DEF Body, Ask
  <2> QED
    BY <2>1, <2>2
<1>2. b.key \in Click \cup DeviceKey /\ b.base \in Nat /\ b.tree \in Tree /\ (~b.device => b.key \in Click)
  BY DEF BodyOK, Request
<1>3. b.device => b.key \in DeviceKey
  BY <1>1, <1>2 DEF DeviceKey
<1> QED
  BY <1>1, <1>2, <1>3, KeysDiffer DEF Leaving

\* A cleanup voids receipts; their keys and results stay.
LEMMA VoidKeys ==
  ASSUME KeysOK, NEW void
  PROVE  /\ Void(void) \subseteq Receipt
         /\ \A r \in Void(void) : \E q \in receipts : q.key = r.key /\ q.commit = r.commit
         /\ \A q \in receipts : \E r \in Void(void) : q.key = r.key
<1>1. \A q \in receipts : LET r == [q EXCEPT !.live = @ /\ q.by \notin void]
                          IN  r \in Receipt /\ q.key = r.key /\ q.commit = r.commit
  BY DEF KeysOK, Receipt
<1> QED
  BY <1>1 DEF Void

\* Requests only go away, and nothing is done with them.
LEMMA BodiesKept ==
  ASSUME KeysOK, WireOK, UNCHANGED <<receipts, applied, members, sends>>,
         (wire \cup Served)' \subseteq wire \cup Served,
         Some \subseteq Some', \A c \in Made : commits'[c] = commits[c]
  PROVE  KeysOK' /\ WireOK'
<1>1. \A r \in receipts : r.commit # None => commits'[r.commit] = commits[r.commit]
  BY DEF KeysOK, Some
<1>2. KeysOK'
  BY <1>1 DEF KeysOK, Given
<1>3. WireOK'
  BY DEF WireOK, Given
<1> QED
  BY <1>2, <1>3

LEMMA InstallRequests ==
  ASSUME KeysOK, WireOK, NEW b \in wire \cup Served, NEW c, Ready(b, c), Install(b, c),
         wire' \subseteq wire
  PROVE  KeysOK' /\ WireOK' /\ b.key \notin applied
<1>1. /\ UNCHANGED <<commits, members, sends>> /\ applied' = applied \cup {b.key}
      /\ Some' = Some /\ Served' = {b}
  BY DEF Install, limits, Some, Made, Served, Idle
<1>2. BodyOK(b) /\ b.op \notin Leaving /\ c \in Some /\ ~Given(b.key)
      /\ (b.op = "save" => c # None /\ commits[c].tree = b.tree)
  BY DEF WireOK, Ready, Known, Given
<1>3. PICK void : receipts' = Void(void) \cup {[key |-> b.key, by |-> b.by, live |-> TRUE, commit |-> c]}
  BY DEF Install
<1>4. DEFINE new == [key |-> b.key, by |-> b.by, live |-> TRUE, commit |-> c]
<1>5. new \in Receipt /\ new.key = b.key /\ new.commit = c
  BY <1>2, BodyKey, Basics DEF Receipt, BodyOK, Request, Some
<1>6. \A k : Given(k)' <=> Given(k) \/ k = b.key
  BY <1>3, <1>5, VoidKeys DEF Given
<1>7. KeysOK'
  <2>1. receipts' \subseteq Receipt /\ \A r \in receipts' : r.commit \in Some
    BY <1>2, <1>3, <1>5, VoidKeys DEF KeysOK
  <2>2. \A r \in receipts' : r.key \in DeviceKey => r.commit # None /\ commits[r.commit].tree = r.key.tree
    <3>1. new.key \in DeviceKey => new.commit # None /\ commits[new.commit].tree = new.key.tree
      <4>1. b.key \in DeviceKey => b.op = "save" /\ b.key.tree = b.tree
        BY <1>2, BodyKey
      <4> QED
        BY <1>2, <1>5, <4>1
    <3> QED
      BY <1>3, <3>1, VoidKeys DEF KeysOK
  <2>3. b.key \in Click => b.key.click > sends
    BY DEF WireOK
  <2> QED
    BY <1>1, <1>2, <1>6, <2>1, <2>2, <2>3, BodyKey DEF KeysOK
<1>8. WireOK'
  BY <1>1, <1>2, <1>6 DEF WireOK
<1> QED
  BY <1>2, <1>7, <1>8 DEF WireOK

LEMMA LeaveRequests ==
  ASSUME KeysOK, WireOK, NEW b \in wire, Leave(b)
  PROVE  KeysOK' /\ WireOK' /\ b.key \notin applied
<1>1. /\ UNCHANGED <<commits, sends>> /\ applied' = applied \cup {b.key}
      /\ members' = members \ {b.of} /\ b.of \in members /\ b.op \in Leaving
      /\ Some' = Some /\ Served' = {b} /\ wire' \subseteq wire
  BY DEF Leave, Accepts, limits, Some, Made, Served, Idle
<1>2. BodyOK(b) /\ b.key \in Click /\ ~Given(b.key)
  BY <1>1, BodyKey DEF WireOK
<1>3. PICK void : receipts' = Void(void)
  BY DEF Leave
<1>4. \A k : Given(k)' <=> Given(k)
  BY <1>3, VoidKeys DEF Given
<1>5. KeysOK'
  BY <1>1, <1>2, <1>3, <1>4, VoidKeys DEF KeysOK, WireOK
<1>6. WireOK'
  BY <1>1, <1>2, <1>4 DEF WireOK
<1> QED
  BY <1>1, <1>2, <1>5, <1>6 DEF WireOK

\* A request that is refused, answered or lost only goes away; one that is
\* sent again was there before.
LEMMA FewerRequests ==
  ASSUME RequestsOK, UNCHANGED <<commits, receipts, applied, members, sends>>, LimitsOK',
         (wire \cup Served)' \subseteq wire \cup Served
  PROVE  RequestsOK'
<1>1. Some' = Some
  BY DEF Some, Made
<1> QED
  BY <1>1, BodiesKept DEF RequestsOK

LEMMA RepairRequests ==
  ASSUME RequestsOK, Repair
  PROVE  RequestsOK'
<1>1. /\ UNCHANGED <<commits, receipts, applied, members, sends, crashes>>
      /\ server' = Idle /\ server # Idle /\ wire' \subseteq wire \cup {server.body}
      /\ resends' \in {resends, resends - 1} /\ (resends' # resends => resends > 0)
  BY DEF Repair, Retry, rows, Idle
<1>2. LimitsOK'
  BY <1>1, CodeAssumption DEF RequestsOK, LimitsOK
<1> QED
  BY <1>1, <1>2, FewerRequests DEF Served

LEMMA CrashRequests ==
  ASSUME RequestsOK, Crash
  PROVE  RequestsOK'
<1>1. /\ UNCHANGED <<commits, receipts, applied, members, sends>>
      /\ server' = Idle /\ server # Idle /\ wire' \subseteq wire \cup {server.body}
      /\ resends' \in {resends, resends - 1} /\ (resends' # resends => resends > 0)
      /\ crashes' = crashes - 1 /\ crashes > 0
  BY DEF Crash, Retry, rows
<1>2. LimitsOK'
  BY <1>1, CodeAssumption DEF RequestsOK, LimitsOK
<1> QED
  BY <1>1, <1>2, FewerRequests DEF Served

LEMMA WriteRequests ==
  ASSUME RepositoryOK, RequestsOK, NEW b \in wire, Write(b)
  PROVE  RequestsOK' /\ Some \subseteq Some' /\ Made \subseteq Made' /\ \A c \in Made : commits'[c] = commits[c]
<1>1. /\ UNCHANGED <<receipts, applied, members, limits>>
      /\ server' = [at |-> "written", body |-> b, commit |-> Len(commits) + 1]
      /\ wire' \subseteq wire /\ b.op \notin Leaving /\ Accepts(b) /\ Writes(b)
  BY DEF Write, rows
<1>2. PICK x \in Written(b) : commits' = Append(commits, x)
  BY DEF Write
<1>3. BodyOK(b)
  BY DEF RequestsOK, WireOK
<1>4. x \in [tree : Tree, past : SUBSET Nat]
  BY <1>1, <1>2, <1>3, WrittenCommit DEF RepositoryOK
<1>5. Some \subseteq Some' /\ Made \subseteq Made' /\ \A c \in Made : commits'[c] = commits[c]
  BY <1>2, <1>4, NewCommit DEF RepositoryOK, Some
<1>6. (wire \cup Served)' \subseteq wire \cup Served
  BY <1>1 DEF Served, Idle
<1> QED
  BY <1>1, <1>5, <1>6, BodiesKept DEF RequestsOK, LimitsOK, limits

\* What a request is made of, before its sender fills it in.
LEMMA Blank ==
  [click |-> None] \in Click \cup DeviceKey /\ [r \in Ref |-> None] \in [Ref -> Nat]
BY Basics DEF Click

LEMMA AskedTyped ==
  ASSUME GraphOK, RowsOK, NEW m \in Member, NEW b \in Requests(m)
  PROVE  /\ b \in Request /\ ~b.device
         /\ b.op \in Leaving \cup {"merge"} => b.of \in Writer
         /\ b.op \in {"save", "review", "update", "clearBranch"} => b.of = b.by /\ b.of \in Writer
<1> DEFINE Good(x) == /\ x \in Request /\ ~x.device
                      /\ x.op \in Leaving \cup {"merge"} => x.of \in Writer
                      /\ x.op \in {"save", "review", "update", "clearBranch"} => x.of = x.by /\ x.of \in Writer
<1> SUFFICES Good(b)
  OBVIOUS
<1>1. /\ repo.main \in Nat /\ Heads \in [Ref -> Nat] /\ \A w \in Writer : Tip(w) \in Nat
      /\ {"enable", "disable", "clearProject", "merge", "review", "clearBranch", "update", "save"} \cup Leaving
            \subseteq Op
  BY ReachHeads, Basics DEF RowsOK, Some, Tip, Row, Heads, Ref, Op, OwnerOnly
<1>2. CASE b \in Decisions(m)
  <2>1. ASSUME NEW op \in {"enable", "disable"}, b = Ask(op, m)
        PROVE  Good(b)
    <3>1. b = [op |-> op, by |-> m, of |-> m, key |-> [click |-> None], base |-> None,
                main |-> None, heads |-> [r \in Ref |-> None], tree |-> Empty, device |-> FALSE]
      BY <2>1 DEF Ask
    <3>2. b \in Request
      BY <1>1, <2>1, <3>1, Blank, Basics DEF Request
    <3> QED
      BY <1>1, <2>1, <3>1, <3>2 DEF Leaving
  <2>2. ASSUME b = [Ask("clearProject", m) EXCEPT !.main = repo.main, !.heads = Heads]
        PROVE  Good(b)
    <3>1. b = [op |-> "clearProject", by |-> m, of |-> m, key |-> [click |-> None], base |-> None,
                main |-> repo.main, heads |-> Heads, tree |-> Empty, device |-> FALSE]
      BY <2>2 DEF Ask
    <3>2. b \in Request
      BY <1>1, <3>1, Blank, Basics DEF Request
    <3> QED
      BY <1>1, <3>1, <3>2 DEF Leaving
  <2>3. ASSUME NEW w \in Writer,
               b = Merge(m, w)
        PROVE  Good(b)
    <3>1. b = [op |-> "merge", by |-> m, of |-> w, key |-> [click |-> None], base |-> Tip(w),
                main |-> repo.main, heads |-> [r \in Ref |-> None], tree |-> Empty, device |-> FALSE]
      BY <2>3 DEF Ask, Merge
    <3>2. b \in Request
      BY <1>1, <3>1, Blank, Basics DEF Request
    <3> QED
      BY <1>1, <3>1, <3>2 DEF Leaving
  <2> HIDE DEF Good
  <2>4. \/ \E op \in {"enable", "disable"} : b = Ask(op, m)
        \/ b = [Ask("clearProject", m) EXCEPT !.main = repo.main, !.heads = Heads]
        \/ \E w \in Writer : b = Merge(m, w)
    BY <1>2 DEF Decisions
  <2> QED
    BY <2>1, <2>2, <2>3, <2>4
<1>3. CASE m \in Writer /\ b \in Contributions(m)
  <2>0. m \in Writer /\ Base(m) \in Some
    BY <1>3 DEF Base, RowsOK
  <2>1. ASSUME NEW op \in {"review", "clearBranch"}, b = OnHead(op, m, m)
        PROVE  Good(b)
    <3>1. b = [op |-> op, by |-> m, of |-> m, key |-> [click |-> None], base |-> Tip(m),
                main |-> None, heads |-> [r \in Ref |-> None], tree |-> Empty, device |-> FALSE]
      BY <2>1 DEF Ask, OnHead
    <3>2. b \in Request
      BY <1>1, <2>0, <3>1, Blank, Basics DEF Request
    <3> QED
      BY <1>1, <2>0, <3>1, <3>2 DEF Leaving
  <2>2. ASSUME b = [Ask("update", m) EXCEPT !.base = Tip(m), !.main = repo.main]
        PROVE  Good(b)
    <3>1. b = [op |-> "update", by |-> m, of |-> m, key |-> [click |-> None], base |-> Tip(m),
                main |-> repo.main, heads |-> [r \in Ref |-> None], tree |-> Empty, device |-> FALSE]
      BY <2>2 DEF Ask
    <3>2. b \in Request
      BY <1>1, <2>0, <3>1, Blank, Basics DEF Request
    <3> QED
      BY <1>1, <2>0, <3>1, <3>2 DEF Leaving
  <2>3. ASSUME NEW f \in File, NEW v \in Content, Base(m) # None,
               b = Save(m, f, v)
        PROVE  Good(b)
    <3>1. commits[Base(m)].tree \in Tree /\ Base(m) \in Nat
      BY <2>0, <2>3, TreesOf, Basics DEF Some
    <3>2. [commits[Base(m)].tree EXCEPT ![f] = v] \in Tree
      BY <3>1 DEF Tree
    <3> QED
      <4>1. b = [op |-> "save", by |-> m, of |-> m, key |-> [click |-> None], base |-> Base(m),
                main |-> None, heads |-> [r \in Ref |-> None], tree |-> [commits[Base(m)].tree EXCEPT ![f] = v], device |-> FALSE]
        BY <2>3 DEF Ask, Save
      <4>2. b \in Request
        BY <1>1, <2>0, <3>1, <3>2, <4>1, Blank, Basics DEF Request
      <4> QED
        BY <1>1, <2>0, <4>1, <4>2 DEF Leaving
  <2> HIDE DEF Good
  <2>4. \/ \E op \in {"review", "clearBranch"} : b = OnHead(op, m, m)
        \/ b = [Ask("update", m) EXCEPT !.base = Tip(m), !.main = repo.main]
        \/ \E f \in File, v \in Content : Base(m) # None /\ b = Save(m, f, v)
    BY <1>3 DEF Contributions
  <2> QED
    BY <2>1, <2>2, <2>3, <2>4
<1>4. CASE b \in Departures(m)
  <2>1. ASSUME NEW op \in Leaving, NEW w \in Writer, b = OnHead(op, m, w)
        PROVE  Good(b)
    <3>1. b = [op |-> op, by |-> m, of |-> w, key |-> [click |-> None], base |-> Tip(w),
                main |-> None, heads |-> [r \in Ref |-> None], tree |-> Empty, device |-> FALSE]
      BY <2>1 DEF Ask, OnHead
    <3>2. b \in Request
      BY <1>1, <3>1, Blank, Basics DEF Request
    <3> QED
      BY <1>1, <3>1, <3>2 DEF Leaving
  <2> HIDE DEF Good
  <2>2. \E op \in Leaving, w \in Writer : b = OnHead(op, m, w)
    BY <1>4 DEF Departures, Member
  <2> QED
    BY <2>1, <2>2
<1> QED
  BY <1>2, <1>3, <1>4 DEF Requests

\* A new request carries a key nobody has used.
LEMMA SendRequests ==
  ASSUME RepositoryOK, RequestsOK, NEW m \in Member, Send(m)
  PROVE  RequestsOK'
<1>1. PICK b \in Requests(m) : wire' = wire \cup {[b EXCEPT !.key = [click |-> sends]]}
  BY DEF Send
<1> DEFINE k == [click |-> sends]
           n == [b EXCEPT !.key = k]
<1>2. /\ UNCHANGED <<commits, server, receipts, applied, members, resends, crashes>>
      /\ sends > 0 /\ sends' = sends - 1 /\ sends \in Nat
  BY CodeAssumption DEF Send, rows, RequestsOK, LimitsOK
<1>3. k \in Click /\ k.click = sends
  BY <1>2 DEF Click
<1>4. n.key = k /\ BodyOK(n)
  BY <1>3, AskedTyped DEF RepositoryOK, BodyOK, Request
<1>5. LimitsOK'
  BY <1>2, CodeAssumption DEF RequestsOK, LimitsOK
<1>6. Served' = Served /\ Some' = Some /\ (wire \cup Served)' = wire \cup Served \cup {n}
  BY <1>1, <1>2 DEF Served, Some, Made
<1>7. /\ k \notin applied /\ ~Given(k)
      /\ \A a \in wire \cup Served : a.key # k
  BY <1>2, <1>3 DEF RequestsOK, KeysOK, WireOK
<1>8. \A i \in Click : i.click > sends => i.click > sends'
  BY <1>2 DEF Click
<1>9. KeysOK'
  BY <1>2, <1>6, <1>8 DEF RequestsOK, KeysOK, Given
<1>10. WireOK'
  <2>1. \A a \in wire \cup Served : BodyOK(a) /\ (a.key \in Click => a.key.click > sends')
    BY <1>8 DEF RequestsOK, WireOK
  <2>2. BodyOK(n) /\ n.key.click > sends'
    BY <1>2, <1>3, <1>4
  <2>3. \A i : Given(i)' <=> Given(i)
    BY <1>2 DEF Given
  <2>4. \A a, c \in wire \cup Served : a.key = c.key => a = c
    BY DEF RequestsOK, WireOK
  <2>5. \A a \in wire \cup Served : /\ a.op \in Leaving => ~Given(a.key)
                                    /\ a.key \in applied => Given(a.key) \/ (a.op \in Leaving /\ a.of \notin members)
    BY DEF RequestsOK, WireOK
  <2> HIDE DEF n, k
  <2>6. \A a \in (wire \cup Served)' : a = n \/ a \in wire \cup Served
    BY <1>6
  <2> QED
    BY <1>2, <1>4, <1>7, <2>1, <2>2, <2>3, <2>4, <2>5, <2>6 DEF WireOK
<1> QED
  BY <1>5, <1>9, <1>10 DEF RequestsOK

\* What a device uploads is well formed, and its key names what it uploads.
LEMMA UploadBody ==
  ASSUME NEW x \in Nat, NEW t \in Tree
  PROVE  /\ BodyOK(Body(x, t)) /\ Body(x, t).device /\ Body(x, t).op = "save"
         /\ Body(x, t).key \in DeviceKey /\ Body(x, t).tree = t
<1>1. Author \in Writer /\ Author \in Member /\ "save" \in Op
  BY SyncAssumption, Basics DEF Op
<1>2. [base |-> x, tree |-> t] \in DeviceKey
  BY DEF DeviceKey
<1>3. /\ Body(x, t) \in Request /\ Body(x, t).device /\ Body(x, t).op = "save"
      /\ Body(x, t).key = [base |-> x, tree |-> t] /\ Body(x, t).tree = t /\ Body(x, t).base = x
      /\ Body(x, t).of = Author /\ Body(x, t).by = Author
  <2>1. PICK b : b = Body(x, t)
    OBVIOUS
  <2>2. b = [op |-> "save", by |-> Author, of |-> Author, key |-> [base |-> x, tree |-> t],
             base |-> x, main |-> None, heads |-> [r \in Ref |-> None], tree |-> t, device |-> TRUE]
    BY <2>1 DEF Body, Ask
  <2> QED
    BY <1>1, <1>2, <2>1, <2>2, Blank, Basics DEF Request
<1> QED
  BY <1>1, <1>2, <1>3 DEF BodyOK, Leaving

LEMMA PostRequests ==
  ASSUME RequestsOK, NEW b, BodyOK(b), b.device, wire' = wire \cup {b},
         UNCHANGED <<commits, server, receipts, applied, members, sends, resends, crashes>>
  PROVE  RequestsOK'
<1>1. Served' = Served /\ Some' = Some /\ LimitsOK' /\ \A i : Given(i)' <=> Given(i)
  BY DEF Served, Some, Made, Given, RequestsOK, LimitsOK
<1>2. b.key \in DeviceKey /\ b.op = "save" /\ b.key \notin Click
  BY BodyKey, KeysDiffer
<1>3. KeysOK'
  BY <1>1 DEF RequestsOK, KeysOK
<1>4. \A a \in wire \cup Served : a.key = b.key => a = b
  <2> SUFFICES ASSUME NEW a \in wire \cup Served, a.key = b.key
               PROVE  a = b
    OBVIOUS
  <2>1. BodyOK(a)
    BY DEF RequestsOK, WireOK
  <2>2. a.device
    BY <1>2, <2>1 DEF BodyOK
  <2>3. a = Body(a.base, a.tree) /\ b = Body(b.base, b.tree)
    BY <2>1, <2>2 DEF BodyOK
  <2>4. \A x, t : Body(x, t).key = [base |-> x, tree |-> t]
    BY DEF Body, Ask
  <2>5. a.base = b.base /\ a.tree = b.tree
    <3>1. [base |-> a.base, tree |-> a.tree] = [base |-> b.base, tree |-> b.tree]
      BY <2>3, <2>4
    <3> QED
      BY <3>1
  <2> QED
    BY <2>3, <2>5
<1>5. b.key \in applied => Given(b.key)
  BY <1>2 DEF RequestsOK, KeysOK
<1>6. WireOK'
  BY <1>1, <1>2, <1>4, <1>5 DEF RequestsOK, WireOK, Leaving
<1> QED
  BY <1>1, <1>3, <1>6 DEF RequestsOK
-----------------------------------------------------------------------------
(* The workspace.                                                          *)

\* What the repository does, a workspace does not notice.
LEMMA DeviceStays ==
  ASSUME DeviceOK, UNCHANGED syncVars, Some \subseteq Some', Made \subseteq Made',
         \A c \in Made : commits'[c] = commits[c]
  PROVE  DeviceOK'
<1>1. UNCHANGED <<files, binding, backups, dev, edits, last, overtaken>>
  BY DEF syncVars
<1>2. BaselineTrue' /\ LocalWorkKept'
  BY <1>1 DEF DeviceOK, WorkOK, BaselineTrue, LocalWorkKept, Some
<1>3. WorkOK'
  BY <1>1, <1>2 DEF DeviceOK, WorkOK
<1>4. DevOK'
  BY <1>1 DEF DeviceOK, DevOK
<1> QED
  BY <1>3, <1>4 DEF DeviceOK

\* The branch of a member whose project has code is a commit with its files.
LEMMA CloudTyped ==
  ASSUME RepositoryOK, Open
  PROVE  /\ Cloud \in Made /\ Cloud \in Some /\ Cloud \in Nat /\ Cloud # None
         /\ commits[Cloud].tree \in Tree
<1>1. Cloud \in Made
  BY SyncAssumption DEF RepositoryOK, RowsOK, Cloud, Base, Open, Some
<1> QED
  BY <1>1, Basics, TreesOf DEF RepositoryOK, Some

LEMMA EditDevice ==
  ASSUME DeviceOK, NEW f \in File, NEW v \in Content, Edit(f, v)
  PROVE  DeviceOK'
<1>1. /\ files' = [files EXCEPT ![f] = v] /\ last' = [last EXCEPT ![f] = v]
      /\ edits' = edits + 1 /\ edits < MaxEdits /\ overtaken' = overtaken \ {f}
      /\ UNCHANGED <<commits, binding, backups, dev>>
  BY DEF Edit, codeVars
<1>2. files' \in Tree /\ last' \in Tree /\ edits' \in 0..MaxEdits /\ Some' = Some /\ Made' = Made
  BY <1>1, SyncAssumption DEF DeviceOK, WorkOK, Tree, Some, Made
<1>3. LocalWorkKept'
  BY <1>1 DEF DeviceOK, WorkOK, Tree, LocalWorkKept
<1>4. BaselineTrue' /\ DevOK'
  BY <1>1, <1>2 DEF DeviceOK, WorkOK, DevOK, BaselineTrue
<1> QED
  BY <1>1, <1>2, <1>3, <1>4 DEF DeviceOK, WorkOK

\* An operation that leaves the files alone, and may move the baseline.
LEMMA Rebased ==
  ASSUME DeviceOK, UNCHANGED <<commits, files, backups, edits, last, overtaken>>, DevOK',
         \/ UNCHANGED binding
         \/ \E c \in Some, t \in Tree : binding' = Bound(c, t) /\ commits[c].tree = t
  PROVE  DeviceOK'
<1>1. Some' = Some /\ LocalWorkKept'
  BY DEF Some, Made, DeviceOK, WorkOK, LocalWorkKept
<1>2. CASE UNCHANGED binding
  BY <1>1, <1>2 DEF DeviceOK, WorkOK, BaselineTrue
<1>3. ASSUME NEW c \in Some, NEW t \in Tree, binding' = Bound(c, t), commits[c].tree = t
      PROVE  DeviceOK'
  <2>1. binding' \in [base : Nat, baseline : Tree, torn : BOOLEAN] /\ binding'.base = c /\ binding'.baseline = t
    BY <1>3, Basics DEF Bound, Some
  <2> QED
    BY <1>1, <1>3, <2>1 DEF DeviceOK, WorkOK, BaselineTrue
<1> QED
  BY <1>2, <1>3

LEMMA AdoptDevice ==
  ASSUME RepositoryOK, DeviceOK, Adopt
  PROVE  DeviceOK'
<1>1. /\ UNCHANGED <<commits, files, backups, edits, last, overtaken>> /\ dev' = Idle /\ Open
      /\ binding' = Bound(Cloud, files) /\ commits[Cloud].tree = files
  BY DEF Adopt, codeVars, Reaches
<1> QED
  BY <1>1, CloudTyped, Rebased DEF DevOK

LEMMA VerifyDevice ==
  ASSUME RepositoryOK, DeviceOK, Verify
  PROVE  DeviceOK'
<1>1. /\ UNCHANGED <<commits, files, backups, edits, last, overtaken>> /\ dev' = Idle /\ dev.at = "answered"
      /\ binding' \in {binding, Bound(dev.commit, dev.body.tree)}
  BY DEF Verify, codeVars
<1>2. dev.commit \in Made /\ commits[dev.commit].tree = dev.body.tree
  BY <1>1 DEF DeviceOK, DevOK, Idle
<1>3. dev.commit \in Some /\ dev.body.tree \in Tree
  BY <1>2, TreesOf DEF RepositoryOK, Some
<1> QED
  BY <1>1, <1>2, <1>3, Rebased DEF DevOK

LEMMA PlacedDevice ==
  ASSUME RepositoryOK, DeviceOK, Placed
  PROVE  DeviceOK'
<1>1. /\ UNCHANGED <<commits, files, backups, edits, last, overtaken>> /\ dev' = Idle /\ dev.at = "placing"
      /\ binding' \in {binding, Bound(dev.commit, dev.tree)}
  BY DEF Placed, codeVars
<1>2. dev.commit \in Made /\ commits[dev.commit].tree = dev.tree
  BY <1>1 DEF DeviceOK, DevOK, Idle
<1>3. dev.commit \in Some /\ dev.tree \in Tree
  BY <1>2, TreesOf DEF RepositoryOK, Some
<1> QED
  BY <1>1, <1>2, <1>3, Rebased DEF DevOK

\* The device asks, hears, or gives up.
LEMMA PostDevice ==
  ASSUME RepositoryOK, RequestsOK, DeviceOK, Post
  PROVE  RequestsOK' /\ DeviceOK'
<1>1. PICK x : /\ x = IF Fresh THEN Cloud ELSE binding.base
               /\ wire' = wire \cup {Body(x, files)}
               /\ dev' = [at |-> "posted", body |-> Body(x, files)]
  BY DEF Post
<1>2. /\ UNCHANGED <<commits, server, receipts, applied, members, sends, resends, crashes>>
      /\ UNCHANGED <<files, binding, backups, edits, last, overtaken>> /\ Open
  BY DEF Post, Reaches, rest, rows, limits
<1>3. x \in Nat /\ files \in Tree
  BY <1>1, <1>2, CloudTyped DEF DeviceOK, WorkOK
<1>4. BodyOK(Body(x, files)) /\ Body(x, files).device
  BY <1>3, UploadBody
<1>5. DevOK'
  BY <1>1, <1>4 DEF DevOK
<1> QED
  BY <1>1, <1>2, <1>4, <1>5, PostRequests, Rebased

LEMMA ServeDevice ==
  ASSUME RepositoryOK, DeviceOK, Serve
  PROVE  DeviceOK'
<1>1. /\ UNCHANGED <<commits, files, binding, backups, edits, last, overtaken>> /\ server.at = "committed"
      /\ \/ dev' = dev
         \/ Waiting(server.body) /\ dev' = Answered(server.body, server.commit)
  BY DEF Serve, Repair
<1>2. Made' = Made
  BY <1>1 DEF Made
<1>3. CASE dev' = dev
  BY <1>1, <1>2, <1>3, Rebased DEF DeviceOK, DevOK
<1>4. CASE Waiting(server.body) /\ dev' = Answered(server.body, server.commit)
  <2>1. BodyOK(server.body) /\ server.body.device
    BY <1>4 DEF DeviceOK, DevOK, Waiting, Idle
  <2>2. server.body.op = "save"
    BY <2>1, BodyKey
  <2>3. server.commit \in Made /\ commits[server.commit].tree = server.body.tree
    BY <1>1, <2>2 DEF RepositoryOK, ServerOK, Some, Idle
  <2>4. DevOK'
    BY <1>1, <1>2, <1>4, <2>3 DEF DevOK, Answered
  <2> QED
    BY <1>1, <2>4, Rebased
<1> QED
  BY <1>1, <1>3, <1>4

LEMMA ReplayDevice ==
  ASSUME RequestsOK, DeviceOK, NEW b \in wire, Replay(b)
  PROVE  RequestsOK' /\ DeviceOK'
<1>1. PICK r \in receipts : r.key = b.key /\ dev' = Answered(b, r.commit)
  BY DEF Replay
<1>2. /\ UNCHANGED <<commits, server, receipts, applied, members, sends, resends, crashes>>
      /\ UNCHANGED <<files, binding, backups, edits, last, overtaken>> /\ Waiting(b) /\ wire' \subseteq wire
  BY DEF Replay, rest, rows, limits
<1>3. Made' = Made /\ Served' = Served
  BY <1>2 DEF Made, Served
<1>4. BodyOK(b) /\ b.device
  BY <1>2 DEF DeviceOK, DevOK, Waiting, Idle
<1>5. b.key \in DeviceKey /\ b.key.tree = b.tree
  BY <1>4, BodyKey
<1>6. r.commit \in Made /\ commits[r.commit].tree = b.tree
  BY <1>1, <1>5 DEF RequestsOK, KeysOK, Some
<1>7. DevOK'
  BY <1>1, <1>2, <1>3, <1>6 DEF DevOK, Answered
<1>8. RequestsOK'
  BY <1>2, <1>3, FewerRequests DEF RequestsOK, LimitsOK
<1> QED
  BY <1>2, <1>7, <1>8, Rebased

LEMMA FailDevice ==
  ASSUME RequestsOK, DeviceOK, Fail
  PROVE  RequestsOK' /\ DeviceOK'
<1>1. /\ UNCHANGED <<commits, server, receipts, applied, members, sends, resends, crashes>>
      /\ UNCHANGED <<files, binding, backups, edits, last, overtaken>> /\ dev' = Idle /\ wire' \subseteq wire
  BY DEF Fail, rest, rows, limits
<1>2. Served' = Served
  BY <1>1 DEF Served
<1>3. RequestsOK'
  BY <1>1, <1>2, FewerRequests DEF RequestsOK, LimitsOK
<1> QED
  BY <1>1, <1>3, Rebased DEF DevOK

LEMMA StopDevice ==
  ASSUME DeviceOK, Stop
  PROVE  DeviceOK'
<1>1. UNCHANGED <<commits, files, binding, backups, edits, last, overtaken>> /\ dev' = Idle
  BY DEF Stop, codeVars
<1> QED
  BY <1>1, Rebased DEF DevOK

\* A download keeps a copy before it replaces the first file.
LEMMA DownloadDevice ==
  ASSUME RepositoryOK, DeviceOK, Download
  PROVE  DeviceOK'
<1> DEFINE tree == commits[Cloud].tree
<1>1. /\ UNCHANGED <<commits, files, edits, last, overtaken>> /\ dev = Idle /\ Open
      /\ \/ files = tree /\ binding' = Bound(Cloud, tree) /\ UNCHANGED <<backups, dev>>
         \/ /\ files = binding.baseline /\ backups' = backups \cup {files}
            /\ binding' = [binding EXCEPT !.torn = TRUE]
            /\ dev' = [at |-> "placing", commit |-> Cloud, tree |-> tree,
                       todo |-> {f \in File : files[f] # Absent \/ tree[f] # Absent}]
  BY DEF Download, codeVars, Reaches
<1>2. Cloud \in Made /\ Cloud \in Some /\ tree \in Tree /\ Made' = Made /\ Some' = Some
  BY <1>1, CloudTyped DEF Made, Some
<1>3. CASE binding' = Bound(Cloud, tree) /\ UNCHANGED <<backups, dev>>
  BY <1>1, <1>2, <1>3, Rebased DEF DevOK
<1>4. CASE /\ files = binding.baseline /\ backups' = backups \cup {files}
           /\ binding' = [binding EXCEPT !.torn = TRUE]
           /\ dev' = [at |-> "placing", commit |-> Cloud, tree |-> tree,
                      todo |-> {f \in File : files[f] # Absent \/ tree[f] # Absent}]
  <2>1. /\ binding' \in [base : Nat, baseline : Tree, torn : BOOLEAN]
        /\ binding'.base = binding.base /\ binding'.baseline = binding.baseline /\ binding'.torn
    BY <1>4 DEF DeviceOK, WorkOK
  <2>2. LocalWorkKept'
    BY <1>1, <1>4 DEF DeviceOK, WorkOK, LocalWorkKept
  <2>3. WorkOK'
    BY <1>1, <1>2, <1>4, <2>1, <2>2 DEF DeviceOK, WorkOK, BaselineTrue
  <2>4. DevOK'
    BY <1>1, <1>2, <1>4, <2>1 DEF DevOK
  <2> QED
    BY <2>3, <2>4 DEF DeviceOK
<1> QED
  BY <1>1, <1>3, <1>4

\* The last check of a file finds what the copy holds of it.
LEMMA CheckDevice ==
  ASSUME DeviceOK, NEW f \in File, Check(f)
  PROVE  DeviceOK'
<1>1. /\ UNCHANGED <<commits, files, binding, backups, edits, last, overtaken>>
      /\ dev.at = "placing"
      /\ \/ dev' = Idle
         \/ /\ files[f] = binding.baseline[f]
            /\ dev' = [at |-> "checked", commit |-> dev.commit, tree |-> dev.tree,
                       todo |-> dev.todo, file |-> f, seen |-> files[f]]
  BY DEF Check, codeVars
<1>2. /\ dev.commit \in Made /\ dev.tree = commits[dev.commit].tree /\ dev.todo \subseteq File
      /\ binding.baseline \in backups
  BY <1>1 DEF DeviceOK, DevOK, Idle
<1>3. Made' = Made
  BY <1>1 DEF Made
<1>4. DevOK'
  BY <1>1, <1>2, <1>3 DEF DevOK
<1> QED
  BY <1>1, <1>4, Rebased

\* What is replaced is in that copy, or was saved after the last check.
LEMMA PutDevice ==
  ASSUME RepositoryOK, DeviceOK, Put
  PROVE  DeviceOK'
<1> DEFINE f == dev.file
<1>1. /\ UNCHANGED <<commits, binding, backups, edits, last>> /\ dev.at = "checked"
      /\ \/ dev' = Idle /\ UNCHANGED <<files, overtaken>>
         \/ /\ files' = [files EXCEPT ![f] = dev.tree[f]]
            /\ overtaken' = IF files[f] = dev.seen THEN overtaken ELSE overtaken \cup {f}
            /\ dev' = [at |-> "placing", commit |-> dev.commit, tree |-> dev.tree,
                       todo |-> dev.todo \ {f}]
  BY DEF Put, codeVars
<1>2. /\ dev.commit \in Made /\ dev.tree = commits[dev.commit].tree /\ dev.todo \subseteq File
      /\ binding.baseline \in backups
      /\ f \in File /\ dev.seen = binding.baseline[f]
  BY <1>1 DEF DeviceOK, DevOK, Idle
<1>3. CASE dev' = Idle /\ UNCHANGED <<files, overtaken>>
  BY <1>1, <1>3, Rebased DEF DevOK
<1>4. CASE /\ files' = [files EXCEPT ![f] = dev.tree[f]]
           /\ overtaken' = IF files[f] = dev.seen THEN overtaken ELSE overtaken \cup {f}
           /\ dev' = [at |-> "placing", commit |-> dev.commit, tree |-> dev.tree,
                      todo |-> dev.todo \ {f}]
  <2>1. dev.tree \in Tree
    BY <1>2, TreesOf DEF RepositoryOK
  <2>2. files' \in Tree /\ overtaken' \subseteq File
    BY <1>2, <1>4, <2>1 DEF DeviceOK, WorkOK, Tree
  <2>3. LocalWorkKept'
    <3> SUFFICES ASSUME NEW g \in File, g \notin overtaken'
                 PROVE  files'[g] = last[g] \/ \E t \in backups : t[g] = last[g]
      BY <1>1 DEF LocalWorkKept
    <3>1. files[g] = last[g] \/ \E t \in backups : t[g] = last[g]
      BY <1>4 DEF DeviceOK, WorkOK, LocalWorkKept
    <3>2. g # f => files'[g] = files[g]
      BY <1>4 DEF DeviceOK, WorkOK, Tree
    <3>3. g = f => files[g] = binding.baseline[g]
      BY <1>2, <1>4
    <3> QED
      BY <1>2, <3>1, <3>2, <3>3
  <2>4. BaselineTrue' /\ Some' = Some /\ Made' = Made
    BY <1>1 DEF DeviceOK, WorkOK, BaselineTrue, Some, Made
  <2>5. WorkOK'
    BY <1>1, <2>2, <2>3, <2>4 DEF DeviceOK, WorkOK
  <2>6. DevOK'
    BY <1>1, <1>2, <1>4, <2>4 DEF DevOK
  <2> QED
    BY <2>5, <2>6 DEF DeviceOK
<1> QED
  BY <1>1, <1>3, <1>4

\* The directory that a recovery leaves stays where it is.
LEMMA RecoverDevice ==
  ASSUME RepositoryOK, DeviceOK, Recover
  PROVE  DeviceOK'
<1> DEFINE tree == commits[Cloud].tree
<1>1. /\ UNCHANGED <<commits, dev, edits>> /\ dev = Idle /\ Open
      /\ backups' = backups \cup {files} /\ files' = tree /\ last' = tree /\ overtaken' = {}
      /\ binding' = Bound(Cloud, tree)
  BY DEF Recover, codeVars, Reaches
<1>2. Cloud \in Some /\ Cloud \in Nat /\ tree \in Tree /\ Some' = Some
  BY <1>1, CloudTyped DEF Some, Made
<1>3. LocalWorkKept' /\ BaselineTrue'
  BY <1>1 DEF LocalWorkKept, BaselineTrue, Bound
<1>4. /\ binding' \in [base : Nat, baseline : Tree, torn : BOOLEAN] /\ binding'.base = Cloud
  BY <1>1, <1>2 DEF Bound
<1>5. DevOK'
  BY <1>1 DEF DevOK
<1> QED
  BY <1>1, <1>2, <1>3, <1>4, <1>5 DEF DeviceOK, WorkOK
-----------------------------------------------------------------------------
(* Steps.                                                                  *)

Promises == MergedAsReviewed /\ AppliedOnce /\ FastForwardOnly

\* The heads stay, and no request takes effect.
LEMMA QuietStep ==
  ASSUME RepositoryOK, UNCHANGED <<repo, branch>>, server' = server \/ server'.at # "committed",
         \A c \in Made : commits'[c] = commits[c]
  PROVE  Promises
<1>1. ~Lands
  BY DEF Lands
<1>2. \A c \in Made : Forward(c, c)
  BY PastOf DEF RepositoryOK, Past, Made, None, Forward
<1>3. \A w \in Writer : Tip(w) # None => Tip(w) \in Made /\ branch'[w].head = Tip(w)
  BY DEF RepositoryOK, RowsOK, Some, Tip
<1>4. FastForwardOnly
  BY <1>2, <1>3 DEF FastForwardOnly
<1> QED
  BY <1>1, <1>4 DEF Promises, MergedAsReviewed, AppliedOnce

LEMMA InstallStep ==
  ASSUME RepositoryOK, RequestsOK, NEW b \in wire \cup Served, NEW c, Ready(b, c), Install(b, c),
         wire' \subseteq wire, server.at # "committed"
  PROVE  RepositoryOK' /\ RequestsOK' /\ UNCHANGED commits /\ Promises
<1>1. BodyOK(b)
  BY DEF RequestsOK, WireOK
<1>2. RepositoryOK'
  BY <1>1, InstallRepository
<1>3. RequestsOK' /\ b.key \notin applied
  BY InstallRequests DEF RequestsOK, LimitsOK, Install, limits
<1>4. /\ UNCHANGED commits /\ server'.body = b
      /\ \A n \in Some : n # None => Past(n)' = commits'[n].past
  BY DEF Install, Past, None
<1>5. MergedAsReviewed /\ AppliedOnce
  BY <1>1, <1>3, <1>4, InstallRows DEF RepositoryOK, MergedAsReviewed, AppliedOnce
<1>6. FastForwardOnly
  <2>1. /\ repo'.main \in {repo.main, c} /\ \A w \in Writer : Tip(w)' \in {Tip(w), None, c}
        /\ \A w \in Writer : Tip(w) # None /\ Tip(w)' # None => Tip(w) \in Past(Tip(w)')
        /\ repo.main # None /\ repo'.main # repo.main
              => repo.main \in Past(repo'.main) \/ b.op = "clearProject"
    BY <1>1, InstallRows DEF RepositoryOK
  <2>2. \A m, n : m \in Past(n) => Forward(m, n)
    BY <1>4 DEF Past, Forward
  <2>3. \A w \in Writer : Tip(w)' = branch'[w].head
    BY DEF Tip
  <2>4. repo.main # None /\ repo'.main # repo.main /\ b.op = "clearProject" => Lands
    BY DEF Lands, Install
  <2> QED
    BY <1>4, <2>1, <2>2, <2>3, <2>4 DEF FastForwardOnly
<1> QED
  BY <1>2, <1>3, <1>4, <1>5, <1>6 DEF Promises

LEMMA LeaveStep ==
  ASSUME RepositoryOK, RequestsOK, NEW b \in wire, Leave(b)
  PROVE  RepositoryOK' /\ RequestsOK' /\ UNCHANGED commits /\ Promises
<1>1. BodyOK(b)
  BY DEF RequestsOK, WireOK
<1>2. RepositoryOK'
  BY <1>1, LeaveRepository
<1>3. RequestsOK' /\ b.key \notin applied
  BY LeaveRequests DEF RequestsOK, LimitsOK, Leave, limits
<1>4. /\ UNCHANGED <<commits, repo>> /\ branch' = [branch EXCEPT ![b.of] = NoBranch]
      /\ server'.body = b /\ b.op \in Leaving
  BY DEF Leave
<1>5. MergedAsReviewed /\ AppliedOnce
  BY <1>3, <1>4 DEF MergedAsReviewed, AppliedOnce, Leaving
<1>6. \A c \in Made : Forward(c, c)
  BY <1>4, PastOf DEF RepositoryOK, Past, Made, None, Forward
<1>7. \A w \in Writer : /\ branch'[w].head \in {Tip(w), None}
                        /\ Tip(w) # None => Tip(w) \in Made
  BY <1>4 DEF RepositoryOK, RowsOK, Some, Tip, NoBranch
<1>8. FastForwardOnly
  BY <1>4, <1>6, <1>7 DEF FastForwardOnly
<1> QED
  BY <1>2, <1>3, <1>4, <1>5, <1>8 DEF Promises

LEMMA StillRepository ==
  ASSUME RepositoryOK, UNCHANGED <<commits, stored, old, refs, rows, server, keeper>>
  PROVE  RepositoryOK' /\ Promises
<1>1. ServerOK' /\ GraphOK' /\ RowsOK' /\ Reach(Heads)' = Reach(Heads) /\ Some' = Some /\ Made' = Made
  BY RowsStay, ServerKept
<1>2. StoreOK'
  BY <1>1, KeptRefs DEF RepositoryOK, StoreOK
<1>3. Promises
  BY QuietStep DEF rows
<1> QED
  BY <1>1, <1>2, <1>3 DEF RepositoryOK

\* Every step of the repository, whatever the workspace does.
LEMMA CodeStep ==
  ASSUME RepositoryOK, RequestsOK, CodeNext
  PROVE  /\ RepositoryOK' /\ RequestsOK' /\ Promises
         /\ Some \subseteq Some' /\ Made \subseteq Made' /\ \A c \in Made : commits'[c] = commits[c]
<1> DEFINE Grows == /\ Some \subseteq Some' /\ Made \subseteq Made'
                    /\ \A c \in Made : commits'[c] = commits[c]
           Goal  == RepositoryOK' /\ RequestsOK' /\ Promises /\ Grows
<1>1. UNCHANGED commits => Grows
  BY DEF Some, Made
<1>2. \A b \in wire : BodyOK(b)
  BY DEF RequestsOK, WireOK
<1>3. ASSUME NEW m \in Member, Send(m)  PROVE Goal
  <2>1. UNCHANGED <<commits, stored, old, refs, rows, server, keeper>>
    BY <1>3 DEF Send
  <2> QED
    BY <1>1, <1>3, <2>1, SendRequests, StillRepository
<1>4. ASSUME NEW b \in wire, Write(b)  PROVE Goal
  <2>1. Promises
    <3>1. server' # server /\ server'.at = "written" /\ UNCHANGED <<repo, branch>>
      BY <1>4 DEF Write, rows, Idle
    <3> QED
      BY <1>4, <3>1, WriteRequests, QuietStep
  <2> QED
    BY <1>2, <1>4, <2>1, WriteRequests, WriteRepository
<1>5. ASSUME NEW b \in wire, Alter(b)  PROVE Goal
  <2>1. PICK c : Ready(b, c) /\ Install(b, c)
    BY <1>2, <1>5, AlterReady
  <2>2. wire' \subseteq wire /\ server.at # "committed"
    BY <1>5 DEF Alter, Idle
  <2> QED
    BY <1>1, <2>1, <2>2, InstallStep
<1>6. ASSUME NEW b \in wire, Leave(b)  PROVE Goal
  BY <1>1, <1>6, LeaveStep
<1>7. ASSUME NEW b \in wire, Refuse(b)  PROVE Goal
  <2>1. /\ UNCHANGED <<commits, stored, old, refs, rows, server, keeper, limits>>
        /\ wire' \subseteq wire /\ Served' = Served
    BY <1>7 DEF Refuse, Served
  <2>2. RequestsOK'
    BY <2>1, FewerRequests DEF rows, limits, RequestsOK, LimitsOK
  <2> QED
    BY <1>1, <2>1, <2>2, StillRepository
<1>8. ASSUME Commit  PROVE Goal
  <2>1. server.body \in wire \cup Served /\ UNCHANGED wire /\ server.at = "written"
    BY <1>8 DEF Commit, Served, Idle
  <2> QED
    BY <1>1, <1>8, <2>1, CommitReady, InstallStep
<1>9. ASSUME Crash  PROVE Goal
  <2>1. UNCHANGED <<commits, repo, branch>> /\ server'.at # "committed"
    BY <1>9 DEF Crash, rows, Idle
  <2> QED
    BY <1>1, <1>9, <2>1, CrashRepository, CrashRequests, QuietStep
<1>10. ASSUME Age \/ Snapshot \/ Sweep  PROVE Goal
  <2>1. UNCHANGED <<commits, rows, wire, server, limits>>
    BY <1>10 DEF Age, Snapshot, Sweep
  <2>2. RequestsOK'
    BY <2>1, FewerRequests DEF rows, limits, RequestsOK, LimitsOK, Served
  <2>3. Promises
    BY <2>1, QuietStep DEF rows
  <2> QED
    BY <1>1, <1>10, <2>1, <2>2, <2>3, AgeRepository, SnapshotRepository, SweepRepository
<1> QED
  BY <1>3, <1>4, <1>5, <1>6, <1>7, <1>8, <1>9, <1>10 DEF CodeNext

\* A step of the workspace that leaves the repository alone.
LEMMA AloneStep ==
  ASSUME RepositoryOK, RequestsOK, UNCHANGED codeVars
  PROVE  RepositoryOK' /\ RequestsOK' /\ Promises
<1>1. UNCHANGED <<commits, stored, old, refs, rows, wire, server, keeper, limits>>
  BY DEF codeVars
<1>2. RequestsOK'
  BY <1>1, FewerRequests DEF rows, limits, RequestsOK, LimitsOK, Served
<1> QED
  BY <1>1, <1>2, StillRepository

LEMMA Step ==
  ASSUME Inv, [Next]_vars
  PROVE  Inv' /\ Promises
<1> USE DEF Inv
<1>1. ASSUME UNCHANGED vars  PROVE Inv' /\ Promises
  <2>1. UNCHANGED codeVars /\ UNCHANGED syncVars
    BY <1>1 DEF vars
  <2>2. Some' = Some /\ Made' = Made /\ UNCHANGED commits
    BY <2>1 DEF codeVars, Some, Made
  <2> QED
    BY <2>1, <2>2, AloneStep, DeviceStays
<1>2. ASSUME CodeNext, UNCHANGED syncVars  PROVE Inv' /\ Promises
  BY <1>2, CodeStep, DeviceStays
<1>3. ASSUME Serve  PROVE Inv' /\ Promises
  <2>1. Repair /\ UNCHANGED <<commits, repo, branch>> /\ server'.at # "committed"
    BY <1>3 DEF Serve, Repair, rows, Idle
  <2> QED
    BY <1>3, <2>1, RepairRepository, RepairRequests, ServeDevice, QuietStep
<1>4. ASSUME NEW f \in File, NEW v \in Content, Edit(f, v)  PROVE Inv' /\ Promises
  BY <1>4, EditDevice, AloneStep DEF Edit
<1>5. ASSUME Adopt  PROVE Inv' /\ Promises
  BY <1>5, AdoptDevice, AloneStep DEF Adopt
<1>6. ASSUME Post  PROVE Inv' /\ Promises
  BY <1>6, PostDevice, StillRepository DEF Post, rest
<1>7. ASSUME Fail  PROVE Inv' /\ Promises
  BY <1>7, FailDevice, StillRepository DEF Fail, rest
<1>8. ASSUME Verify  PROVE Inv' /\ Promises
  BY <1>8, VerifyDevice, AloneStep DEF Verify
<1>9. ASSUME NEW b \in wire, Replay(b)  PROVE Inv' /\ Promises
  BY <1>9, ReplayDevice, StillRepository DEF Replay, rest
<1>10. ASSUME Download  PROVE Inv' /\ Promises
  BY <1>10, DownloadDevice, AloneStep DEF Download
<1>11. ASSUME Placed  PROVE Inv' /\ Promises
  BY <1>11, PlacedDevice, AloneStep DEF Placed
<1>12. ASSUME Recover  PROVE Inv' /\ Promises
  BY <1>12, RecoverDevice, AloneStep DEF Recover
<1>13. ASSUME Stop  PROVE Inv' /\ Promises
  BY <1>13, StopDevice, AloneStep DEF Stop
<1>14. ASSUME NEW f \in File, Check(f)  PROVE Inv' /\ Promises
  BY <1>14, CheckDevice, AloneStep DEF Check
<1>15. ASSUME Put  PROVE Inv' /\ Promises
  BY <1>15, PutDevice, AloneStep DEF Put
<1> QED
  BY <1>1, <1>2, <1>3, <1>4, <1>5, <1>6, <1>7, <1>8, <1>9, <1>10, <1>11, <1>12, <1>13, <1>14, <1>15 DEF Next
-----------------------------------------------------------------------------
(* The initial states.                                                     *)

LEMMA InitCommits ==
  ASSUME NEW start \in 0..2, NEW f \in File, NEW v \in Content,
         commits = SubSeq(<<Root, Saved(f, v)>>, 1, start)
  PROVE  GraphOK /\ Made = 1..start /\ DOMAIN commits = Made
<1> DEFINE both == <<Root, Saved(f, v)>>
           T == [tree : Tree, past : SUBSET Nat]
<1>1. /\ Root \in T /\ Root.past = {1} /\ Saved(f, v) \in T /\ Saved(f, v).past = {1, 2}
  BY Basics DEF Root, Saved, Tree
<1>2. both \in Seq(T) /\ Len(both) = 2 /\ both[1] = Root /\ both[2] = Saved(f, v)
  BY <1>1
<1> HIDE DEF both, T
<1>3. /\ commits \in Seq(T) /\ Len(commits) = start
      /\ \A i \in 1..start : commits[i] = both[i]
  BY <1>2, SubSeqProperties
<1>4. Made = 1..start /\ DOMAIN commits = Made
  BY <1>3, LenProperties DEF Made
<1>5. \A c \in Made : Past(c) = IF c = 1 THEN {1} ELSE {1, 2}
  <2> SUFFICES ASSUME NEW c \in Made
               PROVE  Past(c) = IF c = 1 THEN {1} ELSE {1, 2}
    OBVIOUS
  <2>1. c \in {1, 2} /\ c # None
    BY <1>4 DEF None
  <2>2. commits[c] = both[c]
    BY <1>3, <1>4
  <2> QED
    BY <1>1, <1>2, <2>1, <2>2 DEF Past
<1>6. \A c \in Made : c \in {1, 2} /\ (c = 2 => start = 2)
  BY <1>4
<1>7. GraphOK
  <2>1. Len(commits) <= MaxCommits
    BY <1>3, CodeAssumption
  <2>2. \A c \in Made : c \in Past(c) /\ Past(c) \subseteq Made
    BY <1>4, <1>5, <1>6
  <2>3. \A c \in Made : \A d \in Past(c) : Past(d) \subseteq Past(c)
    BY <1>5, <1>6, <2>2
  <2> QED
    BY <1>3, <2>1, <2>2, <2>3 DEF GraphOK, T
<1> QED
  BY <1>4, <1>7

LEMMA InitInv ==
  ASSUME Init
  PROVE  Inv
<1>1. PICK start \in 0..2 : InitWith(start)
  BY DEF Init
<1>2. CodeInit(start)
  BY <1>1 DEF InitWith
<1>3. GraphOK /\ Made = 1..start /\ DOMAIN commits = Made
  BY <1>2, InitCommits DEF CodeInit
<1>4. /\ repo = [main |-> IF start = 0 THEN None ELSE 1, enabled |-> start > 0]
      /\ repo.main \in Some
  BY <1>2, <1>3 DEF CodeInit, Some, None
<1>5. \A w \in Writer : branch[w] \in {NoBranch, [head |-> 2, review |-> "draft"]}
                        /\ (branch[w] # NoBranch => start = 2)
  BY <1>2 DEF CodeInit
<1>6. /\ branch \in [Writer -> Row]
      /\ \A w \in Writer : /\ Tip(w) \in Some
                           /\ Tip(w) = None => ~HasBranch(w)
                           /\ branch[w].review \in {"none", "draft"}
  <2>1. NoBranch \in Row /\ [head |-> 2, review |-> "draft"] \in Row
    BY DEF NoBranch, Row, None
  <2>2. branch \in [Writer -> Row]
    BY <1>2, <2>1 DEF CodeInit
  <2> QED
    BY <1>3, <1>5, <2>2 DEF Tip, HasBranch, NoBranch, Some, None
<1>7. RowsOK
  BY <1>2, <1>4, <1>6, Basics DEF RowsOK, CodeInit
<1>8. StoreOK /\ ServerOK
  <2>1. Reach(Heads) \subseteq Made
    BY <1>3, <1>7, HeadsTyped, PastOf DEF Reach
  <2> QED
    BY <1>2, <1>3, <1>7, <2>1, HeadsTyped DEF CodeInit, StoreOK, ServerOK
<1>9. RequestsOK
  BY <1>2 DEF CodeInit, RequestsOK, LimitsOK, KeysOK, WireOK, Given, Served
<1>10. DeviceOK
  <2>1. files \in Tree
    BY <1>1, CodeAssumption, Basics DEF InitWith, Tree, Empty
  <2> QED
    BY <1>1, <2>1, Basics, SyncAssumption
       DEF InitWith, DeviceOK, WorkOK, DevOK, Bound, BaselineTrue, LocalWorkKept, Some
<1> QED
  BY <1>3, <1>7, <1>8, <1>9, <1>10 DEF Inv, RepositoryOK
-----------------------------------------------------------------------------
(* Theorems.                                                               *)

LEMMA StoreHolds ==
  ASSUME Inv
  PROVE  StoreSound
<1> USE DEF Inv, RepositoryOK
<1>1. Len(commits) \in Nat /\ Made \subseteq Id /\ Some \subseteq Id
  BY LenProperties, CodeAssumption DEF GraphOK, Made, Some, Id, None
<1>2. commits \in Seq([tree : Tree, past : SUBSET Id])
  <2>1. \A c \in Made : commits[c] \in [tree : Tree, past : SUBSET Nat] /\ commits[c].past \subseteq Id
    BY <1>1, TreesOf, Basics DEF GraphOK, Past
  <2>2. \A c \in Made : commits[c] \in [tree : Tree, past : SUBSET Id]
    BY <2>1
  <2>3. commits \in [1..Len(commits) -> [tree : Tree, past : SUBSET Id]]
    BY <2>2, LenProperties DEF Made, GraphOK
  <2>4. \A S : \A n \in Nat : [1..n -> S] \subseteq Seq(S)
    BY SeqDef, Zenon
  <2> QED
    BY <1>1, <2>3, <2>4, Zenon
<1>3. Heads \in [Ref -> Some]
  BY HeadsTyped
<1>4. CodeTypeOK
  <2>1. refs \in [Ref -> Id] /\ Heads \in [Ref -> Id]
    BY <1>1, <1>3 DEF StoreOK
  <2>2. server.at \in {"idle", "written", "committed"} /\ keeper.at \in {"idle", "holding"}
    BY DEF ServerOK, StoreOK, Idle
  <2>3. repo.enabled \in BOOLEAN
        /\ \A w \in Writer : branch[w].review \in {"none", "draft", "requested", "merged"}
    BY DEF RowsOK, Row
  <2> QED
    BY <1>2, <2>1, <2>2, <2>3 DEF CodeTypeOK, GraphOK, StoreOK, RowsOK, Made, RequestsOK, LimitsOK
<1>5. HeadsStored
  BY DEF HeadsStored, StoreOK, ServerOK, Ready, Idle
<1> QED
  BY <1>4, <1>5 DEF StoreSound

LEMMA WorkHolds ==
  ASSUME Inv
  PROVE  WorkspaceSound
<1>1. Some \subseteq Id
  BY StoreHolds, LenProperties, CodeAssumption DEF Inv, RepositoryOK, GraphOK, Some, Made, Id, None
<1>2. dev.at \in {"idle", "posted", "answered", "placing", "checked"}
  BY DEF Inv, DeviceOK, DevOK, Idle
<1> QED
  BY <1>1, <1>2 DEF Inv, DeviceOK, WorkOK, WorkspaceSound, SyncTypeOK

\* The store is always well formed and complete: no commit that a head of the
\* database, a Git ref, a transaction about to commit or the snapshot of a
\* running maintenance names, and nothing in its history, is ever missing
\* from it, however many requests, retries, crashes and sweeps interleave.
THEOREM StoreKept == Spec => []StoreSound
<1>1. Init => Inv
  BY InitInv
<1>2. Inv /\ [Next]_vars => Inv'
  BY Step
<1>3. Inv => StoreSound
  BY StoreHolds
<1> QED
  BY <1>1, <1>2, <1>3, PTL DEF Spec

\* What the member last left in a file is always in the workspace or in a
\* backup, unless it was saved between the last check of the file and the
\* rename or unlink that replaced it, which loses it; and a complete
\* synchronisation always names the commit whose files it holds as its
\* baseline, whatever becomes of an upload, a download or a recovery.
THEOREM WorkKept == Spec => []WorkspaceSound
<1>1. Init => Inv
  BY InitInv
<1>2. Inv /\ [Next]_vars => Inv'
  BY Step
<1>3. Inv => WorkspaceSound
  BY WorkHolds
<1> QED
  BY <1>1, <1>2, <1>3, PTL DEF Spec

\* The shared history: what is marked merged is in main; main receives a
\* branch only at the head its author submitted; a request takes effect at
\* most once however often it is delivered; and main and the branches only
\* move forward unless somebody clears them.
THEOREM HistoryKept == Spec => HistorySound
<1>1. Init => Inv
  BY InitInv
<1>2. Inv /\ [Next]_vars => Inv'
  BY Step
<1>3. Inv => MergedIsInMain
  BY DEF Inv, RepositoryOK, RowsOK, MergedIsInMain
<1>4. Inv /\ [Next]_vars => [MergedAsReviewed /\ AppliedOnce /\ FastForwardOnly]_codeVars
  BY Step DEF Promises
<1> QED
  BY <1>1, <1>2, <1>3, <1>4, PTL DEF Spec, HistorySound
=============================================================================
