----------------------------- MODULE CodeSync -----------------------------
(***************************************************************************)
(* One member's computer beside the cloud code of a project: the workspace *)
(* synchroniser of the connector (packages/bridge/src/code-sync.ts)        *)
(* composed with CodeRepository.  The workspace lock admits one operation  *)
(* at a time; the member edits the files while it runs, other devices and  *)
(* the browser move the branch, replies get lost, and the connector may    *)
(* die between two writes.                                                 *)
(*                                                                         *)
(* The two reads of the cloud at the start of an operation, its reading of *)
(* the files and its first checks of them are one step: each is checked    *)
(* again before it matters.  The last check of a file and its replacement  *)
(* are two: the code holds no lock against the user's editor.              *)
(***************************************************************************)
EXTENDS CodeRepository

CONSTANTS Author,       \* the member whose computer this is
          MaxEdits      \* bound on the member's own edits

ASSUME SyncAssumption == Author \in Writer /\ MaxEdits \in Nat

VARIABLES local,     \* whether this computer is authorised to synchronise
          files,     \* the workspace
          binding,   \* binding.json
          backups,   \* download-backups, and directories left by a recovery
          dev,       \* the operation that holds operation.lock
          edits,
          last,      \* history: what the member last left in each file
          overtaken  \* history: files replaced although saved since their last check

syncVars == <<local, files, binding, backups, dev, edits, last, overtaken>>
vars == <<codeVars, syncVars>>
rest == <<commits, stored, old, refs, rows, server, keeper, limits>>

Reaches == Author \in members /\ Open     \* #cloudStatus and assertEnabled
Cloud   == Base(Author)                   \* what #snapshot returns
Body(base, tree) == [Ask("save", Author) EXCEPT !.key = [base |-> base, tree |-> tree],
                                                !.base = base, !.tree = tree, !.device = TRUE]
Bound(c, tree) == [base |-> c, baseline |-> tree, torn |-> FALSE]

Edit(f, v) ==
  /\ local /\ edits < MaxEdits /\ files[f] # v
  /\ files' = [files EXCEPT ![f] = v]
  /\ last' = [last EXCEPT ![f] = v]
  /\ overtaken' = overtaken \ {f}
  /\ edits' = edits + 1
  /\ UNCHANGED <<codeVars, local, binding, backups, dev>>
-----------------------------------------------------------------------------
(* upload.                                                                 *)

Fresh == binding.base = None              \* a device that never synchronised

\* The cloud already holds exactly these files.
Adopt ==
  /\ local /\ dev = Idle /\ ~binding.torn /\ Reaches
  /\ Fresh /\ commits[Cloud].tree # Empty /\ commits[Cloud].tree = files
  /\ binding' = Bound(Cloud, files)
  /\ UNCHANGED <<codeVars, local, files, backups, dev, edits, last, overtaken>>

Post ==
  /\ local /\ dev = Idle /\ ~binding.torn /\ Reaches
  /\ IF Fresh THEN commits[Cloud].tree = Empty ELSE files # binding.baseline
  /\ LET b == Body(IF Fresh THEN Cloud ELSE binding.base, files)
     IN  /\ wire' = wire \cup {b}
         /\ dev' = [at |-> "posted", body |-> b]
  /\ UNCHANGED <<rest, local, files, binding, backups, edits, last, overtaken>>

Waiting(b) == dev = [at |-> "posted", body |-> b]
Answered(b, c) == [at |-> "answered", body |-> b, commit |-> c]

\* The reply to a served request, unless the device stopped waiting.
Serve ==
  /\ Repair
  /\ LET b == server.body
     IN  dev' \in {dev} \cup {d \in {Answered(b, server.commit)} : Waiting(b)}
  /\ UNCHANGED <<local, files, binding, backups, edits, last, overtaken>>

\* The reply from a receipt.
Replay(b) ==
  /\ server = Idle /\ Waiting(b) /\ b.by \in members
  /\ \E r \in receipts : r.key = b.key /\ r.live /\ dev' = Answered(b, r.commit)
  /\ wire' = wire \ {b}
  /\ UNCHANGED <<rest, local, files, binding, backups, edits, last, overtaken>>

\* Refused, lost on the way, or still on its way when the device gives up.
Fail ==
  /\ dev.at = "posted"
  /\ wire' \in {wire, wire \ {dev.body}}
  /\ dev' = Idle
  /\ UNCHANGED <<rest, local, files, binding, backups, edits, last, overtaken>>

\* The checkpoint is acknowledged only after it is read back.
Verify ==
  /\ dev.at = "answered"
  /\ binding' = IF Reaches /\ HeadIs(Author, dev.commit)
                THEN Bound(dev.commit, dev.body.tree) ELSE binding
  /\ dev' = Idle
  /\ UNCHANGED <<codeVars, local, files, backups, edits, last, overtaken>>
-----------------------------------------------------------------------------
(* download and recover.                                                   *)

Download ==
  /\ local /\ dev = Idle /\ ~binding.torn /\ Reaches
  /\ LET tree == commits[Cloud].tree
     IN  \/ /\ files = tree
            /\ binding' = Bound(Cloud, tree)
            /\ UNCHANGED <<backups, dev>>
         \/ /\ files # tree /\ files = binding.baseline
            /\ backups' = backups \cup {files}
            /\ binding' = [binding EXCEPT !.torn = TRUE]
            /\ dev' = [at |-> "placing", commit |-> Cloud, tree |-> tree,
                       todo |-> {f \in File : files[f] # Absent \/ tree[f] # Absent}]
  /\ UNCHANGED <<codeVars, local, files, edits, last, overtaken>>

\* The last check of one file in applySnapshot, deletions last, without
\* comparing it.
Check_Blind(f) ==
  /\ dev.at = "placing" /\ f \in dev.todo
  /\ dev.tree[f] = Absent => \A g \in dev.todo : dev.tree[g] = Absent
  /\ dev' = [at |-> "checked", commit |-> dev.commit, tree |-> dev.tree,
             todo |-> dev.todo, file |-> f, seen |-> files[f]]
  /\ UNCHANGED <<codeVars, local, files, binding, backups, edits, last, overtaken>>

\* The last check of one file in applySnapshot, deletions last; a file that
\* changed meanwhile ends the download.
Check(f) ==
  /\ dev.at = "placing" /\ f \in dev.todo
  /\ dev.tree[f] = Absent => \A g \in dev.todo : dev.tree[g] = Absent
  /\ dev' = IF files[f] = binding.baseline[f]
            THEN [at |-> "checked", commit |-> dev.commit, tree |-> dev.tree,
                  todo |-> dev.todo, file |-> f, seen |-> files[f]]
            ELSE Idle
  /\ UNCHANGED <<codeVars, local, files, binding, backups, edits, last, overtaken>>

\* The rename or unlink that follows, whatever the file holds by now; there
\* is nothing to unlink when the member has deleted the file.
Put ==
  /\ dev.at = "checked"
  /\ LET f == dev.file
     IN  \/ /\ files[f] # Absent \/ dev.tree[f] # Absent
            /\ files' = [files EXCEPT ![f] = dev.tree[f]]
            /\ overtaken' = IF files[f] = dev.seen THEN overtaken ELSE overtaken \cup {f}
            /\ dev' = [at |-> "placing", commit |-> dev.commit, tree |-> dev.tree,
                       todo |-> dev.todo \ {f}]
         \/ /\ files[f] = Absent /\ dev.tree[f] = Absent
            /\ dev' = Idle
            /\ UNCHANGED <<files, overtaken>>
  /\ UNCHANGED <<codeVars, local, binding, backups, edits, last>>

Placed ==
  /\ dev.at = "placing" /\ dev.todo = {}
  /\ binding' = IF files = dev.tree THEN Bound(dev.commit, dev.tree) ELSE binding
  /\ dev' = Idle
  /\ UNCHANGED <<codeVars, local, files, backups, edits, last, overtaken>>

\* The member continues in a new directory with the cloud's files; the old
\* one stays where it is.
Recover ==
  /\ local /\ dev = Idle /\ Reaches
  /\ LET tree == commits[Cloud].tree
     IN  /\ backups' = backups \cup {files}
         /\ files' = tree
         /\ last' = tree
         /\ binding' = Bound(Cloud, tree)
  /\ overtaken' = {}
  /\ UNCHANGED <<codeVars, local, dev, edits>>

\* The connector dies; the lock of a dead process is taken over.
Stop ==
  /\ dev.at \in {"answered", "placing", "checked"}
  /\ dev' = Idle
  /\ UNCHANGED <<codeVars, local, files, binding, backups, edits, last, overtaken>>
-----------------------------------------------------------------------------
InitWith(start) ==
  /\ CodeInit(start)
  /\ files \in {Empty} \cup {[Empty EXCEPT ![f] = v] : f \in File, v \in Content}
  /\ last = files
  /\ binding = Bound(None, Empty)
  /\ backups = {} /\ dev = Idle /\ edits = 0 /\ overtaken = {}
  /\ local \in BOOLEAN

Init == \E start \in 0..2 : InitWith(start)

Next ==
  \/ CodeNext /\ UNCHANGED syncVars
  \/ Serve
  \/ \E f \in File, v \in Content : Edit(f, v)
  \/ Adopt \/ Post \/ Fail \/ Verify
  \/ \E b \in wire : Replay(b)
  \/ Download \/ Put \/ Placed \/ Recover \/ Stop
  \/ \E f \in File : Check(f)

\* A call ends, and the maintenance timer fires every day.
Fairness ==
  /\ WF_vars(Commit /\ UNCHANGED syncVars) /\ WF_vars(Serve)
  /\ WF_vars(Snapshot /\ UNCHANGED syncVars) /\ WF_vars(Sweep /\ UNCHANGED syncVars)

Spec == Init /\ [][Next]_vars /\ Fairness
-----------------------------------------------------------------------------
SyncTypeOK ==
  /\ files \in Tree /\ last \in Tree /\ backups \subseteq Tree
  /\ binding.base \in Id /\ binding.baseline \in Tree /\ binding.torn \in BOOLEAN
  /\ dev.at \in {"idle", "posted", "answered", "placing", "checked"}
  /\ edits \in 0..MaxEdits /\ overtaken \subseteq File

\* Once a synchronisation is complete, the baseline is the tree of the commit
\* the next upload builds on: no upload hides somebody else's change, and no
\* local change is taken for synchronised.
BaselineTrue ==
  binding.base # None /\ ~binding.torn => binding.baseline = commits[binding.base].tree

\* What the member last left in a file is still in the workspace or in a
\* backup, whatever a download, its interruption or a recovery did, with one
\* exception: a save between the last check of a file and the rename or unlink
\* that replaces it (code-sync.ts:694-698, 702-703) is lost, since the lock of
\* the workspace does not lock editors (docs/CODE_SYNC.md:97).
LocalWorkKept ==
  \A f \in File \ overtaken : files[f] = last[f] \/ \E t \in backups : t[f] = last[f]

\* The workspace is typed, knows what it is based on, and loses nothing but
\* a save that falls between a last check and its replacement.
WorkspaceSound == SyncTypeOK /\ BaselineTrue /\ LocalWorkKept
=============================================================================
