------------------------------- MODULE Journal -------------------------------
(***************************************************************************)
(* The transaction journal of hukou (internal/transaction), the write-ahead *)
(* log behind adopt, upgrade and rollback.  One mutating command at a time  *)
(* holds the state lock; this module follows that holder, from the recovery *)
(* it must run first, through Begin, Apply, Commit and Finalize or Abort,   *)
(* and lets it be killed, lose power or meet an I/O error anywhere.         *)
(*                                                                         *)
(* Every durable operation of internal/durablefs is two steps here: the     *)
(* operation becomes visible, then its directory (or file) is synced.  For  *)
(* each object the module keeps what is visible and the set of what a power *)
(* failure may leave behind.  A process crash keeps what is visible.        *)
(***************************************************************************)
EXTENDS Integers, FiniteSets

CONSTANTS
  Path,       \* the participants of a transaction: live binary, manifest, ...
  External,   \* the participants a program other than hukou may write
  Content,    \* file contents (bytes and mode, or a symlink target)
  Absent,     \* the state of a path where nothing exists
  TxId,       \* journal ids; randomID draws one no other journal uses
  None,       \* "no journal" and "no participant"
  MaxFaults   \* bound on crashes, power failures, I/O errors, foreign writes

ASSUME JournalAssumption ==
  /\ External \subseteq Path
  /\ Absent \notin Content
  /\ None \notin TxId \union Path
  /\ MaxFaults \in Nat

\* A participant's state is never confused with "no transaction".
ASSUME NoneAssumption == None \notin [Path -> Content \union {Absent}]

State == Content \union {Absent}
DirName == {"none", "building", "pending", "completed"}
Marker == {"absent", "torn", "valid"}
Body == {"part", "whole"}

VARIABLES
  fs,         \* [Path -> State]: what a reader of the path sees
  disk,       \* what may be found there after a power failure
  name,       \* [TxId -> DirName]: the name under which a journal is visible
  dname,      \* the names it may have after a power failure
  body,       \* [TxId -> Body]: whole once intent.json and every payload are there
  dbody,      \* the values body may have after a power failure
  commit,     \* [TxId -> Marker]: the COMMIT marker of the journal
  dcommit,    \* the markers it may have after a power failure
  before,     \* [TxId -> [Path -> State]]: intent.mutations[].before
  after,      \* intent.mutations[].after
  pc,         \* the next step of the lock holder; "idle": nobody holds it
  mode,       \* the call it is in
  tx,         \* the journal it works on
  todo,       \* the participants the current loop has still to converge
  cur,        \* the participant being replaced
  raced,      \* {cur} if another program wrote it since its last recheck
  faults      \* faults so far

store == <<fs, disk>>
journal == <<name, dname, body, dbody, commit, dcommit, before, after>>
holder == <<pc, mode, tx, todo, cur, raced>>
vars == <<store, journal, holder, faults>>

Modes == {"none", "recover", "resolve", "begin", "cleanup", "apply", "commit",
          "abort", "finalize"}
Steps == {"idle", "root", "scan", "ready", "begin", "mksync", "capture", "seal",
          "publish", "pubsync", "undo", "converge", "armed", "swapped",
          "create", "write", "fsync", "dirsync", "abort", "rename", "renamed",
          "empty", "rmdir", "rmsync", "done"}

Blank == [p \in Path |-> Absent]

Init ==
  /\ fs \in [Path -> State]
  /\ disk = [p \in Path |-> {fs[p]}]
  /\ name = [i \in TxId |-> "none"]
  /\ dname = [i \in TxId |-> {"none"}]
  /\ body = [i \in TxId |-> "part"]
  /\ dbody = [i \in TxId |-> {"part"}]
  /\ commit = [i \in TxId |-> "absent"]
  /\ dcommit = [i \in TxId |-> {"absent"}]
  /\ before = [i \in TxId |-> Blank]
  /\ after = [i \in TxId |-> Blank]
  /\ pc = "idle" /\ mode = "none" /\ tx = None
  /\ todo = {} /\ cur = None /\ raced = {}
  /\ faults = 0

-----------------------------------------------------------------------------
(* Control of the lock holder *)

\* Continue at step s of the same call.
Goto(s) == pc' = s /\ UNCHANGED <<mode, tx, todo, cur, raced>>

\* Enter call m on journal i at step s, outside any convergence loop.
Call(m, i, s) ==
  pc' = s /\ mode' = m /\ tx' = i /\ todo' = {} /\ cur' = None /\ raced' = {}

\* The error path of the call in progress.  A failed Recover releases the
\* lock; a failed Begin cleans its building directory; a failed Apply aborts;
\* a failed Commit runs Recover at once; a failed Finalize is only a warning.
OnError ==
  \/ mode = "recover" /\ Call("none", None, "idle")
  \/ mode = "begin" /\ Call("cleanup", tx, "undo")
  \/ mode = "apply" /\ Call("abort", tx, "abort")
  \/ mode = "commit" /\ Call("resolve", None, "root")
  \/ mode = "finalize" /\ Call("finalize", tx, "done")
  \/ mode \in {"none", "resolve", "cleanup", "abort"} /\ Call("none", None, "ready")

\* Converge every participant of journal i, in call m.
Loop(m, i) ==
  pc' = "converge" /\ mode' = m /\ tx' = i /\ todo' = Path
  /\ cur' = None /\ raced' = {}

\* The journals visible under a name; what Inspect counts as residue.
Named(n) == {i \in TxId : name[i] = n}
\* Mutant: an abandoned building directory is not counted as residue.
NeedsRecoveryBug == \E i \in TxId : name[i] \in {"pending", "completed"}

NeedsRecovery == \E i \in TxId : name[i] # "none"

\* ensureTransactionRoot and every SyncDir of the transaction root: the
\* visible names become the durable ones, and a journal that is gone is gone.
Gone(i) == name[i] = "none" /\ i # tx
SyncRoot ==
  /\ dname' = [i \in TxId |-> {name[i]}]
  /\ body' = [i \in TxId |-> IF Gone(i) THEN "part" ELSE body[i]]
  /\ dbody' = [i \in TxId |-> IF Gone(i) THEN {"part"} ELSE dbody[i]]
  /\ commit' = [i \in TxId |-> IF Gone(i) THEN "absent" ELSE commit[i]]
  /\ dcommit' = [i \in TxId |-> IF Gone(i) THEN {"absent"} ELSE dcommit[i]]
  /\ before' = [i \in TxId |-> IF Gone(i) THEN Blank ELSE before[i]]
  /\ after' = [i \in TxId |-> IF Gone(i) THEN Blank ELSE after[i]]
  /\ UNCHANGED name

\* Journal i gets a new visible name that is not yet durable.
Rename(i, n) ==
  /\ name' = [name EXCEPT ![i] = n]
  /\ dname' = [dname EXCEPT ![i] = @ \union {n}]

-----------------------------------------------------------------------------
(* Recover, under the lock *)

Acquire ==
  /\ pc = "idle"
  /\ Call("recover", None, "root")
  /\ UNCHANGED <<store, journal, faults>>

\* Mutant: Recover trusts the visible names without syncing the root.
RecoverRootBug ==
  /\ pc = "root"
  /\ Goto("scan")
  /\ UNCHANGED <<store, journal, faults>>

RecoverRoot ==
  /\ pc = "root"
  /\ SyncRoot
  /\ Goto("scan")
  /\ UNCHANGED <<store, faults>>

\* More than one pending journal is an error before anything is removed.
ManyPending == \E i, j \in TxId : i # j /\ name[i] = "pending" /\ name[j] = "pending"

\* Abandoned building and completed journals are removed first ...
RecoverRemove(i) ==
  /\ pc = "scan"
  /\ ~ManyPending
  /\ \/ name[i] = "building"
     \/ name[i] = "completed" /\ Named("building") = {}
  /\ Call(mode, i, "empty")
  /\ UNCHANGED <<store, journal, faults>>

\* ... then the one pending journal is loaded, its marker read, and every
\* participant classified before any of them is touched.
Classified(i) == \A p \in Path : fs[p] \in {before[i][p], after[i][p]}

\* Mutant: a torn COMMIT marker is an error, not "never committed".
RecoverLoadBug(i) ==
  /\ pc = "scan"
  /\ name[i] = "pending"
  /\ ManyPending \/ Named("building") \union Named("completed") = {}
  /\ IF ~ManyPending /\ body[i] = "whole" /\ Classified(i) /\ commit[i] # "torn"
     THEN Loop(mode, i) ELSE OnError
  /\ UNCHANGED <<store, journal, faults>>

RecoverLoad(i) ==
  /\ pc = "scan"
  /\ name[i] = "pending"
  /\ ManyPending \/ Named("building") \union Named("completed") = {}
  /\ IF ~ManyPending /\ body[i] = "whole" /\ Classified(i) THEN Loop(mode, i) ELSE OnError
  /\ UNCHANGED <<store, journal, faults>>

RecoverDone ==
  /\ pc = "scan"
  /\ ~NeedsRecovery
  /\ Call("none", None, "ready")
  /\ UNCHANGED <<store, journal, faults>>

-----------------------------------------------------------------------------
(* Begin *)

\* Begin makes the root durable, then refuses any residue.
BeginRoot ==
  /\ pc = "ready"
  /\ SyncRoot
  /\ IF NeedsRecovery THEN Goto("ready") ELSE Goto("begin")
  /\ UNCHANGED <<store, faults>>

\* Creates .building-<id>.  Until the mkdir is synced a failure returns
\* without cleaning up: the deferred RemoveAll is not registered yet.
BeginMkdir(i) ==
  /\ pc = "begin"
  /\ name[i] = "none"
  /\ Rename(i, "building")
  /\ body' = [body EXCEPT ![i] = "part"]
  /\ dbody' = [dbody EXCEPT ![i] = {"part"}]
  /\ commit' = [commit EXCEPT ![i] = "absent"]
  /\ dcommit' = [dcommit EXCEPT ![i] = {"absent"}]
  /\ Call("none", i, "mksync")
  /\ UNCHANGED <<store, before, after, faults>>

BeginMkdirSync ==
  /\ pc = "mksync"
  /\ SyncRoot
  /\ Call("begin", tx, "capture")
  /\ UNCHANGED <<store, faults>>

\* The captured state of each participant, and the desired one materialized.
Capture(new) ==
  /\ before' = [before EXCEPT ![tx] = fs]
  /\ after' = [after EXCEPT ![tx] = new]

\* Both are copied into the journal and intent.json is written; none of it is
\* durable as a whole yet.
BeginCapture(new) ==
  /\ pc = "capture"
  /\ Capture(new)
  /\ body' = [body EXCEPT ![tx] = "whole"]
  /\ dbody' = [dbody EXCEPT ![tx] = @ \union {"whole"}]
  /\ Goto("seal")
  /\ UNCHANGED <<store, name, dname, commit, dcommit, faults>>

BeginSeal ==
  /\ pc = "seal"
  /\ dbody' = [dbody EXCEPT ![tx] = {body[tx]}]
  /\ Goto("publish")
  /\ UNCHANGED <<store, name, dname, body, commit, dcommit, before, after, faults>>

BeginPublish ==
  /\ pc = "publish"
  /\ Rename(tx, "pending")
  /\ Goto("pubsync")
  /\ UNCHANGED <<store, body, dbody, commit, dcommit, before, after, faults>>

\* Mutant: the command starts applying before the journal's name is durable.
BeginPublishSyncBug ==
  /\ pc = "pubsync"
  /\ Loop("apply", tx)
  /\ UNCHANGED <<store, journal, faults>>

BeginPublishSync ==
  /\ pc = "pubsync"
  /\ SyncRoot
  /\ Loop("apply", tx)
  /\ UNCHANGED <<store, faults>>

\* The deferred RemoveAll(buildingDir): it removes the directory, or, when the
\* rename already made it pending, only re-syncs the root.
BeginUndo ==
  /\ pc = "undo"
  /\ IF name[tx] = "building"
     THEN Goto("empty") /\ UNCHANGED journal
     ELSE SyncRoot /\ Call("none", None, "ready")
  /\ UNCHANGED <<store, faults>>

-----------------------------------------------------------------------------
(* convergeMutation: Apply, Abort and Recover bring one participant to its   *)
(* target.                                                                   *)

Target == IF mode = "apply" \/ commit[tx] = "valid" THEN after[tx] ELSE before[tx]
Other == IF Target = after[tx] THEN before[tx] ELSE after[tx]

\* persistMatchedState, and the sync that ends a durable rename, link or remove.
Persist(p) == disk' = [disk EXCEPT ![p] = {fs[p]}]

\* A participant at its target: a read-only guard is left alone, a mutable
\* one is synced again, for an earlier attempt may have died before its sync.
\* Mutant: a participant already at its target is not synced again.
ConvergeMatchedBug(p) ==
  /\ pc = "converge" /\ p \in todo
  /\ fs[p] = Target[p]
  /\ todo' = todo \ {p}
  /\ UNCHANGED <<store, journal, pc, mode, tx, cur, raced, faults>>

ConvergeMatched(p) ==
  /\ pc = "converge" /\ p \in todo
  /\ fs[p] = Target[p]
  /\ IF before[tx][p] = after[tx][p] THEN UNCHANGED disk ELSE Persist(p)
  /\ todo' = todo \ {p}
  /\ UNCHANGED <<fs, journal, pc, mode, tx, cur, raced, faults>>

\* A participant in the opposite state: the target is staged beside it and the
\* path rechecked.
\* Mutant: anything but the target is taken for the opposite state.
ConvergeArmBug(p) ==
  /\ pc = "converge" /\ p \in todo
  /\ fs[p] # Target[p]
  /\ pc' = "armed" /\ cur' = p /\ raced' = {}
  /\ UNCHANGED <<store, journal, mode, tx, todo, faults>>

ConvergeArm(p) ==
  /\ pc = "converge" /\ p \in todo
  /\ fs[p] # Target[p] /\ fs[p] = Other[p]
  /\ pc' = "armed" /\ cur' = p /\ raced' = {}
  /\ UNCHANGED <<store, journal, mode, tx, todo, faults>>

ConvergeDrift(p) ==
  /\ pc = "converge" /\ p \in todo
  /\ fs[p] \notin {Target[p], Other[p]}
  /\ OnError
  /\ UNCHANGED <<store, journal, faults>>

\* The link(2), rename(2) or unlink(2).  A link never replaces; rename and
\* unlink act on whatever is there.
ConvergeSwap ==
  /\ pc = "armed"
  /\ Other[cur] = Absent => fs[cur] = Absent
  /\ Target[cur] = Absent => fs[cur] # Absent
  /\ fs' = [fs EXCEPT ![cur] = Target[cur]]
  /\ disk' = [disk EXCEPT ![cur] = @ \union {Target[cur]}]
  /\ Goto("swapped")
  /\ UNCHANGED <<journal, faults>>

ConvergeSwapFails ==
  /\ pc = "armed"
  /\ \/ Other[cur] = Absent /\ fs[cur] # Absent
     \/ Target[cur] = Absent /\ fs[cur] = Absent
  /\ OnError
  /\ UNCHANGED <<store, journal, faults>>

\* The parent directory is synced and the path compared once more.
\* Mutant: the parent directory is not synced after the rename.
ConvergeSyncBug ==
  /\ pc = "swapped"
  /\ IF fs[cur] = Target[cur]
     THEN /\ pc' = "converge" /\ todo' = todo \ {cur}
          /\ cur' = None /\ raced' = {} /\ UNCHANGED <<mode, tx>>
     ELSE OnError
  /\ UNCHANGED <<store, journal, faults>>

ConvergeSync ==
  /\ pc = "swapped"
  /\ Persist(cur)
  /\ IF fs[cur] = Target[cur]
     THEN /\ pc' = "converge" /\ todo' = todo \ {cur}
          /\ cur' = None /\ raced' = {} /\ UNCHANGED <<mode, tx>>
     ELSE OnError
  /\ UNCHANGED <<fs, journal, faults>>

\* verifyIntentTarget after the loop: VerifyAfter in Commit, the last check of
\* recoverLoaded elsewhere.
AtTarget == \A p \in Path : fs[p] = Target[p]

VerifyAfter ==
  /\ pc = "converge" /\ mode = "apply" /\ todo = {}
  /\ IF AtTarget THEN Call("commit", tx, "create") ELSE Call("resolve", None, "root")
  /\ UNCHANGED <<store, journal, faults>>

VerifyRecovered ==
  /\ pc = "converge" /\ mode \in {"recover", "resolve", "abort"} /\ todo = {}
  /\ IF AtTarget THEN Goto("rename") ELSE OnError
  /\ UNCHANGED <<store, journal, faults>>

-----------------------------------------------------------------------------
(* Commit *)

\* The marker is created empty, filled, synced, and its directory synced.
CommitCreate ==
  /\ pc = "create"
  /\ commit' = [commit EXCEPT ![tx] = "torn"]
  /\ dcommit' = [dcommit EXCEPT ![tx] = @ \union {"torn"}]
  /\ Goto("write")
  /\ UNCHANGED <<store, name, dname, body, dbody, before, after, faults>>

CommitWrite ==
  /\ pc = "write"
  /\ commit' = [commit EXCEPT ![tx] = "valid"]
  /\ dcommit' = [dcommit EXCEPT ![tx] = @ \union {"valid"}]
  /\ Goto("fsync")
  /\ UNCHANGED <<store, name, dname, body, dbody, before, after, faults>>

\* The file is durable, its directory entry may still be missing.
CommitSync ==
  /\ pc = "fsync"
  /\ dcommit' = [dcommit EXCEPT ![tx] = {"absent", "valid"}]
  /\ Goto("dirsync")
  /\ UNCHANGED <<store, name, dname, body, dbody, commit, before, after, faults>>

\* Mutant: the directory entry of the marker is never synced.
CommitDirSyncBug ==
  /\ pc = "dirsync"
  /\ Call("finalize", tx, "rename")
  /\ UNCHANGED <<store, journal, faults>>

CommitDirSync ==
  /\ pc = "dirsync"
  /\ dcommit' = [dcommit EXCEPT ![tx] = {"valid"}]
  /\ Call("finalize", tx, "rename")
  /\ UNCHANGED <<store, name, dname, body, dbody, commit, before, after, faults>>

\* The command gives up after Begin (a check of its own failed).
GiveUp ==
  /\ pc = "converge" /\ mode = "apply"
  /\ OnError
  /\ UNCHANGED <<store, journal, faults>>

Abort ==
  /\ pc = "abort"
  /\ IF commit[tx] # "valid" /\ Classified(tx) THEN Loop("abort", tx) ELSE OnError
  /\ UNCHANGED <<store, journal, faults>>

-----------------------------------------------------------------------------
(* finalizeDirectory and removeJournalDirectory *)

\* Mutant: the journal is moved to a name no reader of the root knows.
FinalizeRenameBug ==
  /\ pc = "rename"
  /\ Rename(tx, "finalized")
  /\ Goto("renamed")
  /\ UNCHANGED <<store, body, dbody, commit, dcommit, before, after, faults>>

FinalizeRename ==
  /\ pc = "rename"
  /\ Rename(tx, "completed")
  /\ Goto("renamed")
  /\ UNCHANGED <<store, body, dbody, commit, dcommit, before, after, faults>>

FinalizeRenameSync ==
  /\ pc = "renamed"
  /\ SyncRoot
  /\ Goto("empty")
  /\ UNCHANGED <<store, faults>>

\* os.RemoveAll unlinks the members in no particular order ...
RemoveMembers(m) ==
  /\ pc = "empty"
  /\ m \in {commit[tx], "absent"}
  /\ body' = [body EXCEPT ![tx] = "part"]
  /\ dbody' = [dbody EXCEPT ![tx] = @ \union {"part"}]
  /\ commit' = [commit EXCEPT ![tx] = m]
  /\ dcommit' = [dcommit EXCEPT ![tx] = @ \union {"absent"}]
  /\ Goto("rmdir")
  /\ UNCHANGED <<store, name, dname, before, after, faults>>

\* ... then the directory, then the root is synced.
RemoveDir ==
  /\ pc = "rmdir"
  /\ Rename(tx, "none")
  /\ Goto("rmsync")
  /\ UNCHANGED <<store, body, dbody, commit, dcommit, before, after, faults>>

RemoveSync ==
  /\ pc = "rmsync"
  /\ SyncRoot
  /\ \/ mode \in {"recover", "resolve"} /\ Call(mode, None, "scan")
     \/ mode = "finalize" /\ Goto("done")
     \/ mode \in {"abort", "cleanup"} /\ Call("none", None, "ready")
  /\ UNCHANGED <<store, faults>>

\* The command reports success; a batch goes on with its next tool.
Report ==
  /\ pc = "done"
  /\ Call("none", None, "ready")
  /\ UNCHANGED <<store, journal, faults>>

Release ==
  /\ pc = "ready"
  /\ Call("none", None, "idle")
  /\ UNCHANGED <<store, journal, faults>>

-----------------------------------------------------------------------------
(* The environment *)

Fault == faults < MaxFaults /\ faults' = faults + 1

\* A durable operation fails, before it is visible or at its sync.
IOError ==
  /\ Fault
  /\ pc \notin {"idle", "ready", "done"}
  /\ OnError
  /\ UNCHANGED <<store, journal>>

Killed == Call("none", None, "idle")

\* The process is killed; the kernel drops its lock.
Crash ==
  /\ Fault
  /\ pc # "idle"
  /\ Killed
  /\ UNCHANGED <<store, journal>>

\* The machine loses power: every object falls back to something durable.
PowerLoss ==
  /\ Fault
  /\ Killed
  /\ fs' \in [Path -> State] /\ \A p \in Path : fs'[p] \in disk[p]
  /\ disk' = [p \in Path |-> {fs'[p]}]
  /\ name' \in [TxId -> DirName] /\ \A i \in TxId : name'[i] \in dname[i]
  /\ dname' = [i \in TxId |-> {name'[i]}]
  /\ body' \in [TxId -> Body] /\ \A i \in TxId : body'[i] \in dbody[i]
  /\ dbody' = [i \in TxId |-> {body'[i]}]
  /\ commit' \in [TxId -> Marker] /\ \A i \in TxId : commit'[i] \in dcommit[i]
  /\ dcommit' = [i \in TxId |-> {commit'[i]}]
  /\ UNCHANGED <<before, after>>

\* Another program writes a live path, without hukou's lock and without sync.
ExternalWrite(p, c) ==
  /\ Fault
  /\ c # fs[p]
  /\ fs' = [fs EXCEPT ![p] = c]
  /\ disk' = [disk EXCEPT ![p] = @ \union {c}]
  /\ raced' = IF pc = "armed" /\ cur = p THEN {p} ELSE raced
  /\ UNCHANGED <<journal, pc, mode, tx, todo, cur>>

Recovery ==
  \/ Acquire \/ RecoverRoot \/ RecoverDone
  \/ \E i \in TxId : RecoverRemove(i) \/ RecoverLoad(i)
Beginning ==
  \/ BeginRoot \/ BeginMkdirSync \/ BeginSeal \/ BeginPublish
  \/ BeginPublishSync \/ BeginUndo
  \/ \E i \in TxId : BeginMkdir(i)
  \/ \E new \in [Path -> State] : BeginCapture(new)
Converging ==
  \/ \E p \in Path : ConvergeMatched(p) \/ ConvergeArm(p) \/ ConvergeDrift(p)
  \/ ConvergeSwap \/ ConvergeSwapFails \/ ConvergeSync
  \/ VerifyAfter \/ VerifyRecovered
Deciding ==
  \/ CommitCreate \/ CommitWrite \/ CommitSync \/ CommitDirSync
  \/ GiveUp \/ Abort
Cleaning ==
  \/ FinalizeRename \/ FinalizeRenameSync \/ RemoveDir \/ RemoveSync
  \/ \E m \in Marker : RemoveMembers(m)
  \/ Report \/ Release

Hukou == Recovery \/ Beginning \/ Converging \/ Deciding \/ Cleaning
Environment ==
  \/ IOError \/ Crash \/ PowerLoss
  \/ \E p \in External, c \in State : ExternalWrite(p, c)

Next == Hukou \/ Environment
Spec == Init /\ [][Next]_vars

\* A command never stops half way, and the user runs another after a failure.
FairSpec == Spec /\ WF_vars(Hukou)

-----------------------------------------------------------------------------
(* Properties *)

StoreTypeOK ==
  /\ fs \in [Path -> State]
  /\ disk \in [Path -> SUBSET State]

JournalTypeOK ==
  /\ name \in [TxId -> DirName]
  /\ dname \in [TxId -> SUBSET DirName]
  /\ body \in [TxId -> Body]
  /\ dbody \in [TxId -> SUBSET Body]
  /\ commit \in [TxId -> Marker]
  /\ dcommit \in [TxId -> SUBSET Marker]
  /\ before \in [TxId -> [Path -> State]]
  /\ after \in [TxId -> [Path -> State]]

HolderTypeOK ==
  /\ pc \in Steps
  /\ mode \in Modes
  /\ tx \in TxId \union {None}
  /\ todo \subseteq Path
  /\ cur \in Path \union {None}
  /\ raced \subseteq Path

TypeOK == StoreTypeOK /\ JournalTypeOK /\ HolderTypeOK /\ faults \in 0..MaxFaults

\* The global journal invariant Recover relies on ("multiple pending
\* transactions violate the global journal invariant"): of all journals at
\* most one exists, now or after a power failure.
OneJournal ==
  \A i, j \in TxId : dname[i] # {"none"} /\ dname[j] # {"none"} => i = j

MayBePending(i) == "pending" \in dname[i]

\* A journal that is pending, or that a power failure can bring back as
\* pending, has its intent and every payload durably in place: recovery can
\* always load it, also while an earlier one was being deleted.
PendingIsLoadable ==
  \A i \in TxId : MayBePending(i) => body[i] = "whole" /\ dbody[i] = {"whole"}

\* A COMMIT marker that recovery may ever read as the decision exists only
\* once every participant durably is in its after state (ADR-0003: COMMIT is
\* written once live and manifest are durable).
DecisionAfterData ==
  \A i \in TxId : MayBePending(i) /\ "valid" \in dcommit[i]
    => \A p \in Path \ External : disk[p] = {after[i][p]}

\* A pending journal that carries no decision can always be rolled back: each
\* participant is, in whatever a power failure leaves, before or after.
AlwaysClassifiable ==
  \A i \in TxId : MayBePending(i)
    => \A p \in Path \ External : disk[p] \subseteq {before[i][p], after[i][p]}

\* Once no journal can come back as pending, what hukou wrote is durable: the
\* directory that could repair a half-written state is only given up after
\* the state needs no repair.
JournalOutlivesDoubt ==
  (\A i \in TxId : ~MayBePending(i))
    => \A p \in Path \ External : disk[p] = {fs[p]}

\* A success reported to the user is durable: the new state survives a power
\* failure, and no recovery can take it back, even when Finalize failed.
SuccessIsDurable ==
  pc = "done" =>
    /\ \A p \in Path \ External : disk[p] = {after[tx][p]}
    /\ MayBePending(tx) => dcommit[tx] = {"valid"}

\* CheckReadable, the gate of the read-only commands.
\* Mutant: any completed journal is tolerated, with or without its marker.
CheckReadableBug == Named("building") \union Named("pending") = {}

CheckReadable ==
  /\ Named("building") \union Named("pending") = {}
  /\ \A i \in Named("completed") : commit[i] = "valid"

\* Whatever passes the gate is converged: behind a tolerated completed journal
\* every participant is in its after state.
ReadableIsConverged ==
  CheckReadable =>
    \A i \in Named("completed"), p \in Path \ External : fs[p] = after[i][p]

\* hukou replaces or removes only a captured state.  Another program's content
\* is lost only if it was written between the last recheck and the rename or
\* unlink, and never where the transaction found nothing (link does not
\* replace).  A step that is no fault is a step of hukou.
NoDriftOverwritten ==
  [][\A p \in Path : fs'[p] # fs[p] /\ faults' = faults =>
       \/ fs[p] \in {before[tx][p], after[tx][p]}
       \/ p \in raced /\ Other[p] # Absent]_vars

\* A transaction that may be in doubt, and the implementation of AtomicUpdate:
\* in doubt the old state is the value and the new one is proposed.
InDoubt == {i \in TxId : MayBePending(i)}
Doubtful == CHOOSE i \in InDoubt : TRUE
Value == IF InDoubt = {} THEN fs ELSE before[Doubtful]
Proposed == IF InDoubt = {} THEN None ELSE after[Doubtful]

Abstract == INSTANCE AtomicUpdate WITH NoChange <- None, value <- Value, proposed <- Proposed

\* Without foreign writers the journal implements the atomic update, whatever
\* is killed, loses power or fails.
AtomicSpec == Abstract!Spec

\* A transaction left in doubt is resolved and its journal removed, if commands
\* go on being run and no foreign write makes recovery refuse.
DoubtIsResolved ==
  (\E i \in TxId : MayBePending(i)) ~> (\A i \in TxId : dname[i] = {"none"})
=============================================================================
