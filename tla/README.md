# A verification development for hukou

hukou adopts executables that no package manager owns, upgrades them from
GitHub releases and rolls them back. Every mutation is a write-ahead
transaction over a few files; the state lives under one data root that is
protected by an advisory lock. This directory holds TLA+ models of that
machinery, the TLC configurations that check them and TLAPS proofs about them.
`PROJECT.json` maps every definition to the source lines it models.

## 1. The system

| component | state it keeps | operations | hard behaviour |
|---|---|---|---|
| transaction journal (`internal/transaction`, `internal/durablefs`) | `transactions/.building-*`, `pending-*`, `completed-*`, each with `intent.json`, payloads, `COMMIT`; quarantine containers; the participants' paths | Begin, Apply, Verify, Commit, Abort, Finalize, Recover, CheckClean, CheckReadable | kills and power failures between any two steps, failing syncs, foreign writers, entries of unknown origin, readers without the lock |
| state lock (`internal/state`) | the lock file or directory | Acquire, Release, reclaim of a stale lock | two processes at once, a holder that dies |
| activation history (`internal/activation`) and store (`internal/store`) | the events of a manifest entry; `store/<tool>/<tag>`, `original` | RecordAdopt, RecordUpgrade, RecordRollback, RecordRestoreOriginal, Previous, FindAncestorByTag, Validate; Put, PlanPrune, ApplyPrunePlan | long sequences of upgrades and rollbacks against a retention that deletes versions |
| manifest (`internal/manifest`) | `manifest.json`, its backup | Load with migration, Save, Validate | crash between the backup and the new file, documents of older or newer releases |
| repair (`internal/repair`) and doctor (`internal/doctor`) | a plan made earlier; none | Plan, Apply; Scan | the state changed since the plan; two pieces of code that must agree with Recover on what is wrong |
| commands (`cmd/adopt.go`, `upgrade.go`, `rollback.go`, `policy.go`, `import.go`, `export.go`) | none of their own | a gate, then one transaction per tool | what was read before the lock; one tool of a list failing between two of its commands |
| version policy, update check (`internal/versionpolicy`, `internal/updatecheck`), asset choice, checksums, archives (`internal/assetpick`, `verify`, `archive`) | none | decisions on tags, names, digests and members | releases published, deleted and uploaded again on the way; evidence that is absent or contradicts |
| release client (`internal/ghrelease`) | a temporary file | List, ByTag, Latest, Download | stalls, cuts, retries, a fallback that must not repeat an answer |
| `hukou up` (`cmd/up_exec.go`, `internal/orchestrate`) | one result per manager, the run history | plan, approve, run each manager, run hukou's own upgrades, record | budgets, cancellation, a manager that does not stop |
| executor (`internal/orchestrate/executor`) | a process group | start, terminate, wait for output | grandchildren, grace period, a timer racing the exit |
| support bundle, scan, provenance, trust checks, user interface | none | read, render | single-pass I/O and formatting |

The commands interact through the data root only: a command takes the lock,
runs `Recover`, then opens a transaction whose participants are the live
binary, the manifest and, for an adoption, the staged original. Read-only
commands take no lock and pass a gate (`CheckReadable` or `CheckClean`).

What makes each part correct: a transaction takes effect as a whole or not at
all whatever fails, and a success is durable (journal); recovery deletes no
evidence, and gets through wherever it may (journal); the active version and
the versions a rollback may name are never deleted, and a history never
contradicts itself (activation, store); a manifest that can be read is never
lost (manifest); a repair never acts on a state it did not inspect, and what
blocks hukou is diagnosed (repair, doctor); no command undoes what another has
settled, and no report says more than happened (commands, up); nothing is
installed against the evidence (update, assets, archives); every wait ends
(client, executor).

## 2. Modules

| module | what it is | checked by | proved in |
|---|---|---|---|
| `Journal` | the write-ahead journal: one lock holder from Recover to Finalize, faults at every step | `journal_safety`, `journal_promise` | `JournalProofs` |
| `AtomicUpdate` | what the journal promises: a transaction takes effect once and as a whole | `journal_promise` | `JournalProofs` |
| `JournalInv` | the inductive invariant of `Journal` | (evaluated with `MCJournal`) | `JournalProofs` |
| `TxRoot` | everything that may lie under `transactions/` and how a pass of Recover sorts it | `repair_plan` | `RepairProofs` |
| `ManifestDoc` | a manifest as a document: decoding, validation, migration, encoding, doctor's reading | `repair_plan` | `RepairProofs` |
| `Repair` | extends both: plans and their application, commands that save, doctor | `repair_plan` | `RepairProofs` |
| `Lineage` | activation history, version store, upgrade with prune, rollback, policy | `lineage_store` | `LineageProofs` |
| `UndoStack` | what the history promises: upgrades push, rollbacks pop | `lineage_store` | `LineageProofs` |
| `ReleaseChoice` | which release an entry is upgraded to | `fetch`, `toolset_frozen` | used in `FetchProofs`, `ToolsetProofs` |
| `AssetChoice` | which asset, which checksums, which member of an archive | `fetch`, `fetch_fallback` | used in `FetchProofs` |
| `Fetch` | an upgrade from its check to the file that enters the store | `fetch`, `fetch_fallback` | `FetchProofs` |
| `Transfer` | one download | `transfer` | `TransferProofs` |
| `Toolset` | export, import, adopt and policy set by several processes | `toolset_import`, `toolset_frozen` | `ToolsetProofs` |
| `Registry` | what the commands promise of the registered tools: one change at a time, each from what was there | `toolset_import` | `ToolsetProofs` |
| `UpRun` | one real run of `hukou up` | `up_run` | `UpRunProofs` |
| `ProcGroup` | one manager command, its descendants, os/exec and the escalation timer | `group_terminate`, `group_spent` | `ProcGroupProofs` |

How they fit together. An upgrade is a download (`Transfer`) inside a choice and
a verification (`Fetch`), whose result enters the store and the history
(`Lineage`); the two files that change then do so in one transaction
(`AtomicUpdate`, which `Journal` implements). The other modules use that promise:
`Lineage` and `Repair` change several files in one step, and `Toolset` has the
states between which a transaction decides. `Toolset` implements `Registry` under
the mapping `Settled`: the entries that no abort and no recovery can take back.
That is not the manifest, which shows an entry before it is decided. `Repair` composes the transaction
root with the manifest because a plan, a command and doctor each look at both.
`UpRun` takes from `ProcGroup` that a terminated command comes back (`Returns`),
as the fairness of `Killed`.

The `MC` modules hold only what TLC needs: symmetry sets, values of constants,
and initial conditions that pick the interesting starting states. A
definition whose name ends in `Bug` is the mutated form of the one after it; the
specifications never use it.

### Journal

State. For each participant path `fs` is what a reader sees and `disk` the set
of states a power failure may leave; for each journal id `name`/`dname`,
`body`/`dbody`, `commit`/`dcommit` are the same pairs for the directory name
(building, pending, completed), for the members written by Begin, and for the
`COMMIT` marker; `before` and `after` are `intent.mutations`. `pc`, `mode`,
`tx`, `todo`, `cur`, `raced` are the lock holder's position.

Actions. Every operation of `internal/durablefs` is two steps, the operation
becoming visible and its sync, because that is where the code's error paths and
the crash windows are. `Recover*` is Recover, `Begin*` is Begin with its deferred
cleanup (`BeginUndo`), the `Converge*` loop is Apply, Abort and recovery alike
(`mode` says which), `Commit*` is the marker, `Finalize*`, `RemoveMembers`,
`RemoveDir` and `RemoveSync` are finalizeCompleted. `OnError` is the error
path of each call, for instance that a failed Commit runs Recover in the same
command. A process crash keeps what is visible; a power failure picks any
member of the durable sets.

Abstractions. A content is a model value; a payload and the intent are one
`body` that is `part` or `whole`. The order of the participants is any order.
Sub-steps that leave the same residue (the captures of one Begin, the members
removed by finalize) are one step. Temp-file residue of an atomic write and the
removal of empty parents are left out. After a power failure a file holds a
prefix of what was written, so a marker may be torn. The gap between the last
recheck of a participant and its rename or unlink is the pair `armed`,
`swapped`, with `raced` saying that another program used it.

### Lineage

State. `events` is the manifest entry's history (an event's id is its position
and `parent` is 0 for none), `live` the digest at the tool's path, `original`
the adoption-time backup, `slot` the version directories, with an `Empty` value
for a directory without its binary, `released` what a download yields,
`pin`/`depth` the policy, `pc`, `goal`, `staged`, `plan` the upgrade in
progress.

Actions. `Adopt`; an upgrade is `Upgrade`, `PutNew` (a directory, then its
binary), `Recheck`, `KeepCurrent` (the copy of the live binary into the store),
`Activate`, then `Prune` or `PruneSkipped` and one `Delete` at a time; `Rollback`,
`RollbackToTag` and `RestoreOriginal`; `PolicySet`; and the environment: `Fault`,
`ForeignWrite` of the live binary, `Retag` of a release. History and
live binary change in one step because `Journal` implements `AtomicUpdate`; the
activation may take effect and still be reported as failed. Everything the
store does is outside the transaction and is a step of its own.

### UpRun

State. `pc` and `m` place the run in `doUpExecute`'s loop over the registry
(hukou's own batch is the last row); `cause` is why the manager's context is
done; `exits` is how the commands of the attempt, or the tools of the batch,
ended; `signal` records an interrupt and, as a history variable, whether it
came upon work that was left. `results`, `trouble` and `exit` are the outcome.

Actions. One for each look at a context and each thing done between two looks:
`NextCommand`, `Launch`, `Exit`, `Waited`, `Classify`, `Retry` for an external
manager, `StartStep`, `NextTool`, `UpgradeTool`, `StepReturns`, `Reclassify` for
the batch, then the second inventory, the snapshot and the report. `Interrupt`
and `Expire` may come between any two of them. A command's work is only its
exit status. The run context's own deadline is part of `Expire`: a manager's
context is derived with the same deadline.

### ProcGroup

State. Sets of processes: `unborn`, `alive`, `group`, `pipes` (who holds the
output), `stubborn` (who survives SIGTERM); whether the leader was reaped and
whether the group's number belongs to a stranger; the positions of Cmd.Wait, of
os/exec's context watcher and of hukou's escalation timer. The parts of os/exec
are modelled from how `executor.go` sets Cancel and WaitDelay and uses Wait, and
marked external in the map. `TerminateFails` is a SIGTERM that the kernel does
not allow, after which no escalation is set; it takes a reaped leader whose
number belongs to somebody else, since a user may signal processes of their own.

### TxRoot, ManifestDoc and Repair

State. `place`, `node` say where each entry is (in the root, in a container, gone)
and what it is: the prefix of its name, whether it is a real directory, whether
Recover can converge it. `inside`, `meta` are the members of each quarantine container.
`pass` is the pass of Recover or the command that is running: its position, what
Inspect found, what it has kept and refused, the entry it is moving, and, as a
history variable, whether another program disturbed it (`calm`). `main`, `bak`,
`live` are the manifest, its backup and the live files; `plan` is the plan file;
`saving` what a command is about to write.

Actions. `Call` is the lock and Inspect; `Take*`, `LoopDone`, `CountPending`,
`CleanJournal`, `LoadPending` are the loops of Recover in their order;
`AllocateContainer`, `WriteTemp`, `WriteMeta`, `MovePayload` are quarantineEntry,
whose steps relocateQuarantineResidue shares. `BuildPlan`, `Apply`, `ApplyStale`,
`RestoreBackup` are repair; `SaveBackup`, `SaveManifest`, `InstallFails` are what a
command does after its recovery. `TransactionErrors`, `ManifestErrors` and
`BackupErrors` are doctor.

Abstractions. The life of one journal is module `Journal`: here it loads or does
not. The renames are taken to reach the disk in the order they are made, so
that a power failure leaves a state that a crash leaves too. A document is a
record of what its decoding looks at; the checks of single values are one
attribute, `sound`. A live file is its digest.

### Fetch, ReleaseChoice and AssetChoice

State. `host` is what the publisher has; `command` the upgrade that is asked for;
the others are what the client has received: `listed`, `chosen`, `file`, `sums`,
`sha`, `taken`. `atStart` and `deleted` are history variables for the
properties.

Actions. `Begin`, `ListPage`, `AskOne`, `SelectRelease` are the update check;
`DryRun`; `DownloadAsset`, `DownloadSums`, `Verify`, `ExtractAsset`, `Recheck` are
upgradeOne up to the store; `RequestFails` is any request that gives up. Between any two
of them others `Publish`, `Delete`, `Upload` again, or `Overwrite` the
downloaded file; a download may be damaged.

Abstractions. A tag is the record of what parsing it yields (its rank, whether
it has a prerelease part); an asset is what matching its name yields;
a member of an archive is its path, the names it answers to (a base name that
ends in `.exe` answers to the rest as well), kind and size. An asset has two
formats: `format` is what its name says, `kept` what is left of that in the name
of the downloaded file, of which only the extensions in `archiveExt` remain;
`Extract` goes by the second. A digest stands for a content. A file that was overwritten is not put back byte for byte
between the two hashes; such a change would be seen by neither.

### Transfer

State. `call` is what was asked for, `via` and `attempt` the transport and the
request, `err` what ended an attempt, `clock` and `ctx` the attempt's timer and
context, `body` the speed watch with its window, `files` the temporary files.

Actions. One for each thing the network, the watch or the clock may do; `Tick`
is the watch's period, in which the attempt's timer may also fire. `Resend` is
the loop of `do`, `Again` the rule for the proxy. `CreateFails`, `CloseFails` and
`Cut("disk")` are the local disk, whose errors count as transport.

Abstractions. The text of an error is one of a few: a server chooses the text of a status error
(`Texts`) and of a rate limit (`Limits`), so either may sound like transport.

### Toolset

State. `list` is what was exported or written by hand; `path` what is on PATH;
`manifest` and `pending` what is on disk and what an unfinished transaction decides
for; `lock`; for each process `proc` has its command, its position and what it
read. `seen`, `undone` and `tuned` are history variables.

Actions. `Look`, `Plan`, `Leave` are the loop of import; `AdoptLock`, `Inspect`,
`Apply`, `Commit`, `CommitFails` are adopt, for itself or for the importer;
`PolicyLook`, `PolicyLock`, `PolicySave`, `SaveFails` are policy set. `Crash` may
come anywhere, and `Install` changes an executable. `Attributed` tells the adoptions
that name no repository, the only ones in which adopt reads build information.

Abstractions. The lock is flock: one holder, released by the kernel with the
process. A transaction is visible at `Apply` and decided at `Commit`, as in
`AtomicUpdate`. The original of an adoption and its receipt are left out.

## 3. What the runs check

| run | question | bounds |
|---|---|---|
| `journal_safety` | the safety of the journal under any faults and a foreign writer | 2 participants, 1 of them foreign-writable; 2 contents; 2 journal ids; 3 faults |
| `journal_promise` | `AtomicSpec`: every behaviour implements `AtomicUpdate`; `DoubtIsResolved` under fairness | as above, no foreign writer, no symmetry |
| `lineage_store` | the history stays valid, implements `UndoStack` and matches the live binary; an upgrade can be undone; a prune is exact or does nothing | 3 tags, 2 digests, 4 events, 1 fault, 2 foreign writes, 1 retag, depths 1 and 2 |
| `repair_plan` | evidence and manifests survive, plans keep their promise, doctor explains refusals, recovery converges | 2 entries, 3 containers, 1 fault; 21 documents as manifest or backup |
| `transfer` | a download leaves its file or none, a second attempt starts clean and never after a status, a size or a plain rate limit, it ends | 1 resend, cap 3, grace 2, window 3, timeout 5 ticks; speeds 1 and 2, floors 0 and 1 |
| `fetch` | what is installed agrees with the evidence, is the newest and the wanted one; a dry run is honest | up to 4 releases, pages of 2, 2 pages, up to 3 assets of 14, up to 4 members, 1 change by others |
| `toolset_import` | no update is lost, a list is not believed, an import's report stays true, the commands implement `Registry` | 2 tools, 2 processes, 4 executables, 2 commands, 1 crash, 1 replaced executable |
| `up_run` | what a run reports is what happened, and the run ends | 2 external managers with 2 and 1 commands, 2 retries, at most 2 tools |
| `group_terminate` | nothing of the group writes after a termination, the command comes back, a prompt return is not followed by SIGKILL | a leader and 2 descendants |
| `toolset_frozen` | disagreements between code and documentation, section 6 | those of `toolset_import` |
| `group_spent` | the same | a leader and 1 descendant |
| `fetch_fallback` | the same | 1 release with 1 asset that cannot be unpacked, of 3 kinds |

Why the bounds are enough. In `Journal`, three faults are a fault, a fault during
the recovery from it and one more during the second recovery; with two
participants a transaction can be half applied, and with two journal ids an
abandoned journal can coexist with a new one. In `Lineage`, three tags with depth
1 let a prune delete what a rollback would look for, and a retag may come before
or after that deletion. In `Repair`, two entries are a pair of pending
journals, or a journal beside a stray; three containers are what is needed to
quarantine both when one container is lost to a crash. The behaviours of `repair_plan`
start with a disorderly root and a good manifest, or with an empty root and any
manifest: a restore and a save both need a clean root, so nothing depends on the
kind of manifest while the root is in disorder. In `Fetch`, four releases fill two pages, one more is too
many; one change by others is enough to separate what was read from what is
delivered, and three starting families (which release, which evidence and
archive, which asset) are checked one at a time because the code decides them
one after the other from separate data. In `Toolset`, two processes with two commands
interleave an import with itself, an adoption or a policy command, one tool being
in conflict and the other not. In `Transfer`, the grace period ends before the
window is full and the window before the timeout, so each of the three can be
what decides. In `UpRun`, with two managers a manager follows one that was
interrupted, and two commands give a command that is not the first; two retries
tell the last attempt from the others. In `ProcGroup`, two descendants are one
inside and one outside the group. The counters `MaxFaults`, `MaxEvents`,
`MaxForeign`, `MaxRetags`, `Retries`, `MaxTools`, `MaxStarts`, `MaxCrashes` and
`MaxChanges` appear in guards only; `MaxPages`, `MaxRetries`, `MaxHeaderEntries`,
`MaxExecCandidates`, `MaxDeclaredBytes` and `MaxEntryBytes` are limits of the
code, made small. Symmetry over journal ids, contents, tags, digests and
processes is used in runs whose properties are invariants, action properties or a
refinement without fairness, never with liveness. Deadlock is checked in the journal, lineage and repair runs; the
others end, so it is not checked there and `Terminates`, `Returns` and `Ends` take
its place.

Properties worth reading first:

- `JournalOutlivesDoubt`: a journal disappears only when nothing it describes is
  in doubt after a power failure.
- `AlwaysClassifiable`: whatever survives, recovery finds each participant at its
  before or its after state, so it never has to guess.
- `EvidenceIsKept`, `EvidenceIsNamed`: recovery deletes only journals it is done with,
  touches none while an unknown directory lies beside it, and what it moves keeps
  its name.
- `PlannedRecoverySucceeds`: a plan made without the lock, confirmed under it, is
  not refused half way; it relates the checks of repair to those of Recover.
- `RefusalIsDiagnosed`: what makes a command refuse is an error of doctor, which
  has code of its own for it.
- `UpgradeReversible`, `PruneFailsClosed`: what a default rollback needs after an
  upgrade is stored, and a prune deletes nothing if a version it must keep is
  missing or altered.
- `EvidenceIsTruthful`: what is installed agrees with all the evidence there is, and is
  called verified exactly where there is some, while the publisher and other
  programs change things.
- `EntriesAreKept`, `ReportIsTrue`, `RegistrySpec`: no command undoes what another has
  settled, a row of an import's report stays true, and to somebody who looks at
  the settled entries the commands are carried out one at a time, although each
  looks before it locks.
- `UndoSpec`: whatever rollbacks and upgrades came before, a rollback returns to
  what the upgrade it undoes had replaced.
- `ResultIsTrue`, `ReportIsComplete`, `InterruptCounts`: the status of a manager is
  the one its process had, a failed one had all its retries, no manager is missing from the report, and an
  interrupt that cut work short shows in the exit status, wherever it landed.
- `PromptReturnIsSpared`, `NoWriterLeft`: who is signalled and who is left.

## 4. Fairness

- `Journal.FairSpec` is weak fairness of `Hukou`: commands go on being run and each
  proceeds. Without it a user may never run hukou again after a crash, and no
  doubt is ever resolved. Faults are bounded, so eventually none interferes.
- `Repair.Fairness` is the same of a pass that is running and of commands that are
  started; nothing is assumed of plans, doctor or other programs.
- `Transfer.Fairness`: the program takes its own steps, time passes, and a call whose
  context has ended returns, as net/http promises. Nothing is assumed of the
  server: a body may neither grow nor end.
- `UpRun.FairSpec`: the process runs; the clock advances (`Expire`), which only says
  that a budget ends; and a done context gets the command killed (`Killed`). The last one is
  what `Returns` of `ProcGroup` shows from the escalation. No fairness of a
  manager's own exit: a command may hang.
- `ProcGroup.FairSpec`: one weak-fairness conjunct for each goroutine and timer, none
  for the processes and none for the end of the context: `Returns` starts from a
  context that is done or a leader that exited.
- `Lineage`, `Fetch` and `Toolset` state safety only.

## 5. What is proved

For every value of the constants, by TLAPS:

- `Journal`. `Inductive` shows `Spec => []IInv` with `IInv` of `JournalInv`; the
  theorems after it read the safety properties off it, and
  `Implements` proves `Spec => AtomicSpec` when `External = {}`. The properties
  are not inductive: they speak of journals that may become pending and say
  nothing of where the holder is. `Ownership`, `CallOf`, `NameOf`, `MarkerOf` and
  `Progress` place the holder; `Visible` says that what is seen is one of the
  things a failure may leave; `Decided` and `Settled` say what is durable once a
  marker, or no journal, can be read. `Whole` is added for the refinement: a
  journal that may or may not come back stands over files that are all before or
  all after, which makes the abstract value independent of what survives.
- `TxRoot` and `Repair`, in layers, each of which the next one uses. `RootInv`: what a pass
  carries is in the root under its own name and the container it goes to is new,
  and no unknown directory is overlooked (`Guarded`); from it `EvidenceIsNamed` and
  `EvidenceIsKept`. `FilesInv`: a restore that began has a plan whose backup is
  good (`RestoreIsExact`), a save that began has made its backup
  (`BackupIsPrevious`). `PromiseInv`: a pass that a plan started has nothing left
  that it would refuse, wherever it is. `DocsInv`: every manifest is one that was
  found or one that was written, and of both kinds `WrittenLoadsBack` holds, by the
  lemmas on `Decode`, `Normalize` and `Encode`. `DiagnosisInv`: whatever a pass refuses
  lies in the root still, where doctor's sorting finds it.
  Apart from these, `Work` is a measure of what is left of a pass (entries to look at,
  journals to finalize, and how far it has come); every step of the pass lowers
  it and what other programs do leaves it alone (`PassesAreBounded`).
- `Toolset`. `LockInv`: a process between taking and releasing the lock is its
  holder and its base is the manifest, which gives `EntriesAreKept`; `Held` is the
  converse, that the lock has a holder (`LocksAreHeld`). `TagInv`: every tag in a
  manifest, in a pending transaction or in a call was told (`TagIsHonest`).
  `ReportInv`: every entry's policy has an origin (`Origins`) and an importer works
  on the tool it will report (`Doing`), which makes `ReportIsTrue` inductive.
  `RegistryInv` adds that a transaction under way has added one entry under a free
  name, that what one has left behind decides for no more than can be seen
  (`Deciding`), and that the options of a policy command come from a command or a
  list (`Asking`). `CommandsAreARegistry` then sorts the fourteen actions by what
  they do to the manifest (`Effects`); only deciding a transaction and
  saving a policy change what is settled, the first by `Register`, the second by
  `Tune`, and a crash may also decide.
- `Fetch`. `FetchInv`: one choice, one file, one set of checksums (`Holds`), and
  what was hashed has been held against the evidence (`Hashing`); a file that was
  overwritten does not become what it was, so the second hash finds every change.
  `ChoiceInv` is about what is chosen. `Reading`: as long as nothing is deleted,
  every release that was there at the start has been received or lies at or
  behind the next page, since a publication only moves releases towards pages still to come
  (`BatchIsPage`); a page that is not full is the last, so after it everything has
  been received, which gives `SelectionIsNewest`. `Wanting`: the asset and the member are
  what `Pick` and `FindTarget` single out (`PickFits`, `ProgramFound`), and `Pool`
  holds last resorts only if there is nothing else, which no filter changes
  (`PicksFromPool`, `PoolIsLastResort`); together they give `InstalledIsWanted`. `DryRunIsHonest` is inductive with them.
- `Transfer`. `TransferInv`: requests are only made within the cap, and an attempt
  that is not reading a body has no file. `SecondAttemptIsSound` takes the second
  from it and the rest from the order of the checks in `retryableDownloadErr`.
- `Lineage`. `IInv` adds to the properties that every parent lies in the past
  (`Parents`), a tag is bound to one digest (`Bound`), an adopted tool has its
  backup (`Backed`) and what the upgrade in progress has established
  (`InProgress`, needed because an activation is published steps after the check
  that its tag is not the active one). `StoreInv` adds what the store holds: an
  event that names the backup records its bytes (`Originals`), the version about
  to be replaced is stored by the time of the activation unless
  another program wrote (`Kept`), and while a prune deletes, what it retains is whole
  and outside its plan (`Deleting`); from it `UpgradeReversible`, `PruneExact` and
  `PruneFailsClosed`. The way back through the history is `Lines`, a recursive
  function that gives each event the list of its lineage. Its facts are not
  proved by induction but from a least counterexample (`Least`): `TraceExists` that
  the function exists, `Suffixes` that an ancestor's line is the end of every line
  it is on, `LinesKept` that appending an event changes no line. With them
  `HistoryIsUndoStack` maps each command to one step of `UndoStack`.
- `UpRun`. `IInv` relates the position of the run to its context (`Context`,
  `Place`), to the exits seen (`Progress`, `Batch`), to the status once it is
  known (`Result`), to the report (`Reported`) and, for `InterruptCounts`, states
  that from the interrupt on some later step is bound to see it (`Doomed`):
  either a result that is not ok is there, or the position is one from which
  every path leads to one.
- `ProcGroup`. `IInv` adds where the escalation can be given the watcher and Wait
  (`Escalation`), that our side of the pipes is closed only after the grace
  period (`Drained`), that SIGKILL empties the group and nobody joins an empty
  group (`Emptied`, with `Born`: only living processes are in it), and that Wait
  returns when the group or the writers are gone (`Quiet`). `PromptReturnIsSpared`
  needs none of it: "came back, timer set or spared" is stable.

The type invariants of these modules and a few properties that TLC need not repeat
(`LockIsHeld`, that no way out of a command leaves the state lock taken;
`PassesAreBounded`, that whatever else happens a pass of recovery takes no more steps
than the entries it found allow; `SuccessIsDurable`, `RollbackMoves`,
`ZeroMeansDone`, `ToolsAccountedFor`, `DoneContextStartsNothing`) are theorems without a run.

The assumptions are those of the modules that declare the constants. Most say no
more than that bounds are naturals, special values are different from the
others, that what may lie under `transactions/` is finite, and that a manager has
at least one command. Those that say more:
`ContentAssumption`, that whatever a file holds has a digest, that the names
of a member are part of its path, and that the ranks of tags are
naturals;
`RepairAssumption`, that an entry of a document has a field that tells which
fields it spells out, and that a version's digest is one a live file may have; `InputAssumption`, the shape of lists and calls;
`SentinelAssumption`, how the code treats the three tags that name no version.
TLC evaluates them in every run of those modules.

Only model-checked: liveness (`DoubtIsResolved`, `RecoveryConverges`, `Ends`,
`Terminates`, `Returns`), which rests on fairness and is beyond the provers. Every
other property of a passing run is also a theorem.

## 6. Where code and documentation disagree

Each of these is a run that finds its property, a sentence of the repository,
violated; `PROJECT.json` quotes the lines.

- `group_spent`: the escalation is said not to signal a number after the manager
  was reaped. It looks at whether Wait has returned, which a process that left
  the group and holds the output delays by up to ten seconds.
- `toolset_frozen`: import replaces a tag it cannot verify lest the tool's upgrades be
  frozen. The tag it writes, `imported`, is none of those the version policy can
  start from, so they are.
- `fetch_fallback`: formats that cannot be unpacked are said to fail closed. An asset that is
  chosen as a last resort loses an extension such as `.7z` or `.tar` when it is
  downloaded, is taken for a bare file, and escapes the check of its kind, which
  goes by the asset's name.

The others were met while modelling and have no run of their own:

- The debris of an interrupted quarantine is said to be recognized, so that recovery
  converges without manual surgery (`internal/transaction/recover.go:78`). A crash
  while META is written leaves a temporary file beside it; such a container is an
  unknown directory, which every later recovery refuses
  (`internal/transaction/recover.go:887`). `RecoveryConverges` therefore excludes it
  (`Blocked`).
- Answers of the server are said never to be tried again through the proxy
  (`docs/04-data-and-api.md:233`, `internal/ghrelease/client.go:201`). Only a status
  error is known by its kind; a 403 without requests remaining is an error of another
  type, whose text shows the header `X-RateLimit-Reset` as the server sent it, and "EOF" in
  it makes the answer look like transport (`internal/ghrelease/client.go:354`).
  `SecondAttemptIsSound` therefore says less of a rate limit than of a status.
- Import is said to record the binary's own version (`cmd/import.go:49`). It derives the
  version before adoption has the lock (`cmd/import.go:214`) and adoption hashes the
  executable under it, so one that is replaced in between is registered under the
  version of the one before. `TagIsHonest` therefore allows either.
- The default depth is said to preserve the two nearest ancestors
  (`internal/manifest/manifest.go:27`). After rollbacks the active version is lower on a
  lineage that was pruned for a higher one, and its ancestors are gone; the next
  upgrade's prune then refuses (`internal/store/store.go:624`).
- Every logical parent is said to have a store source of its digest before the
  activation is published (`cmd/upgrade.go:429`). The copy made for it is not
  compared with the digest.
- An interrupted run is said to exit non-zero (`cmd/up.go:49`). An interrupt after the
  last manager is caught and looked at by nobody (`cmd/up_exec.go:364`).
- A grandchild is said to be killed with the group
  (`docs/05-cli-reference.md:139`). One that ignores SIGTERM and closed the output
  survives, because the escalation is dropped as soon as Wait has returned
  (`internal/orchestrate/executor/procgroup_unix.go:50`).
- An expired budget of the internal step is recorded as canceled by a signal
  although none came (`internal/orchestrate/execution.go:19`, `cmd/up_exec.go:414`), and an
  interrupt during a manager records that manager and the next one as canceled
  (`cmd/up_exec.go:276`).
- A policy of import may never be applied: the adoption stands when the policy
  command is refused (another process has the lock, or the tag that was written
  is no semantic one), and a second import skips the tool as adopted and exits
  zero. A list by hand without a mode has its pin and channel ignored
  (`cmd/import.go:291`).
- No linux install is said ever to fall back to a windows zip
  (`internal/assetpick/pick.go:79`), but the last resort of the system detector takes
  a single asset of any system.
- A list of exactly ten full pages is refused, where the comment of List
  speaks of more than that (`internal/ghrelease/client.go:164`), and a refused redirect
  is an error of transport, so it is retried and tried through the proxy. So is an
  error of the local disk, such as a full one: a `syscall.Errno` is a `net.Error`
  (`internal/ghrelease/client.go:348`).
- Repair refuses to plan for strays that are named like journals, which Recover
  would move (`internal/repair/repair.go:251`).

## 7. Not modelled, and why

- The lock directory of systems without flock, and its reclaim of a stale
  holder; the systems without process groups; the particular names of darwin's
  locale and proxy. The models are of the unix build.
- In `TxRoot`, a rename that reaches the disk before an earlier one: the syncs of
  one journal are in `Journal`, those of containers are taken in order. The
  summary that Recover returns.
- In `Lineage`, the store's older entry points (`Prune`, `Activate`, `AdoptOriginal`) and
  GC; in `Toolset`, receipts; in `UpRun`, the dry run, the approval prompt, the
  contents of inventories, and the directory of past runs with its pruning,
  which is a step that succeeds or fails.
- In `Fetch`, the notes that explain a decision, and entries marked local, which are
  skipped before anything is checked; decompression and the syntax of archives
  and checksum files.
- Doctor's audit of the version store and of left-over temporary files, which
  reads and reports one file at a time.
- Scan and provenance detectors, the support bundle, the user interface and its
  translations: matching, formatting or single-pass I/O without state that later
  steps depend on. Ownership and mode checks of files, which are made once and
  kept nowhere. The environment handed to managers and the prefixing of their output.

What would come next: the lock directory as a module of its own, with its reclaim
race; the directory of past runs; and a specification that `UpRun` implements, of which
the managers are the steps.
