------------------------------- MODULE Repair -------------------------------
(***************************************************************************)
(* "hukou repair" (internal/repair) over the transaction root and the       *)
(* manifest: a plan is an observation made without the lock; applying it     *)
(* takes the lock, observes again and acts only on what it saw.  Beside it   *)
(* run the commands, which recover first and then install a version, and     *)
(* "hukou doctor" (internal/doctor), which only looks.                       *)
(***************************************************************************)
EXTENDS TxRoot, ManifestDoc

CONSTANTS
  Docs,      \* the documents that may be found at the start
  Strange,   \* those among them that other programs may write later
  Versions,  \* the entries a command may install: sound entries of schema 2
  Sha        \* contents of live files

ASSUME RepairAssumption ==
  /\ \A d \in Docs \union Strange : \A i \in DOMAIN d.entries : "fields" \in DOMAIN d.entries[i]
  /\ \A e \in Versions : e.sha \in Sha

Paths == {e.path : e \in Versions}

VARIABLES
  main,  \* manifest.json: [kind : "missing", "regular" or "special", doc]
  bak,   \* manifest.json.bak
  live,  \* [Paths -> Sha]
  plan,  \* the plan file: {} or one observation
  saving \* what a command is about to save: {} or [doc, entry]

files == <<main, bak, live>>
vars == <<rootVars, files, plan, saving>>

Regular(d) == [kind |-> "regular", doc |-> d]
Irregular(k) == [kind |-> k, doc |-> CHOOSE d \in Docs : TRUE]

Init ==
  /\ RootInit
  /\ main \in {Regular(d) : d \in Docs} \union {Irregular("missing"), Irregular("special")}
  /\ bak \in {Regular(d) : d \in Docs} \union {Irregular("missing"), Irregular("special")}
  /\ live \in [Paths -> Sha]
  /\ plan = {} /\ saving = {}

\* Load: no file is an empty manifest, no regular file an error.
Load(f) ==
  IF f.kind = "missing" THEN {[schema |-> CurrentSchemaVersion, retention |-> "given", entries |-> <<>>]}
  ELSE IF f.kind = "special" THEN {}
  ELSE Decode(f.doc)

Readable(f) == f.kind = "regular" /\ Decode(f.doc) # {}

\* Every file a document records is live with the content it records.
LiveMatches(d) == \A i \in DOMAIN d.entries :
  d.entries[i].path \in Paths /\ live[d.entries[i].path] = d.entries[i].sha

-----------------------------------------------------------------------------
(* Doctor *)

\* scanTransactions: what it reports as errors.
Invalid(x) == ~IsDir(x) \/ (x \in Container /\ ~IsValidQuarantineContainer(x))

\* Mutant: an entry is not looked at, but for the prefix of its name.
TransactionErrorsBug == {x \in Id : InRoot(x) /\ Bucket(x) = "pending"}

TransactionErrors ==
  {x \in Id : InRoot(x) /\ (Invalid(x) \/ Bucket(x) \in {"pending", "unknown"})}

Warnings == {"MANIFEST_SCHEMA_IMPLICIT", "MANIFEST_ENTRY_CHECKSUM_WITHOUT_ASSET"}

\* scanManifest, with the live files of the entries it could read.
ManifestErrors ==
  IF main.kind = "missing" THEN {}
  ELSE IF main.kind = "special" THEN {"MANIFEST_NOT_REGULAR"}
  ELSE (DoctorFindings(main.doc) \ Warnings)
       \union (IF Decode(main.doc) # {} /\ ~LiveMatches(main.doc) THEN {"LIVE_SHA256_MISMATCH"} ELSE {})

\* scanManifestBackup: a backup that cannot be used is a warning.
BackupErrors == IF bak.kind = "special" THEN {"MANIFEST_BACKUP_NOT_REGULAR"} ELSE {}

DoctorErrors == TransactionErrors # {} \/ ManifestErrors # {} \/ BackupErrors # {}

-----------------------------------------------------------------------------
(* Plans *)

\* The tree under transactions/.
Visible(S) == {x \in S : place[x] \notin {"unused", "gone"}}
Tree ==
  [entries |-> {<<x, place[x], node[x]>> : x \in Visible(Entry)},
   boxes |-> {<<c, place[c], inside[c], meta[c]>> : c \in Visible(Container)}]

\* The fingerprint: of the tree, or of what Inspect lists, both manifests and the
\* live files the backup records.
Recorded == {bak.doc.entries[i].path : i \in DOMAIN bak.doc.entries}
Observe(a) ==
  [action |-> a,
   seen |-> IF a = "recover" THEN Tree
            ELSE [listed |-> {x \in Id : InRoot(x)}, main |-> main, bak |-> bak,
                  live |-> [p \in Recorded |-> live[p]]]]

\* evaluateRecoverTransaction.  Strays with the name of a journal, which Recover
\* would move away, make it refuse.
\* Mutant: the check for unknown directories is missing.
CanRecoverBug ==
  /\ NeedsRecovery
  /\ \A b \in Known : \A x \in Inspect[b] : IsDir(x)
  /\ \A x, y \in Inspect["pending"] : x = y /\ node[x].loads

CanRecover ==
  /\ NeedsRecovery
  /\ \A x \in Inspect["unknown"] : ~IsDir(x)
  /\ \A b \in Known : \A x \in Inspect[b] : IsDir(x)
  /\ \A x, y \in Inspect["pending"] : x = y /\ node[x].loads

\* evaluateRestoreManifestBackup.
CanRestore ==
  /\ ~NeedsRecovery
  /\ main.kind = "missing" \/ (main.kind = "regular" /\ ~Readable(main))
  /\ Readable(bak) /\ LiveMatches(bak.doc)

Evaluate(a) == IF a = "recover" THEN CanRecover ELSE CanRestore

\* BuildPlan and WritePlan: no lock, nothing but the plan file is written.
BuildPlan(a) ==
  /\ plan = {} /\ Evaluate(a)
  /\ plan' = {Observe(a)}
  /\ UNCHANGED <<rootVars, files, saving>>

\* The user throws the plan away.
DropPlan ==
  /\ pass.pc = "idle"
  /\ plan # {} /\ plan' = {}
  /\ UNCHANGED <<rootVars, files, saving>>

\* Apply: the lock without recovery, the same evaluation, the same fingerprint.
\* Mutant: the state is not observed again under the lock.
ApplyBug(p) ==
  /\ pass.pc = "idle" /\ p \in plan
  /\ IF p.action = "recover" THEN Call("repair")
     ELSE pass' = [pass EXCEPT !.pc = "restore", !.mode = "repair", !.result = "none", !.calm = TRUE]
  /\ UNCHANGED <<evidence, faults, files, plan, saving>>

Apply(p) ==
  /\ pass.pc = "idle" /\ p \in plan
  /\ Evaluate(p.action) /\ Observe(p.action) = p
  /\ IF p.action = "recover" THEN Call("repair")
     ELSE pass' = [pass EXCEPT !.pc = "restore", !.mode = "repair", !.result = "none", !.calm = TRUE]
  /\ UNCHANGED <<evidence, faults, files, plan, saving>>

ApplyStale(p) ==
  /\ pass.pc = "idle" /\ p \in plan
  /\ ~(Evaluate(p.action) /\ Observe(p.action) = p)
  /\ plan' = {}
  /\ UNCHANGED <<rootVars, files, saving>>

\* The bytes of the backup read at the evaluation replace manifest.json.
RestoreBackup(p) ==
  /\ pass.pc = "restore" /\ p \in plan
  /\ main' = p.seen.bak
  /\ End("ok")
  /\ UNCHANGED <<evidence, faults, bak, live, plan, saving>>

-----------------------------------------------------------------------------
(* A command, after its recovery *)

\* Put: replaced by name, or appended.
Put(entries, e) ==
  IF \E i \in DOMAIN entries : entries[i].name = e.name
  THEN [i \in DOMAIN entries |-> IF entries[i].name = e.name THEN e ELSE entries[i]]
  ELSE Append(entries, e)

\* It loads the manifest and installs one version, in one transaction
\* (AtomicUpdate).  Before Save replaces manifest.json it keeps what is there as
\* the backup, and refuses to replace what it cannot read; an abort or a
\* recovery puts manifest.json and the live file back, but not the backup.
Installed(e) == {n \in {[m EXCEPT !.entries = Put(@, e)] : m \in Load(main)} : Valid(n)}

\* Mutant: a command that finds a manifest it did not write keeps the old backup.
SaveBackupBug(e) ==
  /\ pass.pc = "ready" /\ pass.mode = "command"
  /\ ~NeedsRecovery /\ bak.kind # "special"
  /\ \E n \in Installed(e) : saving' = {[doc |-> Encode(n), entry |-> e]}
  /\ bak' = IF main.kind = "regular" /\ bak.kind = "missing" THEN main ELSE bak
  /\ Goto("save")
  /\ UNCHANGED <<evidence, faults, main, live, plan>>

SaveBackup(e) ==
  /\ pass.pc = "ready" /\ pass.mode = "command"
  /\ ~NeedsRecovery /\ bak.kind # "special"
  /\ \E n \in Installed(e) : saving' = {[doc |-> Encode(n), entry |-> e]}
  /\ bak' = IF main.kind = "regular" THEN main ELSE bak
  /\ Goto("save")
  /\ UNCHANGED <<evidence, faults, main, live, plan>>

SaveManifest(s) ==
  /\ pass.pc = "save" /\ s \in saving
  /\ main' = Regular(s.doc)
  /\ live' = [live EXCEPT ![s.entry.path] = s.entry.sha]
  /\ saving' = {}
  /\ End("ok")
  /\ UNCHANGED <<evidence, faults, bak, plan>>

\* An unreadable manifest, an unfinished journal or no place for a backup; or the
\* tool does not fit in; or a check finds that another program came between.
InstallFails(e) ==
  /\ \/ /\ pass.pc = "ready" /\ pass.mode = "command"
        /\ NeedsRecovery \/ bak.kind = "special" \/ Installed(e) = {}
     \/ pass.pc = "save" /\ ~pass.calm
  /\ saving' = {}
  /\ End(IF pass.pc = "ready" /\ (NeedsRecovery \/ bak.kind = "special" \/ Load(main) = {})
          THEN "refused" ELSE "error")
  /\ UNCHANGED <<evidence, faults, files, plan>>

\* Other programs write the manifest, its backup and the live files.
Tamper(m, b, l) ==
  /\ Fault
  /\ <<m, b, l>> # files
  /\ main' = m /\ bak' = b /\ live' = l
  /\ Disturbed
  /\ UNCHANGED <<evidence, plan, saving>>

Repairing ==
  \/ \E a \in {"recover", "restore"} : BuildPlan(a)
  \/ DropPlan
  \/ \E p \in plan : Apply(p) \/ ApplyStale(p) \/ RestoreBackup(p)
Installing ==
  \/ \E e \in Versions : SaveBackup(e) \/ InstallFails(e)
  \/ \E s \in saving : SaveManifest(s)
Tampering ==
  \/ \E f \in {Regular(d) : d \in Strange} \union {Irregular("missing")} :
       Tamper(f, bak, live) \/ Tamper(main, f, live)
  \/ \E p \in Paths, s \in Sha : Tamper(main, bak, [live EXCEPT ![p] = s])

\* What a command had in hand is lost when it stops.
Root ==
  /\ RootNext
  /\ saving' = IF pass'.pc = "save" THEN saving ELSE {}
  /\ UNCHANGED <<files, plan>>
Next == Root \/ Repairing \/ Installing \/ Tampering
Spec == Init /\ [][Next]_vars

\* A pass that started goes on, and users keep running commands.
Fairness ==
  WF_vars(\/ (Acquire \/ Recovering \/ Release) /\ UNCHANGED <<files, plan, saving>>
          \/ \E p \in plan : RestoreBackup(p)
          \/ \E s \in saving : SaveManifest(s))
FairSpec == Spec /\ Fairness

-----------------------------------------------------------------------------
(* Properties *)

TypeOK ==
  /\ RootTypeOK
  /\ \A f \in {main, bak} : f.kind \in {"missing", "regular", "special"}
  /\ live \in [Paths -> Sha]
  /\ Cardinality(plan) <= 1 /\ (saving # {} <=> pass.pc = "save")

\* What a plan promises ("transaction_topology_recoverable",
\* "pending_transaction_inputs_valid"): once the fingerprint is confirmed under
\* the lock, and until another program interferes, recovery is never refused.
PlannedRecoverySucceeds == pass.mode = "repair" /\ pass.calm => pass.result # "refused"

\* What makes a command refuse to run is reported by doctor as an error.
RefusalIsDiagnosed ==
  pass.pc = "idle" /\ pass.result = "refused" /\ pass.calm => DoctorErrors

\* A restore never replaces a manifest that can be read, and what it restores
\* can be read and records what is live, unless another program came between
\* the observation and the write.
RestoreIsExact ==
  [][pass.pc = "restore" /\ main' # main /\ faults' = faults =>
       /\ Readable(main')
       /\ pass.calm => ~Readable(main) /\ LiveMatches(main'.doc)]_vars

\* What hukou writes it can load again, unchanged, from whatever schema it was
\* read.
WrittenLoadsBack ==
  \A f \in {main, bak} : \A m \in Load(f) : Decode(Encode(m)) = {m}

\* What is left of a pass: entries to look at, journals to finalize, of which a
\* pending one has to be converged first, and how far it has come.
Stage == [unknown |-> 8, building |-> 7, completed |-> 6, pending |-> 5, count |-> 4, clean |-> 3,
          load |-> 2, ready |-> 2, save |-> 1, restore |-> 1, idle |-> 0]
Substep == [alloc |-> 4, temp |-> 3, meta |-> 2, move |-> 1]
Unseen ==
  Cardinality(pass.found["unknown"]) + Cardinality(pass.found["building"])
  + Cardinality(pass.found["completed"]) + Cardinality(pass.found["pending"])
Position ==
  IF pass.pc \in DOMAIN Substep THEN Stage[pass.back] + Substep[pass.pc] ELSE Stage[pass.pc]
Work == 8 * Unseen + 2 * (Cardinality(pass.kept) + Cardinality(Kept("pending"))) + Position

\* A pass ends: what it found when it took the lock bounds its steps, and nothing
\* another program does gives it more to do (the loops of Recover, and cleaning
\* that comes back after a pending journal was converged).
PassesAreBounded ==
  [][pass.pc # "idle" =>
       /\ Work' \in Nat
       /\ Work' < Work \/ (Work' = Work /\ pass' \in {pass, [pass EXCEPT !.calm = FALSE]})]_vars

\* Recovery can do nothing about these; every other root it brings in order,
\* once crashes stop.  The first is a directory of another program, or a container
\* that a crash left with the temporary file of META, which is no Residue.
Blocked ==
  \/ \E x \in Inspect["unknown"] : IsDir(x) /\ ~Residue(x)
  \/ \E x \in Inspect["pending"] : IsDir(x) /\ (~node[x].loads \/ \E y \in Inspect["pending"] : x # y /\ IsDir(y))
  \/ \A c \in Container : place[c] # "unused"
RecoveryConverges == ~Blocked ~> (~NeedsRecovery \/ Blocked)

\* Before a readable manifest is replaced it is saved as the backup, and nothing
\* else ever is, so that one damaged file leaves one that can be read
\* (docs/04-data-and-api.md, "Atomicity and Durability Boundaries").
BackupIsPrevious ==
  [][faults' = faults =>
       /\ bak' # bak => Readable(bak') /\ bak' = main
       /\ pass.calm /\ Readable(main) /\ main' # main => bak' = main]_vars
=============================================================================
