------------------------------- MODULE Toolset -------------------------------
(***************************************************************************)
(* "hukou export" and "hukou import" (cmd/export.go, cmd/import.go) among    *)
(* other commands that adopt tools and set policies on the same machine.     *)
(* Importing a tool is an adoption and then, where its policy is not the     *)
(* default, a policy command: two commands, each of which takes the state    *)
(* lock for itself and gives up at once where another process has it.  What  *)
(* a transaction does on the way is module Journal: here it takes effect,    *)
(* or is undone, or is left behind by a crash for the next one to decide.    *)
(***************************************************************************)
EXTENDS ReleaseChoice, FiniteSets

CONSTANTS
  Name,      \* tools, numbered in the order of their names
  Process,
  None,
  Bin,       \* contents of executables
  Version,   \* [Bin -> {} or {the tag in the Go build information}]
  Traced,    \* executables whose build information names a repository
  Owned,     \* executables another package manager claims
  Homes,     \* manifests of the machine that exported
  Edited,    \* lists that were written or changed by hand
  Sentinel,  \* the tags "imported", "adopted" and "local"
  Commands,  \* what is started; see Start
  Releases,  \* what a host offers, for NotFrozen
  MaxStarts, MaxCrashes, MaxChanges

ASSUME ToolsetAssumption ==
  /\ Name \subseteq Nat /\ None \notin Process \union Bin
  /\ \A ns \in SUBSET Name : ns # {} => \E n \in ns : \A m \in ns : n <= m
  /\ {MaxStarts, MaxCrashes, MaxChanges} \subseteq Nat

AtMostOne(s) == \A x, y \in s : x = y
ASSUME InputAssumption ==
  /\ \A b \in Bin : AtMostOne(Version[b])
  /\ \A l \in Homes \union Edited : \A t \in l :
       t.name \in Name /\ t.policy = [mode |-> t.policy.mode, channel |-> t.policy.channel, pin |-> t.policy.pin]
  /\ \A c \in Commands :
       c.kind = "import" \/ (c.kind \in {"adopt", "policy"} /\ c.call.name \in Name /\ AtMostOne(c.call.tag))

\* unorderedBaseline, as it is.
ASSUME SentinelAssumption ==
  /\ Sentinel.adopted.baseline /\ Sentinel.local.baseline /\ ~Sentinel.imported.baseline
  /\ \A t \in {Sentinel.imported, Sentinel.adopted, Sentinel.local} : ~IsSemanticTag(t)

VARIABLES
  list,      \* the exported tools
  path,      \* [Name -> the executable on PATH, or None]
  manifest,  \* entries [name, local, tag, sha, policy], as visible on disk
  pending,   \* {} or {the manifest that the transaction left behind decides for}
  lock,      \* the process that holds state.lock, or None
  proc,      \* [Process -> where each is in its command, and what it holds]
  seen,      \* history: [Name -> the executables that were on PATH]
  undone,    \* history: names whose adoption was undone
  tuned,     \* history: names whose policy a user has set
  starts, crashes, changes

machine == <<manifest, pending, lock>>
history == <<seen, undone, tuned>>
counters == <<starts, crashes, changes>>
vars == <<list, path, machine, proc, history, counters>>

DefaultPolicy == [mode |-> "semver", channel |-> "stable", pin |-> {}]
NoOptions == [mode |-> {}, channel |-> {}, pin |-> {}, unpin |-> FALSE]
Idle == [pc |-> "idle", command |-> None, todo |-> {}, report |-> {},
         call |-> [name |-> 0, local |-> FALSE, repo |-> FALSE, tag |-> {}, force |-> FALSE, options |-> NoOptions],
         base |-> {}, sha |-> None]

Names(m) == {e.name : e \in m}
Get(m, n) == {e \in m : e.name = n}

\* Export: what the list says of an entry.  Its depth of rollback is not told.
Exported(e) == [name |-> e.name, local |-> e.local, tag |-> e.tag, sha |-> e.sha, policy |-> e.policy]

Init ==
  /\ list \in Edited \union {{Exported(e) : e \in home} : home \in Homes}
  /\ path \in [Name -> Bin \union {None}]
  /\ manifest = {} /\ pending = {} /\ lock = None
  /\ proc = [p \in Process |-> Idle]
  /\ seen = [n \in Name |-> {path[n]} \ {None}] /\ undone = {} /\ tuned = {}
  /\ starts = 0 /\ crashes = 0 /\ changes = 0

\* CheckClean: no transaction is left behind, and none is under way.
Clean == pending = {} /\ \A p \in Process : proc[p].pc \notin {"apply", "commit"}

\* The end of a command; that of a tool is a row of the import's report.
Tool(p) == CHOOSE t \in proc[p].todo : \A u \in proc[p].todo : t.name <= u.name
Reported(p, status) ==
  IF proc[p].command.kind # "import" THEN [proc EXCEPT ![p].pc = "idle"]
  ELSE [proc EXCEPT ![p].pc = "tool", ![p].todo = @ \ {Tool(p)},
                    ![p].report = @ \union {[tool |-> Tool(p), status |-> status]}]
End(p, status) == proc' = Reported(p, status)

-----------------------------------------------------------------------------
(* Commands *)

\* readExportDoc: all of the list is sound, or none of it is imported.
Valid(l) ==
  l # {} /\ \A t \in l :
    /\ \A u \in l : u.name = t.name => u = t
    /\ \A g \in {t.tag} \union t.policy.pin : g.storable
    /\ t.policy.mode \in Modes \union {""} /\ t.policy.channel \in Channels \union {""}

Selected(c) == {t \in list : c.only = {} \/ t.name \in c.only}

Start(p) ==
  /\ proc[p].pc = "idle" /\ starts < MaxStarts /\ starts' = starts + 1
  /\ \E c \in Commands :
       CASE c.kind = "import" ->
              /\ Valid(list) /\ Clean
              /\ proc' = [proc EXCEPT ![p] = [Idle EXCEPT !.pc = "tool", !.command = c, !.todo = Selected(c)]]
         [] OTHER ->
              proc' = [proc EXCEPT ![p] = [Idle EXCEPT !.pc = c.kind, !.command = c, !.call = c.call]]
  /\ UNCHANGED <<list, path, machine, history, crashes, changes>>

\* Mutant: a pin alone is taken for the default.
policyNeedsApplyBug(policy) == policy.mode # "" /\ (policy.mode # "semver" \/ policy.channel # "stable")

\* A list by hand that leaves out the mode has no policy, whatever its pin.
policyNeedsApply(policy) == policy.mode # "" /\ policy # DefaultPolicy

\* Mutant: the digest is taken for a proof of the tag.
resolveImportTagBug(t, bin) ==
  IF bin = t.sha THEN {t.tag}
  ELSE IF Version[bin] # {} THEN Version[bin]
  ELSE IF IsSemanticTag(t.tag) THEN {Sentinel.imported} ELSE {t.tag}

\* The list's tag is never believed where it would be an order among versions.
resolveImportTag(t, bin) ==
  IF Version[bin] # {} THEN Version[bin]
  ELSE IF IsSemanticTag(t.tag) THEN {Sentinel.imported} ELSE {t.tag}

\* A line of the dry run, which only looks.
Plan(p) ==
  /\ proc[p].pc = "tool" /\ proc[p].todo # {} /\ proc[p].command.dry
  /\ LET t == Tool(p)
     IN End(p, IF t.local \/ t.name \in Names(manifest) THEN "skipped"
               ELSE IF path[t.name] = None THEN "error" ELSE "would")
  /\ UNCHANGED <<list, path, machine, history, counters>>

\* What the policy command of an import is given.
Options(t) ==
  [mode |-> {t.policy.mode} \ {""}, channel |-> {t.policy.channel} \ {""},
   pin |-> t.policy.pin, unpin |-> FALSE]

\* importOne up to the adoption, without the lock.
Look(p) ==
  /\ proc[p].pc = "tool" /\ proc[p].todo # {} /\ ~proc[p].command.dry
  /\ LET t == Tool(p)
     IN IF t.local \/ t.name \in Names(manifest) THEN End(p, "skipped")
        ELSE IF path[t.name] = None THEN End(p, "error")
        ELSE proc' = [proc EXCEPT ![p].pc = "adopt",
                        ![p].call = [name |-> t.name, local |-> FALSE, repo |-> TRUE, force |-> proc[p].command.force,
                                     tag |-> resolveImportTag(t, path[t.name]), options |-> Options(t)]]
  /\ UNCHANGED <<list, path, machine, history, counters>>

Leave(p) ==
  /\ proc[p].pc = "tool" /\ proc[p].todo = {}
  /\ proc' = [proc EXCEPT ![p].pc = "idle"]
  /\ UNCHANGED <<list, path, machine, history, counters>>

-----------------------------------------------------------------------------
(* adopt *)

\* Acquire does not wait.
Locked == lock # None

\* acquireMutationLock: the lock or nothing, then recovery.
Recovered == IF pending = {} THEN manifest ELSE CHOOSE m \in pending : TRUE
AdoptLock(p) ==
  /\ proc[p].pc = "adopt"
  /\ IF Locked THEN End(p, "error") /\ UNCHANGED <<machine, undone>>
     ELSE /\ lock' = p /\ manifest' = Recovered /\ pending' = {}
          /\ undone' = undone \union (Names(manifest) \ Names(Recovered))
          /\ proc' = [proc EXCEPT ![p].pc = "inspect"]
  /\ UNCHANGED <<list, path, seen, tuned, counters>>

\* A tool is adopted as local, from the repository that was given, or from the one
\* its executable names.
Attributed(c, bin) == c.local \/ c.repo \/ bin \in Traced

\* inspectAdoption: everything again, under the lock.
Inspect(p) ==
  /\ proc[p].pc = "inspect"
  /\ LET c == proc[p].call
         bin == path[c.name]
     IN IF bin = None \/ ~Attributed(c, bin) \/ (bin \in Owned /\ ~c.force) \/ c.name \in Names(manifest)
        THEN End(p, "error") /\ lock' = None
        ELSE /\ proc' = [proc EXCEPT ![p].pc = "apply", ![p].sha = bin, ![p].base = manifest]
             /\ UNCHANGED lock
  /\ UNCHANGED <<list, path, manifest, pending, history, counters>>

\* The tag that was given, or that the executable or the command tells.  Where the
\* repository was given, the build information is not read.
EntryTag(c, bin) ==
  IF c.tag # {} THEN c.tag
  ELSE IF c.local THEN {Sentinel.local}
  ELSE IF ~c.repo /\ Version[bin] # {} THEN Version[bin] ELSE {Sentinel.adopted}
Entry(p) ==
  LET c == proc[p].call
  IN [name |-> c.name, local |-> c.local, sha |-> proc[p].sha, policy |-> DefaultPolicy,
      tag |-> CHOOSE t \in EntryTag(c, proc[p].sha) : TRUE]

\* The live file and the manifest are compared again before the manifest is saved.
Apply(p) ==
  /\ proc[p].pc = "apply"
  /\ IF path[proc[p].call.name] # proc[p].sha \/ manifest # proc[p].base
     THEN End(p, "error") /\ lock' = None /\ UNCHANGED manifest
     ELSE /\ manifest' = (proc[p].base \ Get(proc[p].base, proc[p].call.name)) \union {Entry(p)}
          /\ proc' = [proc EXCEPT ![p].pc = "commit"]
          /\ UNCHANGED lock
  /\ UNCHANGED <<list, path, pending, history, counters>>

\* The importer goes on to the policy, with the lock released.
Commit(p) ==
  /\ proc[p].pc = "commit" /\ lock' = None
  /\ IF proc[p].command.kind = "import" /\ policyNeedsApply(Tool(p).policy)
     THEN proc' = [proc EXCEPT ![p].pc = "policy"] ELSE End(p, "ok")
  /\ UNCHANGED <<list, path, manifest, pending, history, counters>>

\* The save or the commit fails: what recovery finds is undone, or kept where the
\* decision was already on disk.
CommitFails(p) ==
  /\ proc[p].pc = "commit" /\ crashes < MaxCrashes /\ crashes' = crashes + 1
  /\ manifest' \in {manifest, proc[p].base}
  /\ undone' = undone \union (Names(manifest) \ Names(manifest'))
  /\ lock' = None /\ End(p, "error")
  /\ UNCHANGED <<list, path, pending, seen, tuned, starts, changes>>

-----------------------------------------------------------------------------
(* policy set *)

\* doPolicySet before the lock: the entry must exist, the state be clean.
PolicyLook(p) ==
  /\ proc[p].pc = "policy"
  /\ IF proc[p].call.name \notin Names(manifest) \/ ~Clean THEN End(p, "error")
     ELSE proc' = [proc EXCEPT ![p].pc = "lock", ![p].base = manifest]
  /\ UNCHANGED <<list, path, machine, history, counters>>

\* Mutant: the manifest loaded before the lock is saved.
PolicyLockBug(p) ==
  /\ proc[p].pc = "lock"
  /\ IF Locked \/ pending # {} \/ proc[p].call.name \notin Names(manifest)
     THEN End(p, "error") /\ UNCHANGED lock
     ELSE lock' = p /\ proc' = [proc EXCEPT ![p].pc = "save"]
  /\ UNCHANGED <<list, path, manifest, pending, history, counters>>

\* Without recovery, which may touch a live file: what is left behind refuses.
PolicyLock(p) ==
  /\ proc[p].pc = "lock"
  /\ IF Locked \/ pending # {} \/ proc[p].call.name \notin Names(manifest)
     THEN End(p, "error") /\ UNCHANGED lock
     ELSE lock' = p /\ proc' = [proc EXCEPT ![p].pc = "save", ![p].base = manifest]
  /\ UNCHANGED <<list, path, manifest, pending, history, counters>>

\* {} where it refuses: only a semantic tag may be put in semver mode.
applyPolicySet(e, o) ==
  IF "semver" \in o.mode /\ (e.local \/ ~IsSemanticTag(e.tag)) THEN {}
  ELSE {[e EXCEPT !.policy =
          [mode |-> IF o.mode = {} THEN @.mode ELSE CHOOSE m \in o.mode : TRUE,
           channel |-> IF o.channel = {} THEN @.channel ELSE CHOOSE c \in o.channel : TRUE,
           pin |-> IF o.unpin THEN {} ELSE IF o.pin = {} THEN @.pin ELSE o.pin]]}

PolicySave(p) ==
  /\ proc[p].pc = "save" /\ lock' = None
  /\ LET c == proc[p].call
         base == proc[p].base
         after == UNION {applyPolicySet(e, c.options) : e \in Get(base, c.name)}
     IN IF after = {} THEN End(p, "error") /\ UNCHANGED <<manifest, tuned>>
        ELSE /\ manifest' = (base \ Get(base, c.name)) \union after
             /\ tuned' = IF proc[p].command.kind = "import" THEN tuned ELSE tuned \union {c.name}
             /\ End(p, "ok")
  /\ UNCHANGED <<list, path, pending, seen, undone, counters>>

SaveFails(p) ==
  /\ proc[p].pc = "save" /\ lock' = None
  /\ crashes < MaxCrashes /\ crashes' = crashes + 1 /\ End(p, "error")
  /\ UNCHANGED <<list, path, manifest, pending, history, starts, changes>>

-----------------------------------------------------------------------------
(* The rest of the machine *)

\* The system releases the lock; a transaction under way is left behind, and is
\* decided by whether its marker is on disk.
Crash(p) ==
  /\ proc[p].pc # "idle" /\ crashes < MaxCrashes /\ crashes' = crashes + 1
  /\ proc' = [proc EXCEPT ![p] = Idle]
  /\ lock' = IF lock = p THEN None ELSE lock
  /\ CASE proc[p].pc = "apply"  -> pending' = {proc[p].base}
       [] proc[p].pc = "commit" -> \E m \in {proc[p].base, manifest} : pending' = {m}
       [] OTHER                 -> UNCHANGED pending
  /\ UNCHANGED <<list, path, manifest, history, starts, changes>>

\* Somebody installs, replaces or removes an executable.
Install(n, bin) ==
  /\ changes < MaxChanges /\ changes' = changes + 1
  /\ bin # path[n] /\ path' = [path EXCEPT ![n] = bin]
  /\ seen' = [seen EXCEPT ![n] = @ \union ({bin} \ {None})]
  /\ UNCHANGED <<list, machine, proc, undone, tuned, starts, crashes>>

Step(p) ==
  \/ Start(p) \/ Plan(p) \/ Look(p) \/ Leave(p)
  \/ AdoptLock(p) \/ Inspect(p) \/ Apply(p) \/ Commit(p) \/ CommitFails(p)
  \/ PolicyLook(p) \/ PolicyLock(p) \/ PolicySave(p) \/ SaveFails(p)
  \/ Crash(p)

Next == (\E p \in Process : Step(p)) \/ (\E n \in Name, b \in Bin \union {None} : Install(n, b))

Spec == Init /\ [][Next]_vars
-----------------------------------------------------------------------------
(* Properties *)

\* Entries that no abort or recovery can take back any more.
Settled ==
  {e \in manifest : /\ \A m \in pending : e \in m
                    /\ \A p \in Process : proc[p].pc = "commit" => e \in proc[p].base}

\* No update is lost: between commands that look, lock and save in any order, an
\* entry that is settled only changes by a policy command for it, which starts
\* from the entry as it is (cmd/policy.go: "The manifest is loaded again after
\* locking"; cmd/adopt.go: "refusing to replace the entry").
EntriesAreKept ==
  [][\A e \in Settled :
       \/ e \in manifest'
       \/ \E p \in Process : /\ proc[p].pc = "save" /\ proc[p].call.name = e.name
                             /\ applyPolicySet(e, proc[p].call.options) \subseteq manifest']_vars

\* Seen from the entries that are settled, the commands are those of a registry
\* that carries out one at a time: nothing is half registered, no name is taken
\* twice, and what a policy command leaves comes from the policy before it.
Asked ==
  {c.call.options : c \in {d \in Commands : d.kind = "policy"}} \union
  {Options(t) : t \in UNION (Edited \union {{Exported(e) : e \in home} : home \in Homes})}
Promise == INSTANCE Registry WITH entries <- Settled, Default <- DefaultPolicy, Asked <- Asked
RegistrySpec == Promise!Spec

\* A list cannot make hukou believe a version: a semantic tag that is recorded was
\* given with "adopt --tag", or is that of an executable which was on PATH under
\* that name (the comment in importOne).  It need not be the one that was adopted,
\* as PATH is read twice.
Told(n, t) ==
  \/ \E b \in seen[n] : Version[b] = {t}
  \/ \E c \in Commands : c.kind = "adopt" /\ c.call.name = n /\ c.call.tag = {t}
TagIsHonest == \A e \in manifest : IsSemanticTag(e.tag) => Told(e.name, e.tag)

\* A tool that is reported as imported is registered for good and has the policy
\* it was exported with, or one that a user has set; one that is skipped as
\* adopted is, or its adoption by another process has been undone since.
\* (doImport: "The exported update policy (channel/pin) is re-applied".)
ReportIsTrue ==
  \A p \in Process : \A r \in proc[p].report :
    /\ r.status = "ok" => \E e \in Settled :
         /\ e.name = r.tool.name
         /\ e.name \in tuned \/ {r.tool.policy.mode, r.tool.policy.channel} \intersect {""} # {}
            \/ e.policy = r.tool.policy
    /\ r.status = "skipped" => r.tool.local \/ r.tool.name \in Names(manifest) \union undone

\* What is imported can be upgraded: cmd/import.go replaces a tag by "imported"
\* lest the list freeze the tool's upgrades.
NotFrozen ==
  \A p \in Process : \A r \in proc[p].report : r.status = "ok" =>
    \A e \in Get(manifest, r.tool.name) : e.policy.pin = {} =>
      Select(e.policy, e.tag, Releases).verdict # "unsupported"
=============================================================================
