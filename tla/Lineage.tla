------------------------------ MODULE Lineage ------------------------------
(***************************************************************************)
(* The versions of one adopted tool: the activation history in its manifest *)
(* entry (internal/activation), the immutable version directories of the    *)
(* store (internal/store) and the commands that relate the two: adopt,      *)
(* upgrade with its prune (cmd/upgrade.go), rollback and policy set.        *)
(*                                                                         *)
(* History and live binary change in one transaction, which AtomicUpdate    *)
(* states and Journal implements: here it takes effect or it does not.  The *)
(* store is outside that transaction, so its steps are separate, and a      *)
(* command may die or fail between any two of them.                         *)
(***************************************************************************)
EXTENDS Naturals, Sequences, FiniteSets

CONSTANTS
  Tag,        \* release tags, which name the version directories
  Sha,        \* digests of executables
  Original,   \* the reserved tag of the adoption-time backup
  None,       \* no pin, no target, nothing at a path
  Empty,      \* a version directory without its binary
  Depths,     \* the rollback depths a policy may choose
  MaxEvents,  \* bound on the length of the history
  MaxFaults,  \* bound on crashes and I/O errors
  MaxForeign, \* bound on writes of the live binary by other programs
  MaxRetags   \* bound on releases published again with other bytes

ASSUME LineageAssumption ==
  /\ Original \notin Tag /\ None \notin Tag
  /\ None \notin Sha /\ Empty \notin Sha /\ None # Empty
  /\ Depths \subseteq Nat
  /\ {MaxEvents, MaxFaults, MaxForeign, MaxRetags} \subseteq Nat

VARIABLES
  events,    \* the history, oldest first; an event's id is its position
  live,      \* digest of the live binary
  original,  \* digest of the immutable backup, or None before the adoption
  slot,      \* [Tag -> Sha \union {Empty, None}]: the version directories
  released,  \* [Tag -> Sha]: what a download of the release yields
  pin,       \* the entry's pinned_tag
  depth,     \* the effective rollback_depth
  pc,        \* the next step of the upgrade in progress
  goal,      \* the release it installs
  staged,    \* digest of the copy its Put made, or None
  plan,      \* the versions its prune has still to delete
  faults, foreign, retags

entry == <<events, live, original>>
policy == <<pin, depth>>
command == <<pc, goal, staged, plan>>
counters == <<faults, foreign, retags>>
vars == <<entry, slot, released, policy, command, counters>>

Operations == {"adopt", "upgrade", "rollback"}
Event(op, tag, sha, parent) == [op |-> op, tag |-> tag, sha |-> sha, parent |-> parent]

Init ==
  /\ events = <<>> /\ live \in Sha /\ original = None
  /\ slot = [t \in Tag |-> None]
  /\ released \in [Tag -> Sha]
  /\ pin = None /\ depth \in Depths
  /\ pc = "idle" /\ goal = None /\ staged = None /\ plan = {}
  /\ faults = 0 /\ foreign = 0 /\ retags = 0

-----------------------------------------------------------------------------
(* The history *)

Adopted == events # <<>>
Active == events[Len(events)]

\* bindTagSHA: within one history a tag names one digest.
Binds(tag, sha) == \A i \in DOMAIN events : events[i].tag = tag => events[i].sha = sha

\* Validate: no event has a missing or forward parent, and no tag two digests.
\* The commands refuse a history that fails it.
Valid ==
  /\ Adopted
  /\ \A i \in DOMAIN events : events[i].parent < i
  /\ \A i \in DOMAIN events : Binds(events[i].tag, events[i].sha)

\* For every event of a history, it and its logical ancestors, nearest first.
Lines(h) ==
  LET from[i \in 0..Len(h)] ==
        IF i = 0 THEN <<>> ELSE <<i>> \o from[h[i].parent]
  IN  from
Chain == Lines(events)[Len(events)]
Ancestors == Tail(Chain)

\* The first n logical ancestors, as a set of events.
Nearest(n) == {events[Ancestors[k]] : k \in {k \in DOMAIN Ancestors : k <= n}}

\* Mutant: an upgrade reuses a tag the history binds to other bytes.
RecordUpgradeBug(tag, sha) ==
  /\ Valid
  /\ events' = Append(events, Event("upgrade", tag, sha, Len(events)))

RecordUpgrade(tag, sha) ==
  /\ Valid
  /\ Binds(tag, sha)
  /\ events' = Append(events, Event("upgrade", tag, sha, Len(events)))

\* The new event continues from the parent of its target, so that repeated
\* rollbacks walk down the lineage.
\* Mutant: it continues from the target.
RecordRollbackBug(target) ==
  /\ Valid
  /\ \E k \in DOMAIN Ancestors : Ancestors[k] = target
  /\ events' = Append(events,
       Event("rollback", events[target].tag, events[target].sha, target))

RecordRollback(target) ==
  /\ Valid
  /\ \E k \in DOMAIN Ancestors : Ancestors[k] = target
  /\ events' = Append(events,
       Event("rollback", events[target].tag, events[target].sha, events[target].parent))

\* The backup is outside the lineage: no parent, nothing to guess later.
RecordRestoreOriginal(sha) ==
  /\ Valid
  /\ Binds(Original, sha)
  /\ events' = Append(events, Event("rollback", Original, sha, 0))

Previous == Active.parent

\* i is the nearest ancestor with the tag.
FindAncestorByTag(tag, i) ==
  \E k \in DOMAIN Ancestors :
    /\ Ancestors[k] = i /\ events[i].tag = tag
    /\ \A j \in 1..(k - 1) : events[Ancestors[j]].tag # tag

-----------------------------------------------------------------------------
(* The store *)

Full(t) == slot[t] \in Sha

\* The digest ActivationSource finds for a tag, or None.
Source(tag) ==
  IF tag = Original THEN original
  ELSE IF Full(tag) THEN slot[tag] ELSE None

Goto(s) == pc' = s /\ staged' = None /\ UNCHANGED <<goal, plan>>
Stop == pc' = "idle" /\ goal' = None /\ staged' = None /\ plan' = {}

\* Put: a full directory must hold the same bytes; otherwise the source is
\* copied, the directory created unless an earlier Put left it empty, and the
\* copy linked into it.
\* Mutant: a directory that exists is taken for a version.
PutBug(t, sha, next) ==
  \/ staged = None /\ slot[t] # None /\ Goto(next) /\ UNCHANGED slot
  \/ staged = None /\ slot[t] = None /\ staged' = sha /\ UNCHANGED <<pc, goal, plan, slot>>
  \/ staged # None /\ slot[t] = None /\ slot' = [slot EXCEPT ![t] = Empty] /\ UNCHANGED command
  \/ staged # None /\ slot[t] = Empty /\ slot' = [slot EXCEPT ![t] = staged] /\ Goto(next)

Put(t, sha, next) ==
  \/ staged = None /\ slot[t] = sha /\ Goto(next) /\ UNCHANGED slot
  \/ staged = None /\ Full(t) /\ slot[t] # sha /\ Stop /\ UNCHANGED slot
  \/ staged = None /\ ~Full(t) /\ staged' = sha /\ UNCHANGED <<pc, goal, plan, slot>>
  \/ staged # None /\ slot[t] = None /\ slot' = [slot EXCEPT ![t] = Empty] /\ UNCHANGED command
  \/ staged # None /\ slot[t] = Empty /\ slot' = [slot EXCEPT ![t] = staged] /\ Goto(next)

-----------------------------------------------------------------------------
(* adopt, rollback and policy set; each is one transaction *)

Adopt(tag) ==
  /\ pc = "idle" /\ ~Adopted
  /\ events' = <<Event("adopt", tag, live, 0)>>
  /\ original' = live
  /\ UNCHANGED <<live, slot, released, policy, command, counters>>

\* The checks both kinds of activation make before they begin.
Activable == Adopted /\ live = Active.sha /\ Len(events) < MaxEvents

\* Mutant: the stored bytes are not compared with the recorded digest.
RollbackToBug(target) ==
  /\ target # 0 /\ events[target].tag # Active.tag
  /\ Source(events[target].tag) # None
  /\ RecordRollback(target)
  /\ live' = Source(events[target].tag)

RollbackTo(target) ==
  /\ target # 0 /\ events[target].tag # Active.tag
  /\ Source(events[target].tag) # None
  /\ RecordRollback(target)
  /\ live' = Source(events[target].tag)
  /\ live' = events[target].sha

\* hukou rollback, without --to, ...
Rollback ==
  /\ pc = "idle" /\ Activable
  /\ RollbackTo(Previous)
  /\ UNCHANGED <<original, slot, released, policy, command, counters>>

\* ... --to an ancestor's tag, ...
RollbackToTag(tag) ==
  /\ pc = "idle" /\ Activable
  /\ \E i \in DOMAIN events : FindAncestorByTag(tag, i) /\ RollbackTo(i)
  /\ UNCHANGED <<original, slot, released, policy, command, counters>>

\* ... and --to original.
RestoreOriginal ==
  /\ pc = "idle" /\ Activable
  /\ Active.tag # Original
  /\ RecordRestoreOriginal(original)
  /\ live' = original
  /\ UNCHANGED <<original, slot, released, policy, command, counters>>

PolicySet ==
  /\ pc = "idle" /\ Adopted
  /\ pin' \in Tag \union {None}
  /\ depth' \in Depths
  /\ UNCHANGED <<entry, slot, released, command, counters>>

-----------------------------------------------------------------------------
(* upgrade *)

\* Check found a release to install: the pinned one, or else another than the
\* active one.
\* Mutant: a pin on the active version installs it again.
UpgradeBug(tag) ==
  /\ pc = "idle" /\ Activable
  /\ pin \in {None, tag}
  /\ pc' = "put" /\ goal' = tag /\ UNCHANGED <<staged, plan>>
  /\ UNCHANGED <<entry, slot, released, policy, counters>>

Upgrade(tag) ==
  /\ pc = "idle" /\ Activable
  /\ tag # Active.tag
  /\ pin \in {None, tag}
  /\ pc' = "put" /\ goal' = tag /\ UNCHANGED <<staged, plan>>
  /\ UNCHANGED <<entry, slot, released, policy, counters>>

PutNew ==
  /\ pc = "put"
  /\ Put(goal, released[goal], "recheck")
  /\ UNCHANGED <<entry, released, policy, counters>>

Recheck ==
  /\ pc = "recheck"
  /\ IF live = Active.sha THEN Goto("keep") ELSE Stop
  /\ UNCHANGED <<entry, slot, released, policy, counters>>

\* The active version becomes a store version before it loses the live path.
\* Mutant: only versions hukou downloaded are kept.
KeepCurrentBug ==
  /\ pc = "keep"
  /\ Goto("activate")
  /\ UNCHANGED <<entry, slot, released, policy, counters>>

KeepCurrent ==
  /\ pc = "keep"
  /\ IF Active.tag = Original
     THEN Goto("activate") /\ UNCHANGED slot
     ELSE Put(Active.tag, live, "activate")
  /\ UNCHANGED <<entry, released, policy, counters>>

\* The transaction takes effect, and Commit may still report an error that
\* ends the command; or it does not.
Activate ==
  /\ pc = "activate"
  /\ \/ /\ live = Active.sha
        /\ RecordUpgrade(goal, slot[goal])
        /\ live' = slot[goal]
        /\ (Goto("prune") \/ Stop)
     \/ UNCHANGED <<events, live>> /\ Stop
  /\ UNCHANGED <<original, slot, released, policy, counters>>

\* PlanPrune: the active version, the first depth ancestors and an installed
\* pin are kept.
Retained == {Active} \union Nearest(depth)
Protected ==
  {e.tag : e \in Retained} \union (IF pin \in Tag /\ Full(pin) THEN {pin} ELSE {})

\* Mutant: the retained versions are not verified.
PlannableBug == \A t \in Tag : slot[t] # Empty

\* It fails on an incomplete version directory, and when a retained version
\* is missing or has other bytes.
Plannable ==
  /\ \A t \in Tag : slot[t] # Empty
  /\ \A e \in Retained : Source(e.tag) = e.sha

\* Mutant: every version the history names is kept.
PruneBug ==
  /\ pc = "prune"
  /\ IF Plannable
     THEN /\ plan' = {t \in Tag : Full(t) /\ \A i \in DOMAIN events : events[i].tag # t}
          /\ pc' = "delete" /\ UNCHANGED <<goal, staged>>
     ELSE Stop
  /\ UNCHANGED <<entry, slot, released, policy, counters>>

Prune ==
  /\ pc = "prune"
  /\ IF Plannable
     THEN /\ plan' = {t \in Tag : Full(t)} \ Protected
          /\ pc' = "delete" /\ UNCHANGED <<goal, staged>>
     ELSE Stop
  /\ UNCHANGED <<entry, slot, released, policy, counters>>

\* A journal that Finalize left behind skips the prune.
PruneSkipped ==
  /\ pc = "prune"
  /\ Stop
  /\ UNCHANGED <<entry, slot, released, policy, counters>>

\* RemoveAll of one version directory: its binary, then the directory.
\* Mutant: the directory stays.
DeleteBug(t) ==
  /\ pc = "delete" /\ t \in plan
  /\ slot' = [slot EXCEPT ![t] = Empty] /\ plan' = plan \ {t}
  /\ UNCHANGED <<entry, released, policy, pc, goal, staged, counters>>

Delete(t) ==
  /\ pc = "delete" /\ t \in plan
  /\ \/ Full(t) /\ slot' = [slot EXCEPT ![t] = Empty] /\ UNCHANGED plan
     \/ slot[t] = Empty /\ slot' = [slot EXCEPT ![t] = None] /\ plan' = plan \ {t}
  /\ UNCHANGED <<entry, released, policy, pc, goal, staged, counters>>

Done ==
  /\ pc = "delete" /\ plan = {}
  /\ Stop
  /\ UNCHANGED <<entry, slot, released, policy, counters>>

-----------------------------------------------------------------------------
(* The environment *)

\* The command is killed, or one of its system calls fails.
Fault ==
  /\ faults < MaxFaults /\ faults' = faults + 1
  /\ pc # "idle"
  /\ Stop
  /\ UNCHANGED <<entry, slot, released, policy, foreign, retags>>

\* Another program writes the live binary.
ForeignWrite(sha) ==
  /\ foreign < MaxForeign /\ foreign' = foreign + 1
  /\ live' = sha
  /\ UNCHANGED <<events, original, slot, released, policy, command, faults, retags>>

\* A release is published again with other bytes.
Retag(t, sha) ==
  /\ retags < MaxRetags /\ retags' = retags + 1
  /\ released' = [released EXCEPT ![t] = sha]
  /\ UNCHANGED <<entry, slot, policy, command, faults, foreign>>

Next ==
  \/ \E t \in Tag : Adopt(t) \/ RollbackToTag(t) \/ Upgrade(t) \/ Delete(t)
  \/ Rollback \/ RestoreOriginal \/ PolicySet
  \/ PutNew \/ Recheck \/ KeepCurrent \/ Activate \/ Prune \/ PruneSkipped \/ Done
  \/ Fault
  \/ \E s \in Sha : ForeignWrite(s)
  \/ \E t \in Tag, s \in Sha : Retag(t, s)

Spec == Init /\ [][Next]_vars
-----------------------------------------------------------------------------
(* Properties *)

\* Every variable holds a value of its type.
TypeOK ==
  /\ events \in Seq([op : Operations, tag : Tag \union {Original}, sha : Sha, parent : Nat])
  /\ live \in Sha /\ original \in Sha \union {None}
  /\ slot \in [Tag -> Sha \union {Empty, None}]
  /\ released \in [Tag -> Sha]
  /\ pin \in Tag \union {None} /\ depth \in Depths
  /\ pc \in {"idle", "put", "recheck", "keep", "activate", "prune", "delete"}
  /\ goal \in Tag \union {None} /\ staged \in Sha \union {None} /\ plan \subseteq Tag
  /\ faults \in 0..MaxFaults /\ foreign \in 0..MaxForeign /\ retags \in 0..MaxRetags

\* No sequence of commands, releases published again with other bytes
\* included, leads to a history Validate refuses: that tool could never again
\* be upgraded or rolled back.
HistoryNeverWedges == Adopted => Valid

\* Two neighbours on a lineage are different versions, so the default rollback
\* never answers "already at" (doRollbackWithDeps).
RollbackMoves ==
  \A i \in DOMAIN events :
    events[i].parent # 0 => events[events[i].parent].tag # events[i].tag

\* Unless another program writes it, the live binary is byte for byte the one
\* the history calls active, whatever store directory it was installed from.
LiveIsActive == Adopted /\ foreign = 0 => live = Active.sha

\* The previous version can be reactivated from the store.
Reversible ==
  Previous # 0 => Source(events[Previous].tag) = events[Previous].sha

\* Where policies keep at least one ancestor, the version an upgrade replaced
\* can be reactivated, through crashes, prunes, policy changes and retags, for
\* as long as that upgrade is the active event.
UpgradeReversible ==
  Adopted /\ Active.op = "upgrade" /\ foreign = 0 /\ 0 \notin Depths => Reversible

\* A prune that ran to its end left exactly what its policy retains.
PruneExact ==
  pc = "delete" /\ plan = {} => {t \in Tag : slot[t] # None} = Protected \ {Original}

\* No version is deleted while the active version, the pin or an ancestor
\* within the rollback depth is missing or altered.
PruneFailsClosed ==
  [][pc = "delete" /\ slot' # slot =>
       \A e \in Retained : Source(e.tag) = e.sha /\ Source(e.tag)' = e.sha]_vars

\* The versions on the lineage of the active event, that one first.
Versions ==
  LET c == Chain IN [k \in DOMAIN c |-> [tag |-> events[c[k]].tag, sha |-> events[c[k]].sha]]

\* The history is an undo stack: upgrade pushes, rollback pops, and --to
\* original starts over.
Undo == INSTANCE UndoStack WITH
  Version <- [tag : Tag \union {Original}, sha : Sha],
  stack <- Versions,
  home <- [tag |-> Original, sha |-> original]
UndoSpec == Undo!Spec
=============================================================================
