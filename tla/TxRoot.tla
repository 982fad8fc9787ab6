------------------------------- MODULE TxRoot -------------------------------
(***************************************************************************)
(* The directory of journals as recovery finds it: not one journal, as in   *)
(* module Journal, but everything that may lie in transactions/, entries    *)
(* hukou cannot know included (internal/transaction/recover.go, ADR-0006).  *)
(* A pass of Recover moves stray entries into quarantine containers, refuses *)
(* unknown directories, and only then touches journals.  It may be killed   *)
(* between any two steps; entries may appear, drift or be taken away while  *)
(* it runs, for only hukou takes the lock.                                  *)
(***************************************************************************)
EXTENDS Naturals, FiniteSets

CONSTANTS
  Entry,      \* entries found in the root, or dropped there later
  Container,  \* the quarantine containers that may be allocated
  None,       \* "no entry"
  MaxFaults   \* bound on crashes, I/O errors and what other programs do

ASSUME TxRootAssumption ==
  /\ Entry \cap Container = {} /\ None \notin Entry \union Container
  /\ (Entry \union Container) \cap {"unused", "root", "gone"} = {}
  /\ IsFiniteSet(Entry) /\ IsFiniteSet(Container) /\ MaxFaults \in Nat

Id == Entry \union Container
Known == {"building", "completed", "pending"}
Buckets == Known \union {"unknown"}

\* What an entry is: the prefix of its name, whether it is a real directory,
\* and whether Recover can converge it: intent, COMMIT marker, payloads and
\* live files in order.
Node == {n \in [prefix : Known \union {"other"}, dir : BOOLEAN, loads : BOOLEAN] :
           n.loads => n.dir /\ n.prefix = "pending"}

VARIABLES
  place,    \* [Id -> "unused", "root", "gone", or the container that holds it]
  node,     \* [Entry -> Node]
  inside,   \* [Container -> SUBSET {"temp", "META"}]: its members but the payload
  meta,     \* [Container -> the entry its META names, or None]
  pass,     \* the pass of Recover that is running, or how the last one ended
  faults    \* faults so far

evidence == <<place, node, inside, meta>>
rootVars == <<evidence, pass, faults>>

\* The state of a pass: where it is, and the loop a quarantine returns to; what
\* Inspect found and it has still to look at; the journals that are real
\* directories and the unknown directories; the entry being moved and its
\* container; who called; how it ended; and whether nothing disturbed it.
Pass ==
  [pc : Buckets \union {"idle", "count", "clean", "load", "ready", "alloc", "temp", "meta", "move",
                    "save", "restore"},
   back : Buckets \union {"idle"},
   found : [Buckets -> SUBSET Id], kept : SUBSET Id, refused : SUBSET Id,
   cur : Id \union {None}, box : Container \union {None},
   mode : {"command", "repair"}, result : {"none", "ok", "refused", "error"}, calm : BOOLEAN]

InRoot(x) == place[x] = "root"
IsDir(x) == x \in Container \/ (x \in Entry /\ node[x].dir)
Holds(c) == {x \in Id : place[x] = c}

\* A trusted container: META and payload, nothing else.
IsValidQuarantineContainer(c) == inside[c] = {"META"} /\ Holds(c) # {}

\* What relocateQuarantineResidue recognizes: nothing, or only META.
Residue(x) == x \in Container /\ inside[x] \subseteq {"META"} /\ Holds(x) = {}

\* How Inspect sorts what it finds.
Bucket(x) ==
  IF x \in Entry
  THEN IF node[x].prefix = "other" THEN "unknown" ELSE node[x].prefix
  ELSE IF IsValidQuarantineContainer(x) THEN "quarantined" ELSE "unknown"

Inspect == [b \in Buckets |-> {x \in Id : InRoot(x) /\ Bucket(x) = b}]

NeedsRecovery == \E b \in Buckets : Inspect[b] # {}

\* Journals come from hukou only, so that what is dropped later is none.
RootInit ==
  /\ node \in [Entry -> Node]
  /\ place \in [Id -> {"unused", "root"}]
  /\ \A x \in Entry : place[x] = "unused" => node[x].prefix = "other" \/ ~node[x].dir
  /\ \A c \in Container : place[c] = "unused"
  /\ inside = [c \in Container |-> {}]
  /\ meta = [c \in Container |-> None]
  /\ pass = [pc |-> "idle", back |-> "idle", found |-> [b \in Buckets |-> {}],
             kept |-> {}, refused |-> {}, cur |-> None, box |-> None,
             mode |-> "command", result |-> "none", calm |-> TRUE]
  /\ faults = 0

-----------------------------------------------------------------------------
(* Control *)

Goto(s) == pass' = [pass EXCEPT !.pc = s]

\* The pass ends and the lock is released.
End(r) == pass' = [pass EXCEPT !.pc = "idle", !.result = r, !.cur = None, !.box = None]

\* Lock taken; transactions/ is made, and Inspect reads it.
Call(m) ==
  pass' = [pass EXCEPT !.pc = "unknown", !.back = "idle", !.found = Inspect,
                       !.kept = {}, !.refused = {}, !.cur = None, !.box = None,
                       !.mode = m, !.result = "none", !.calm = TRUE]

\* The pass is in the loop over b and looks at x next.
At(b, x) == pass.pc = b /\ x \in pass.found[b]
Without(b, x) == [pass.found EXCEPT ![b] = @ \ {x}]

-----------------------------------------------------------------------------
(* Unknown entries, then entries named like journals *)

\* It is gone since Inspect saw it: Lstat fails.
TakeGone(b, x) ==
  /\ At(b, x) /\ ~InRoot(x)
  /\ End("error")
  /\ UNCHANGED <<evidence, faults>>

\* Files, links and the debris of a quarantine are moved away.
\* Mutant: a stray that is named like a journal is passed over.
TakeStrayBug(b, x) ==
  /\ At(b, x) /\ InRoot(x)
  /\ ~IsDir(x) \/ (b = "unknown" /\ Residue(x))
  /\ pass' = IF b # "unknown" THEN [pass EXCEPT !.found = Without(b, x)]
             ELSE [pass EXCEPT !.found = Without(b, x), !.cur = x, !.back = b, !.pc = "alloc"]
  /\ UNCHANGED <<evidence, faults>>

TakeStray(b, x) ==
  /\ At(b, x) /\ InRoot(x)
  /\ ~IsDir(x) \/ (b = "unknown" /\ Residue(x))
  /\ pass' = [pass EXCEPT !.found = Without(b, x), !.cur = x, !.back = b, !.pc = "alloc"]
  /\ UNCHANGED <<evidence, faults>>

\* Any other unknown directory may be the journal of a newer hukou.
\* Mutant: a directory of an unknown name is passed over in silence.
TakeUnknownBug(x) ==
  /\ At("unknown", x) /\ InRoot(x)
  /\ IsDir(x) /\ ~Residue(x)
  /\ pass' = [pass EXCEPT !.found = Without("unknown", x)]
  /\ UNCHANGED <<evidence, faults>>

TakeUnknown(x) ==
  /\ At("unknown", x) /\ InRoot(x)
  /\ IsDir(x) /\ ~Residue(x)
  /\ pass' = [pass EXCEPT !.found = Without("unknown", x), !.refused = @ \union {x}]
  /\ UNCHANGED <<evidence, faults>>

TakeJournal(b, x) ==
  /\ b # "unknown" /\ At(b, x) /\ InRoot(x)
  /\ IsDir(x)
  /\ pass' = [pass EXCEPT !.found = Without(b, x), !.kept = @ \union {x}]
  /\ UNCHANGED <<evidence, faults>>

\* The loops follow one another; unknown directories are reported before any
\* journal is touched.
Following == [unknown |-> "building", building |-> "completed", completed |-> "pending",
              pending |-> "count"]

LoopDone(b) ==
  /\ pass.pc = b /\ pass.found[b] = {}
  /\ IF b = "unknown" /\ pass.refused # {} THEN End("refused") ELSE Goto(Following[b])
  /\ UNCHANGED <<evidence, faults>>

-----------------------------------------------------------------------------
(* The journals *)

Kept(b) == {x \in pass.kept \cap Entry : node[x].prefix = b}

CountPending ==
  /\ pass.pc = "count"
  /\ IF \E x, y \in Kept("pending") : x # y THEN End("refused") ELSE Goto("clean")
  /\ UNCHANGED <<evidence, faults>>

\* Building journals are removed, then completed ones: requireRealDirectory,
\* os.RemoveAll.
CleanJournal(x) ==
  /\ pass.pc = "clean"
  /\ x \in Kept("building") \/ (x \in Kept("completed") /\ Kept("building") = {})
  /\ IF InRoot(x)
     THEN /\ place' = [place EXCEPT ![x] = "gone"]
          /\ pass' = [pass EXCEPT !.kept = @ \ {x}]
     ELSE End("error") /\ UNCHANGED place
  /\ UNCHANGED <<node, inside, meta, faults>>

CleanDone ==
  /\ pass.pc = "clean"
  /\ Kept("building") \union Kept("completed") = {}
  /\ IF pass.kept = {} THEN pass' = [pass EXCEPT !.pc = "ready", !.result = "ok"] ELSE Goto("load")
  /\ UNCHANGED <<evidence, faults>>

\* The one pending journal is converged (module Journal) and renamed to
\* completed, to be removed like the others; or the pass refuses it.
LoadPending(x) ==
  /\ pass.pc = "load" /\ x \in Kept("pending")
  /\ IF InRoot(x) /\ node[x].loads
     THEN /\ node' = [node EXCEPT ![x].prefix = "completed", ![x].loads = FALSE]
          /\ Goto("clean")
     ELSE End("refused") /\ UNCHANGED node
  /\ UNCHANGED <<place, inside, meta, faults>>

-----------------------------------------------------------------------------
(* quarantineEntry and relocateQuarantineResidue *)

\* mkdir under a name nobody has, or no name left to try.
NewName == CHOOSE c \in Container : place[c] = "unused"

AllocateContainer ==
  /\ pass.pc = "alloc" /\ \E c \in Container : place[c] = "unused"
  /\ place' = [place EXCEPT ![NewName] = "root"]
  /\ pass' = [pass EXCEPT !.box = NewName, !.pc = "temp"]
  /\ UNCHANGED <<node, inside, meta, faults>>

AllocateFails ==
  /\ pass.pc = "alloc" /\ \A c \in Container : place[c] # "unused"
  /\ End("error")
  /\ UNCHANGED <<evidence, faults>>

\* AtomicWriteFile: a temporary file beside META ...
\* Mutant: the entry is moved before META is written.
WriteTempBug ==
  /\ pass.pc = "temp" /\ InRoot(pass.cur)
  /\ place' = [place EXCEPT ![pass.cur] = pass.box]
  /\ inside' = [inside EXCEPT ![pass.box] = {"temp"}]
  /\ Goto("meta")
  /\ UNCHANGED <<node, meta, faults>>

WriteTemp ==
  /\ pass.pc = "temp"
  /\ inside' = [inside EXCEPT ![pass.box] = {"temp"}]
  /\ Goto("meta")
  /\ UNCHANGED <<place, node, meta, faults>>

\* ... renamed to META, which is durable before the entry moves.
WriteMeta ==
  /\ pass.pc = "meta"
  /\ inside' = [inside EXCEPT ![pass.box] = {"META"}]
  /\ meta' = [meta EXCEPT ![pass.box] = pass.cur]
  /\ Goto("move")
  /\ UNCHANGED <<place, node, faults>>

MovePayload ==
  /\ pass.pc = "move"
  /\ IF InRoot(pass.cur)
     THEN /\ place' = [place EXCEPT ![pass.cur] = pass.box]
          /\ pass' = [pass EXCEPT !.pc = pass.back, !.cur = None, !.box = None]
     ELSE End("error") /\ UNCHANGED place
  /\ UNCHANGED <<node, inside, meta, faults>>

\* The caller gives the lock back.
Release ==
  /\ pass.pc = "ready"
  /\ End(pass.result)
  /\ UNCHANGED <<evidence, faults>>

-----------------------------------------------------------------------------
(* The environment *)

Fault == faults < MaxFaults /\ faults' = faults + 1
Disturbed == pass' = [pass EXCEPT !.calm = FALSE]
Stopped == pass' = [pass EXCEPT !.pc = "idle", !.result = "error", !.cur = None, !.box = None,
                                !.calm = FALSE]

\* A step fails: AtomicWriteFile removes its temporary file on the way out.
IOError ==
  /\ Fault
  /\ pass.pc \notin {"idle", "ready"}
  /\ inside' = IF pass.pc = "meta" THEN [inside EXCEPT ![pass.box] = {}] ELSE inside
  /\ Stopped
  /\ UNCHANGED <<place, node, meta>>

\* The process is killed.  A power failure undoes a last part of the steps and
\* leaves what a crash before them leaves.
Crash ==
  /\ Fault
  /\ pass.pc # "idle"
  /\ Stopped
  /\ UNCHANGED evidence

\* Another program drops an entry in the root.
Drop(x) ==
  /\ Fault
  /\ place[x] = "unused"
  /\ place' = [place EXCEPT ![x] = "root"]
  /\ Disturbed
  /\ UNCHANGED <<node, inside, meta>>

\* Somebody takes an entry away, as the messages of Recover ask for.
Take(x) ==
  /\ Fault
  /\ InRoot(x) /\ x # pass.box
  /\ place' = [place EXCEPT ![x] = "gone"]
  /\ Disturbed
  /\ UNCHANGED <<node, inside, meta>>

\* A live file of a pending journal is written by another program, or restored.
Drift(x) ==
  /\ Fault
  /\ InRoot(x) /\ node[x].prefix = "pending" /\ node[x].dir
  /\ node' = [node EXCEPT ![x].loads = ~@]
  /\ Disturbed
  /\ UNCHANGED <<place, inside, meta>>

Acquire == pass.pc = "idle" /\ Call("command") /\ UNCHANGED <<evidence, faults>>

Recovering ==
  \/ \E b \in Buckets, x \in Id : TakeGone(b, x) \/ TakeStray(b, x) \/ TakeJournal(b, x)
  \/ \E x \in Id : TakeUnknown(x)
  \/ \E b \in Buckets : LoopDone(b)
  \/ CountPending \/ CleanDone
  \/ \E x \in Entry : CleanJournal(x) \/ LoadPending(x)
  \/ AllocateContainer \/ AllocateFails \/ WriteTemp \/ WriteMeta \/ MovePayload
Disturbance ==
  \/ IOError \/ Crash
  \/ \E x \in Entry : Drop(x) \/ Drift(x)
  \/ \E x \in Id : Take(x)

RootNext == Acquire \/ Recovering \/ Release \/ Disturbance
RootSpec == RootInit /\ [][RootNext]_rootVars

-----------------------------------------------------------------------------
(* Properties *)

RootTypeOK ==
  /\ place \in [Id -> {"unused", "root", "gone"} \union Container]
  /\ node \in [Entry -> Node]
  /\ inside \in [Container -> SUBSET {"temp", "META"}]
  /\ meta \in [Container -> Id \union {None}]
  /\ pass \in Pass
  /\ faults \in 0..MaxFaults

\* Quarantined evidence stays readable whatever is killed (ADR-0006 section 2:
\* the original name is in META, the entry is the payload): a container holds
\* at most one entry, its META is there and names it, and no journal and no
\* unknown directory is ever moved into one.
EvidenceIsNamed ==
  \A c \in Container : Holds(c) # {} =>
    /\ inside[c] = {"META"} /\ Holds(c) = {meta[c]}
    /\ IsDir(meta[c]) => meta[c] \in Container

\* A directory that is neither a journal nor a container.
Foreign(x) == InRoot(x) /\ x \in Entry /\ node[x].prefix = "other" /\ node[x].dir

\* Recover deletes nothing but journals it is done with, and touches no
\* journal while an unknown directory lies beside it (ADR-0006 section 1):
\* strays are moved under their name, only building and completed directories
\* disappear, only a journal that loads is finalized.
EvidenceIsKept ==
  [][faults' = faults =>
       \A x \in Entry : InRoot(x) /\ <<place[x], node[x]>>' # <<place[x], node[x]>> =>
         \/ ~node[x].dir /\ place'[x] \in Container /\ meta[place'[x]] = x
         \/ /\ node[x].dir
            /\ \/ node[x].prefix \in {"building", "completed"}
               \/ node[x].prefix = "pending" /\ node[x].loads /\ InRoot(x)'
            /\ pass.calm => \A y \in Entry : ~Foreign(y)]_rootVars
=============================================================================
