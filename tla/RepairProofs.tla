---------------------------- MODULE RepairProofs ----------------------------
(***************************************************************************)
(* Proofs about Repair and the transaction root below it: evidence keeps     *)
(* its name and is never lost, a confirmed plan is never refused, and the    *)
(* manifest and its backup are never lost together.                          *)
(***************************************************************************)
EXTENDS Repair, FiniteSetTheorems, TLAPS

Moving == {"alloc", "temp", "meta", "move"}
Boxing == {"temp", "meta", "move"}
Cleaning == {"count", "clean", "load"}

\* A container nobody has made holds nothing.
Boxed == \A c \in Container : place[c] = "unused" => Holds(c) = {}

\* What is moved is a stray, a container that is debris included.
Carried ==
  pass.pc \in Moving =>
    pass.cur \in Id /\ (IsDir(pass.cur) => pass.cur \in Container) /\ pass.back \in Buckets

\* Its container is empty until META names it.
InBox ==
  pass.pc \in Boxing =>
    pass.box \in Container /\ place[pass.box] = "root" /\ Holds(pass.box) = {}
Labelled == pass.pc = "move" => inside[pass.box] = {"META"} /\ meta[pass.box] = pass.cur

\* What the pass has taken for a journal is a directory.
Journals == \A x \in pass.kept \cap Entry : node[x].dir

\* Undisturbed, the pass knows of every unknown directory until it has looked at
\* all of them, and there is none once it goes on.
Looking == pass.pc = "unknown" \/ (pass.pc \in Moving /\ pass.back = "unknown")
Beyond == pass.pc \in Known \union Cleaning \/ (pass.pc \in Moving /\ pass.back \in Known)
Guarded ==
  pass.calm => \A y \in Entry : Foreign(y) =>
    ~Beyond /\ (Looking => y \in pass.found["unknown"] \union pass.refused)

RootInv ==
  /\ RootTypeOK /\ Boxed /\ EvidenceIsNamed
  /\ Carried /\ InBox /\ Labelled /\ Journals /\ Guarded

-----------------------------------------------------------------------------
(* The control of a pass *)

LEMMA EndFacts ==
  ASSUME pass \in Pass, NEW r \in {"none", "ok", "refused", "error"}, End(r)
  PROVE  /\ pass' \in Pass /\ pass'.pc = "idle" /\ pass'.result = r
         /\ pass'.calm = pass.calm /\ pass'.mode = pass.mode /\ pass'.kept = pass.kept
         /\ pass'.refused = pass.refused /\ pass'.found = pass.found
BY DEF Pass, End

LEMMA StoppedFacts ==
  ASSUME pass \in Pass, Stopped
  PROVE  /\ pass' \in Pass /\ pass'.pc = "idle" /\ pass'.result = "error"
         /\ pass'.calm = FALSE /\ pass'.mode = pass.mode /\ pass'.kept = pass.kept
BY DEF Pass, Stopped

LEMMA DisturbedFacts ==
  ASSUME pass \in Pass, Disturbed
  PROVE  /\ pass' \in Pass /\ pass'.calm = FALSE
         /\ pass'.pc = pass.pc /\ pass'.back = pass.back /\ pass'.cur = pass.cur
         /\ pass'.box = pass.box /\ pass'.kept = pass.kept /\ pass'.mode = pass.mode
         /\ pass'.found = pass.found /\ pass'.refused = pass.refused /\ pass'.result = pass.result
BY DEF Pass, Disturbed

Steps == Buckets \union {"idle", "count", "clean", "load", "ready", "alloc", "temp", "meta", "move",
                    "save", "restore"}

LEMMA GotoFacts ==
  ASSUME pass \in Pass, NEW s \in Steps, Goto(s)
  PROVE  /\ pass' \in Pass /\ pass'.pc = s
         /\ pass'.back = pass.back /\ pass'.cur = pass.cur /\ pass'.box = pass.box
         /\ pass'.kept = pass.kept /\ pass'.found = pass.found /\ pass'.refused = pass.refused
         /\ pass'.calm = pass.calm /\ pass'.mode = pass.mode /\ pass'.result = pass.result
BY DEF Pass, Goto, Steps

LEMMA CallFacts ==
  ASSUME pass \in Pass, NEW m \in {"command", "repair"}, Call(m)
  PROVE  /\ pass' \in Pass /\ pass'.pc = "unknown" /\ pass'.found = Inspect
         /\ pass'.kept = {} /\ pass'.refused = {} /\ pass'.mode = m
         /\ pass'.result = "none" /\ pass'.calm = TRUE
<1>1. Inspect \in [Buckets -> SUBSET Id]
  BY DEF Inspect
<1> QED
  BY <1>1 DEF Pass, Call, Buckets

-----------------------------------------------------------------------------
(* The steps of recovery *)

Resting == {"idle", "ready", "save", "restore"}

\* A step that leaves the evidence alone keeps what only depends on it.
LEMMA Frame ==
  ASSUME RootInv, UNCHANGED evidence, pass' \in Pass, faults' \in 0..MaxFaults
  PROVE  RootTypeOK' /\ Boxed' /\ EvidenceIsNamed'
BY DEF RootInv, evidence, RootTypeOK, Boxed, EvidenceIsNamed, Holds, IsDir

\* A pass that rests makes no claims but the one on its journals.
LEMMA Rests ==
  ASSUME RootInv, UNCHANGED evidence, pass' \in Pass, faults' \in 0..MaxFaults,
         pass'.pc \in Resting, pass'.kept \subseteq pass.kept
  PROVE  RootInv'
<1>1. RootTypeOK' /\ Boxed' /\ EvidenceIsNamed'
  BY Frame
<1>2. Carried' /\ InBox' /\ Labelled'
  BY DEF Carried, InBox, Labelled, Resting, Moving, Boxing
<1>3. Journals'
  BY DEF RootInv, Journals, evidence
<1>4. Guarded'
  BY DEF Guarded, Looking, Beyond, Resting, Moving, Cleaning, Known
<1> QED
  BY <1>1, <1>2, <1>3, <1>4 DEF RootInv

LEMMA Ends ==
  ASSUME RootInv, NEW r \in {"none", "ok", "refused", "error"}, End(r), UNCHANGED <<evidence, faults>>
  PROVE  RootInv'
<1>1. pass \in Pass /\ faults \in 0..MaxFaults
  BY DEF RootInv, RootTypeOK
<1> QED
  BY <1>1, EndFacts, Rests DEF Resting

LEMMA Calls ==
  ASSUME RootInv, NEW m \in {"command", "repair"}, Call(m), UNCHANGED <<evidence, faults>>
  PROVE  RootInv'
<1>1. pass \in Pass /\ faults \in 0..MaxFaults
  BY DEF RootInv, RootTypeOK
<1>2. /\ pass' \in Pass /\ pass'.pc = "unknown" /\ pass'.found = Inspect
      /\ pass'.kept = {} /\ pass'.refused = {}
  BY <1>1, CallFacts
<1>3. RootTypeOK' /\ Boxed' /\ EvidenceIsNamed'
  BY <1>1, <1>2, Frame
<1>4. Carried' /\ InBox' /\ Labelled' /\ Journals'
  BY <1>2 DEF Carried, InBox, Labelled, Journals, Moving, Boxing
<1>5. \A y \in Entry : Foreign(y) => y \in Inspect["unknown"]
  BY DEF Foreign, Inspect, Bucket, Buckets, Id, InRoot
<1>6. Guarded'
  BY <1>2, <1>5 DEF Guarded, Foreign, InRoot, evidence, Looking, Beyond, Moving, Cleaning, Known
<1> QED
  BY <1>3, <1>4, <1>6 DEF RootInv

LEMMA TakesGone ==
  ASSUME RootInv, NEW b \in Buckets, NEW x \in Id, TakeGone(b, x)
  PROVE  RootInv'
BY Ends DEF TakeGone

\* What the pass knows when it moves on by one entry.
LEMMA Taken ==
  ASSUME pass \in Pass, NEW b \in Buckets, NEW x \in Id, At(b, x)
  PROVE  /\ pass.found[b] \subseteq Id /\ Without(b, x) \in [Buckets -> SUBSET Id]
         /\ Without(b, x)[b] = pass.found[b] \ {x}
         /\ \A a \in Buckets : a # b => Without(b, x)[a] = pass.found[a]
BY DEF Pass, At, Without

LEMMA TakesStray ==
  ASSUME RootInv, NEW b \in Buckets, NEW x \in Id, TakeStray(b, x)
  PROVE  RootInv'
<1>1. pass \in Pass /\ faults \in 0..MaxFaults
  BY DEF RootInv, RootTypeOK
<1>2. /\ pass' \in Pass /\ pass'.pc = "alloc" /\ pass'.cur = x /\ pass'.back = b
      /\ pass'.found = Without(b, x) /\ pass'.kept = pass.kept
      /\ pass'.refused = pass.refused /\ pass'.calm = pass.calm
  BY <1>1, Taken DEF TakeStray, Pass
<1>3. UNCHANGED <<evidence, faults>>
  BY DEF TakeStray
<1>4. RootTypeOK' /\ Boxed' /\ EvidenceIsNamed'
  BY <1>1, <1>2, <1>3, Frame
<1>5. IsDir(x) => x \in Container
  BY DEF TakeStray, Residue
<1>6. Carried' /\ InBox' /\ Labelled'
  BY <1>2, <1>3, <1>5 DEF Carried, InBox, Labelled, Moving, Boxing, IsDir, evidence
<1>7. Journals'
  BY <1>2, <1>3 DEF RootInv, Journals, evidence
<1>8. ~Foreign(x)
  BY <1>5, TxRootAssumption DEF Foreign, IsDir
<1>9. Guarded'
  <2>1. SUFFICES ASSUME pass'.calm, NEW y \in Entry, Foreign(y)'
                 PROVE  ~Beyond' /\ (Looking' => y \in pass'.found["unknown"] \union pass'.refused)
    BY DEF Guarded
  <2>2. Foreign(y) /\ y # x
    BY <1>3, <1>8, <2>1 DEF Foreign, InRoot, evidence
  <2>3. pass.pc = b
    BY DEF TakeStray, At
  <2>4. ~Beyond /\ (Looking => y \in pass.found["unknown"] \union pass.refused)
    BY <1>2, <2>1, <2>2 DEF RootInv, Guarded
  <2>5. b = "unknown"
    BY <2>3, <2>4 DEF Beyond, Buckets
  <2> QED
    BY <1>1, <1>2, <2>2, <2>3, <2>4, <2>5, Taken DEF Beyond, Looking, Moving, Cleaning, Known, TakeStray
<1> QED
  BY <1>4, <1>6, <1>7, <1>9 DEF RootInv

LEMMA TakesUnknown ==
  ASSUME RootInv, NEW x \in Id, TakeUnknown(x)
  PROVE  RootInv'
<1>1. pass \in Pass /\ faults \in 0..MaxFaults
  BY DEF RootInv, RootTypeOK
<1>2. /\ pass' \in Pass /\ pass'.pc = "unknown" /\ pass.pc = "unknown"
      /\ pass'.found = Without("unknown", x) /\ pass'.kept = pass.kept
      /\ pass'.refused = pass.refused \union {x} /\ pass'.calm = pass.calm
  BY <1>1, Taken DEF TakeUnknown, Pass, Buckets, At
<1>3. UNCHANGED <<evidence, faults>>
  BY DEF TakeUnknown
<1>4. RootTypeOK' /\ Boxed' /\ EvidenceIsNamed'
  BY <1>1, <1>2, <1>3, Frame
<1>5. Carried' /\ InBox' /\ Labelled'
  BY <1>2 DEF Carried, InBox, Labelled, Moving, Boxing
<1>6. Journals'
  BY <1>2, <1>3 DEF RootInv, Journals, evidence
<1>7. pass'.found["unknown"] = pass.found["unknown"] \ {x}
  BY <1>1, <1>2, Taken DEF TakeUnknown, Buckets
<1>8. Guarded'
  BY <1>2, <1>3, <1>7 DEF RootInv, Guarded, Foreign, InRoot, evidence, Beyond, Looking, Moving, Cleaning, Known
<1> QED
  BY <1>4, <1>5, <1>6, <1>8 DEF RootInv

LEMMA TakesJournal ==
  ASSUME RootInv, NEW b \in Buckets, NEW x \in Id, TakeJournal(b, x)
  PROVE  RootInv'
<1>1. pass \in Pass /\ faults \in 0..MaxFaults
  BY DEF RootInv, RootTypeOK
<1>2. /\ pass' \in Pass /\ pass'.pc = b /\ pass.pc = b /\ b \in Known
      /\ pass'.found = Without(b, x) /\ pass'.kept = pass.kept \union {x}
      /\ pass'.calm = pass.calm
  BY <1>1, Taken DEF TakeJournal, Pass, Buckets, At
<1>3. UNCHANGED <<evidence, faults>>
  BY DEF TakeJournal
<1>4. RootTypeOK' /\ Boxed' /\ EvidenceIsNamed'
  BY <1>1, <1>2, <1>3, Frame
<1>5. Carried' /\ InBox' /\ Labelled'
  BY <1>2 DEF Carried, InBox, Labelled, Moving, Boxing, Known
<1>6. Journals'
  BY <1>2, <1>3, TxRootAssumption DEF RootInv, Journals, evidence, TakeJournal, IsDir
<1>7. Guarded'
  BY <1>2, <1>3 DEF RootInv, Guarded, Foreign, InRoot, evidence, Beyond, Looking, Moving, Cleaning, Known
<1> QED
  BY <1>4, <1>5, <1>6, <1>7 DEF RootInv

LEMMA GoesOn ==
  ASSUME RootInv, NEW s \in Steps, Goto(s), UNCHANGED <<evidence, faults>>,
         s \in Known \union Cleaning \union Resting,
         pass.calm => \A y \in Entry : ~Foreign(y)
  PROVE  RootInv'
<1>1. pass \in Pass /\ faults \in 0..MaxFaults
  BY DEF RootInv, RootTypeOK
<1>2. /\ pass' \in Pass /\ pass'.pc = s /\ pass'.kept = pass.kept /\ pass'.calm = pass.calm
  BY <1>1, GotoFacts
<1>3. RootTypeOK' /\ Boxed' /\ EvidenceIsNamed'
  BY <1>1, <1>2, Frame
<1>4. Carried' /\ InBox' /\ Labelled'
  BY <1>2 DEF Carried, InBox, Labelled, Moving, Boxing, Known, Cleaning, Resting
<1>5. Journals'
  BY <1>2 DEF RootInv, Journals, evidence
<1>6. Guarded'
  BY <1>2 DEF Guarded, Foreign, InRoot, evidence
<1> QED
  BY <1>3, <1>4, <1>5, <1>6 DEF RootInv

LEMMA LoopEnds ==
  ASSUME RootInv, NEW b \in Buckets, LoopDone(b)
  PROVE  RootInv'
<1>1. UNCHANGED <<evidence, faults>> /\ pass.pc = b /\ pass.found[b] = {}
  BY DEF LoopDone
<1>2. CASE End("refused")
  BY <1>1, <1>2, Ends
<1>3. CASE Goto(Following[b]) /\ (b = "unknown" => pass.refused = {})
  <2>1. Following[b] \in {"building", "completed", "pending", "count"}
    BY DEF Following, Buckets, Known
  <2>2. Following[b] \in Steps /\ Following[b] \in Known \union Cleaning \union Resting
    BY <2>1 DEF Steps, Buckets, Known, Cleaning
  <2>3. pass.calm => \A y \in Entry : ~Foreign(y)
    BY <1>1, <1>3 DEF RootInv, Guarded, Looking, Beyond, Buckets
  <2> QED
    BY <1>1, <1>3, <2>2, <2>3, GoesOn
<1> QED
  BY <1>2, <1>3 DEF LoopDone

LEMMA Counts ==
  ASSUME RootInv, CountPending
  PROVE  RootInv'
<1>1. UNCHANGED <<evidence, faults>> /\ pass.pc = "count"
  BY DEF CountPending
<1>2. CASE End("refused")
  BY <1>1, <1>2, Ends
<1>3. CASE Goto("clean")
  <2>1. "clean" \in Steps /\ "clean" \in Cleaning
    BY DEF Steps, Cleaning
  <2>2. pass.calm => \A y \in Entry : ~Foreign(y)
    BY <1>1 DEF RootInv, Guarded, Beyond, Cleaning
  <2> QED
    BY <1>1, <1>3, <2>1, <2>2, GoesOn
<1> QED
  BY <1>2, <1>3 DEF CountPending

LEMMA CleansDone ==
  ASSUME RootInv, CleanDone
  PROVE  RootInv'
<1>1. UNCHANGED <<evidence, faults>> /\ pass.pc = "clean" /\ pass \in Pass /\ faults \in 0..MaxFaults
  BY DEF CleanDone, RootInv, RootTypeOK
<1>2. CASE pass' = [pass EXCEPT !.pc = "ready", !.result = "ok"]
  <2>1. pass' \in Pass /\ pass'.pc = "ready" /\ pass'.kept = pass.kept
    BY <1>1, <1>2 DEF Pass
  <2> QED
    BY <1>1, <2>1, Rests DEF Resting
<1>3. CASE Goto("load")
  <2>1. "load" \in Steps /\ "load" \in Cleaning
    BY DEF Steps, Cleaning
  <2>2. pass.calm => \A y \in Entry : ~Foreign(y)
    BY <1>1 DEF RootInv, Guarded, Beyond, Cleaning
  <2> QED
    BY <1>1, <1>3, <2>1, <2>2, GoesOn
<1> QED
  BY <1>2, <1>3 DEF CleanDone

\* A step in which an entry of the root may leave it, or change its name, keeps
\* what is said of the containers.
LEMMA Keeps ==
  ASSUME RootInv, pass' \in Pass, faults' \in 0..MaxFaults,
         UNCHANGED <<inside, meta>>, node' \in [Entry -> Node],
         \A x \in Entry : node'[x].dir = node[x].dir,
         place' \in [Id -> {"unused", "root", "gone"} \union Container],
         \A x \in Id : place'[x] = place[x] \/ (place[x] \in {"unused", "root"} /\ place'[x] \in {"root", "gone"}),
         \A c \in Container : place'[c] = "unused" => place[c] = "unused"
  PROVE  RootTypeOK' /\ Boxed' /\ EvidenceIsNamed' /\ (\A c \in Container : Holds(c)' = Holds(c))
<1>1. \A c \in Container : Holds(c)' = Holds(c)
  <2> SUFFICES ASSUME NEW c \in Container, NEW x \in Id
               PROVE  place'[x] = c <=> place[x] = c
    BY DEF Holds
  <2>1. c \notin {"unused", "root", "gone"}
    BY TxRootAssumption
  <2> QED
    BY <2>1
<1>2. RootTypeOK'
  BY DEF RootInv, RootTypeOK
<1>3. Boxed'
  BY <1>1 DEF RootInv, Boxed
<1>4. EvidenceIsNamed'
  BY <1>1 DEF RootInv, EvidenceIsNamed, IsDir
<1> QED
  BY <1>1, <1>2, <1>3, <1>4

LEMMA CleansJournal ==
  ASSUME RootInv, NEW x \in Entry, CleanJournal(x)
  PROVE  RootInv'
<1>1. pass \in Pass /\ faults \in 0..MaxFaults /\ place \in [Id -> {"unused", "root", "gone"} \union Container]
  BY DEF RootInv, RootTypeOK
<1>2. CASE End("error") /\ UNCHANGED place
  BY <1>2, Ends DEF CleanJournal, evidence
<1>3. CASE /\ InRoot(x)
           /\ place' = [place EXCEPT ![x] = "gone"]
           /\ pass' = [pass EXCEPT !.kept = @ \ {x}]
  <2>1. pass' \in Pass /\ pass'.pc = "clean" /\ pass'.kept = pass.kept \ {x} /\ pass'.calm = pass.calm
    BY <1>1, <1>3 DEF Pass, CleanJournal
  <2>2. UNCHANGED <<inside, meta, node, faults>> /\ pass.pc = "clean"
    BY DEF CleanJournal
  <2>3. \A y \in Id : place'[y] = IF y = x THEN "gone" ELSE place[y]
    BY <1>1, <1>3
  <2>4. RootTypeOK' /\ Boxed' /\ EvidenceIsNamed'
    <3>1. node \in [Entry -> Node]
      BY DEF RootInv, RootTypeOK
    <3> QED
      BY <1>1, <1>3, <2>1, <2>2, <2>3, <3>1, Keeps DEF Id, InRoot
  <2>5. Carried' /\ InBox' /\ Labelled'
    BY <2>1 DEF Carried, InBox, Labelled, Moving, Boxing
  <2>6. Journals'
    BY <2>1, <2>2 DEF RootInv, Journals
  <2>7. Guarded'
    BY <2>1, <2>2, <2>3 DEF RootInv, Guarded, Foreign, InRoot, Beyond, Cleaning, Id
  <2> QED
    BY <2>4, <2>5, <2>6, <2>7 DEF RootInv
<1> QED
  BY <1>2, <1>3 DEF CleanJournal

LEMMA Loads ==
  ASSUME RootInv, NEW x \in Entry, LoadPending(x)
  PROVE  RootInv'
<1>1. pass \in Pass /\ faults \in 0..MaxFaults /\ node \in [Entry -> Node]
      /\ place \in [Id -> {"unused", "root", "gone"} \union Container]
  BY DEF RootInv, RootTypeOK
<1>2. CASE End("refused") /\ UNCHANGED node
  BY <1>2, Ends DEF LoadPending, evidence
<1>3. CASE /\ InRoot(x) /\ node[x].loads
           /\ node' = [node EXCEPT ![x].prefix = "completed", ![x].loads = FALSE]
           /\ Goto("clean")
  <2>1. pass' \in Pass /\ pass'.pc = "clean" /\ pass'.kept = pass.kept /\ pass'.calm = pass.calm
    BY <1>1, <1>3, GotoFacts DEF Steps
  <2>2. UNCHANGED <<inside, meta, place, faults>> /\ pass.pc = "load"
    BY DEF LoadPending
  <2>3. /\ node' \in [Entry -> Node]
        /\ \A y \in Entry : node'[y].dir = node[y].dir
        /\ \A y \in Entry : y # x => node'[y] = node[y]
        /\ node'[x].prefix = "completed"
    BY <1>1, <1>3 DEF Node, Known
  <2>4. RootTypeOK' /\ Boxed' /\ EvidenceIsNamed'
    BY <1>1, <2>1, <2>2, <2>3, Keeps
  <2>5. Carried' /\ InBox' /\ Labelled'
    BY <2>1 DEF Carried, InBox, Labelled, Moving, Boxing
  <2>6. Journals'
    BY <2>1, <2>3 DEF RootInv, Journals
  <2>7. Guarded'
    BY <2>1, <2>2, <2>3 DEF RootInv, Guarded, Foreign, InRoot, Beyond, Cleaning
  <2> QED
    BY <2>4, <2>5, <2>6, <2>7 DEF RootInv
<1> QED
  BY <1>2, <1>3 DEF LoadPending

LEMMA Allocates ==
  ASSUME RootInv, AllocateContainer
  PROVE  RootInv'
<1>1. pass \in Pass /\ faults \in 0..MaxFaults /\ node \in [Entry -> Node]
      /\ place \in [Id -> {"unused", "root", "gone"} \union Container]
  BY DEF RootInv, RootTypeOK
<1>2. NewName \in Container /\ place[NewName] = "unused"
  BY DEF AllocateContainer, NewName
<1>3. /\ pass' \in Pass /\ pass'.pc = "temp" /\ pass.pc = "alloc" /\ pass'.box = NewName
      /\ pass'.cur = pass.cur /\ pass'.back = pass.back /\ pass'.kept = pass.kept
      /\ pass'.found = pass.found /\ pass'.refused = pass.refused /\ pass'.calm = pass.calm
  BY <1>1, <1>2 DEF Pass, AllocateContainer
<1>4. UNCHANGED <<node, inside, meta, faults>>
  BY DEF AllocateContainer
<1>5. \A y \in Id : place'[y] = IF y = NewName THEN "root" ELSE place[y]
  BY <1>1, <1>2 DEF AllocateContainer, Id
<1>6. place' \in [Id -> {"unused", "root", "gone"} \union Container]
  BY <1>1 DEF AllocateContainer
<1>7. RootTypeOK' /\ Boxed' /\ EvidenceIsNamed' /\ \A c \in Container : Holds(c)' = Holds(c)
  BY <1>1, <1>2, <1>3, <1>4, <1>5, <1>6, Keeps DEF Id
<1>8. Carried'
  BY <1>3, <1>4 DEF RootInv, Carried, Moving, IsDir
<1>9. InBox' /\ Labelled'
  BY <1>2, <1>3, <1>5, <1>7 DEF RootInv, InBox, Labelled, Boxed, Id
<1>10. Journals'
  BY <1>3, <1>4 DEF RootInv, Journals
<1>11. Guarded'
  BY <1>2, <1>3, <1>4, <1>5, TxRootAssumption
  DEF RootInv, Guarded, Foreign, InRoot, Beyond, Looking, Moving, Cleaning, Known, Id
<1> QED
  BY <1>7, <1>8, <1>9, <1>10, <1>11 DEF RootInv

\* Members of the container that is being filled change; it holds nothing yet.
LEMMA Fills ==
  ASSUME RootInv, pass.pc \in Boxing, pass' \in Pass, faults' \in 0..MaxFaults,
         UNCHANGED <<place, node>>,
         inside' \in [Container -> SUBSET {"temp", "META"}],
         meta' \in [Container -> Id \union {None}],
         \A c \in Container : c # pass.box => inside'[c] = inside[c] /\ meta'[c] = meta[c]
  PROVE  RootTypeOK' /\ Boxed' /\ EvidenceIsNamed'
<1>1. \A c \in Container : Holds(c)' = Holds(c)
  BY DEF Holds
<1>2. RootTypeOK'
  BY DEF RootInv, RootTypeOK
<1>3. Boxed'
  BY <1>1 DEF RootInv, Boxed
<1>4. Holds(pass.box) = {} /\ pass.box \in Container
  BY DEF RootInv, InBox
<1>5. EvidenceIsNamed'
  BY <1>1, <1>4 DEF RootInv, EvidenceIsNamed, IsDir
<1> QED
  BY <1>2, <1>3, <1>5

LEMMA WritesTemp ==
  ASSUME RootInv, WriteTemp
  PROVE  RootInv'
<1>1. /\ pass \in Pass /\ faults \in 0..MaxFaults /\ pass.pc = "temp"
      /\ inside \in [Container -> SUBSET {"temp", "META"}] /\ meta \in [Container -> Id \union {None}]
  BY DEF RootInv, RootTypeOK, WriteTemp
<1>2. /\ pass' \in Pass /\ pass'.pc = "meta" /\ pass'.box = pass.box
      /\ pass'.cur = pass.cur /\ pass'.back = pass.back /\ pass'.kept = pass.kept
      /\ pass'.found = pass.found /\ pass'.refused = pass.refused /\ pass'.calm = pass.calm
  BY <1>1, GotoFacts DEF WriteTemp, Steps
<1>3. UNCHANGED <<place, node, meta, faults>>
  BY DEF WriteTemp
<1>4. RootTypeOK' /\ Boxed' /\ EvidenceIsNamed'
  BY <1>1, <1>2, <1>3, Fills DEF WriteTemp, Boxing
<1>5. Carried' /\ InBox' /\ Labelled'
  BY <1>1, <1>2, <1>3 DEF RootInv, Carried, InBox, Labelled, Moving, Boxing, IsDir, Holds
<1>6. Journals' /\ Guarded'
  BY <1>1, <1>2, <1>3 DEF RootInv, Journals, Guarded, Foreign, InRoot, Beyond, Looking, Moving, Cleaning, Known
<1> QED
  BY <1>4, <1>5, <1>6 DEF RootInv

LEMMA WritesMeta ==
  ASSUME RootInv, WriteMeta
  PROVE  RootInv'
<1>1. /\ pass \in Pass /\ faults \in 0..MaxFaults /\ pass.pc = "meta"
      /\ inside \in [Container -> SUBSET {"temp", "META"}] /\ meta \in [Container -> Id \union {None}]
      /\ pass.box \in Container /\ pass.cur \in Id
  BY DEF RootInv, RootTypeOK, WriteMeta, InBox, Carried, Boxing, Moving
<1>2. /\ pass' \in Pass /\ pass'.pc = "move" /\ pass'.box = pass.box
      /\ pass'.cur = pass.cur /\ pass'.back = pass.back /\ pass'.kept = pass.kept
      /\ pass'.found = pass.found /\ pass'.refused = pass.refused /\ pass'.calm = pass.calm
  BY <1>1, GotoFacts DEF WriteMeta, Steps
<1>3. UNCHANGED <<place, node, faults>>
  BY DEF WriteMeta
<1>4. RootTypeOK' /\ Boxed' /\ EvidenceIsNamed'
  BY <1>1, <1>2, <1>3, Fills DEF WriteMeta, Boxing
<1>5. Carried' /\ InBox'
  BY <1>1, <1>2, <1>3 DEF RootInv, Carried, InBox, Moving, Boxing, IsDir, Holds
<1>6. Labelled'
  BY <1>1, <1>2 DEF Labelled, WriteMeta
<1>7. Journals' /\ Guarded'
  BY <1>1, <1>2, <1>3 DEF RootInv, Journals, Guarded, Foreign, InRoot, Beyond, Looking, Moving, Cleaning, Known
<1> QED
  BY <1>4, <1>5, <1>6, <1>7 DEF RootInv

\* The move, with META durable before it.
LEMMA MovesPayload ==
  ASSUME RootInv, MovePayload
  PROVE  RootInv'
<1>1. /\ pass \in Pass /\ faults \in 0..MaxFaults /\ pass.pc = "move"
      /\ place \in [Id -> {"unused", "root", "gone"} \union Container]
      /\ pass.box \in Container /\ pass.cur \in Id /\ pass.back \in Buckets
      /\ IsDir(pass.cur) => pass.cur \in Container
      /\ Holds(pass.box) = {} /\ inside[pass.box] = {"META"} /\ meta[pass.box] = pass.cur
  BY DEF RootInv, RootTypeOK, MovePayload, InBox, Carried, Labelled, Boxing, Moving
<1>2. CASE End("error") /\ UNCHANGED place
  BY <1>2, Ends DEF MovePayload, evidence
<1>3. CASE /\ InRoot(pass.cur)
           /\ place' = [place EXCEPT ![pass.cur] = pass.box]
           /\ pass' = [pass EXCEPT !.pc = pass.back, !.cur = None, !.box = None]
  <2>1. /\ pass' \in Pass /\ pass'.pc = pass.back /\ pass'.kept = pass.kept
        /\ pass'.found = pass.found /\ pass'.refused = pass.refused /\ pass'.calm = pass.calm
    BY <1>1, <1>3 DEF Pass
  <2>2. UNCHANGED <<node, inside, meta, faults>>
    BY DEF MovePayload
  <2>3. \A y \in Id : place'[y] = IF y = pass.cur THEN pass.box ELSE place[y]
    BY <1>1, <1>3
  <2>4. pass.box \notin {"unused", "root", "gone"} /\ place[pass.cur] = "root"
    BY <1>1, <1>3, TxRootAssumption DEF InRoot
  <2>5. \A c \in Container : Holds(c)' = IF c = pass.box THEN {pass.cur} ELSE Holds(c)
    <3> SUFFICES ASSUME NEW c \in Container
                 PROVE  Holds(c)' = IF c = pass.box THEN {pass.cur} ELSE Holds(c)
      OBVIOUS
    <3>1. c # "root"
      BY TxRootAssumption
    <3> QED
      BY <1>1, <2>3, <2>4, <3>1 DEF Holds
  <2>6. RootTypeOK'
    BY <1>1, <1>3, <2>1, <2>2 DEF RootInv, RootTypeOK
  <2>7. Boxed'
    BY <1>1, <2>3, <2>4, <2>5 DEF RootInv, Boxed, InBox, Boxing, Id
  <2>8. EvidenceIsNamed'
    BY <1>1, <2>2, <2>5 DEF RootInv, EvidenceIsNamed, IsDir
  <2>9. Carried' /\ InBox' /\ Labelled'
    BY <1>1, <2>1 DEF Carried, InBox, Labelled, Moving, Boxing, Buckets, Known
  <2>10. Journals'
    BY <2>1, <2>2 DEF RootInv, Journals
  <2>11. \A y \in Entry : Foreign(y)' => Foreign(y)
    BY <2>2, <2>3, <2>4 DEF Foreign, InRoot, Id
  <2>12. Guarded'
    BY <1>1, <2>1, <2>11 DEF RootInv, Guarded, Beyond, Looking, Moving, Cleaning, Known, Buckets
  <2> QED
    BY <2>6, <2>7, <2>8, <2>9, <2>10, <2>12 DEF RootInv
<1> QED
  BY <1>2, <1>3 DEF MovePayload

-----------------------------------------------------------------------------
(* Faults, and other programs *)

LEMMA Faulted ==
  ASSUME RootInv, Fault
  PROVE  faults' \in 0..MaxFaults
BY TxRootAssumption DEF RootInv, RootTypeOK, Fault

LEMMA FailsIO ==
  ASSUME RootInv, IOError
  PROVE  RootInv'
<1>1. pass \in Pass /\ inside \in [Container -> SUBSET {"temp", "META"}] /\ meta \in [Container -> Id \union {None}]
  BY DEF RootInv, RootTypeOK
<1>2. faults' \in 0..MaxFaults
  BY Faulted DEF IOError
<1>3. pass' \in Pass /\ pass'.pc = "idle" /\ pass'.kept = pass.kept
  BY <1>1, StoppedFacts DEF IOError
<1>4. CASE pass.pc # "meta"
  BY <1>2, <1>3, <1>4, Rests DEF IOError, Resting, evidence
<1>5. CASE pass.pc = "meta"
  <2>1. UNCHANGED <<place, node, meta>> /\ inside' = [inside EXCEPT ![pass.box] = {}]
    BY <1>5 DEF IOError
  <2>2. RootTypeOK' /\ Boxed' /\ EvidenceIsNamed'
    BY <1>1, <1>2, <1>3, <1>5, <2>1, Fills DEF Boxing
  <2>3. Carried' /\ InBox' /\ Labelled'
    BY <1>3 DEF Carried, InBox, Labelled, Moving, Boxing
  <2>4. Journals' /\ Guarded'
    BY <1>3, <2>1 DEF RootInv, Journals, Guarded, Looking, Beyond, Moving, Cleaning, Known
  <2> QED
    BY <2>2, <2>3, <2>4 DEF RootInv
<1> QED
  BY <1>4, <1>5

LEMMA Crashes ==
  ASSUME RootInv, Crash
  PROVE  RootInv'
<1>1. pass \in Pass /\ faults' \in 0..MaxFaults
  BY Faulted DEF RootInv, RootTypeOK, Crash
<1> QED
  BY <1>1, StoppedFacts, Rests DEF Crash, Resting

\* Another program touches entries of the root but the container in use.
LEMMA Meddles ==
  ASSUME RootInv, Disturbed, faults' \in 0..MaxFaults,
         UNCHANGED <<inside, meta>>, node' \in [Entry -> Node],
         \A x \in Entry : node'[x].dir = node[x].dir,
         place' \in [Id -> {"unused", "root", "gone"} \union Container],
         \A x \in Id : place'[x] = place[x] \/ (place[x] \in {"unused", "root"} /\ place'[x] \in {"root", "gone"}),
         \A c \in Container : place'[c] = "unused" => place[c] = "unused",
         pass.pc \in Boxing => place'[pass.box] = place[pass.box]
  PROVE  RootInv'
<1>1. pass \in Pass
  BY DEF RootInv, RootTypeOK
<1>2. /\ pass' \in Pass /\ pass'.calm = FALSE
      /\ pass'.pc = pass.pc /\ pass'.back = pass.back /\ pass'.cur = pass.cur
      /\ pass'.box = pass.box /\ pass'.kept = pass.kept
  BY <1>1, DisturbedFacts
<1>3. RootTypeOK' /\ Boxed' /\ EvidenceIsNamed' /\ (\A c \in Container : Holds(c)' = Holds(c))
  BY <1>1, <1>2, Keeps
<1>4. Carried'
  BY <1>2 DEF RootInv, Carried, IsDir
<1>5. InBox' /\ Labelled'
  BY <1>2, <1>3 DEF RootInv, InBox, Labelled, Boxing
<1>6. Journals'
  BY <1>2 DEF RootInv, Journals
<1>7. Guarded'
  BY <1>2 DEF Guarded
<1> QED
  BY <1>3, <1>4, <1>5, <1>6, <1>7 DEF RootInv

LEMMA Drops ==
  ASSUME RootInv, NEW x \in Entry, Drop(x)
  PROVE  RootInv'
<1>1. place \in [Id -> {"unused", "root", "gone"} \union Container] /\ node \in [Entry -> Node]
  BY DEF RootInv, RootTypeOK
<1>2. faults' \in 0..MaxFaults
  BY Faulted DEF Drop
<1>3. \A y \in Id : place'[y] = IF y = x THEN "root" ELSE place[y]
  BY <1>1 DEF Drop, Id
<1>4. pass.pc \in Boxing => pass.box \in Container
  BY DEF RootInv, InBox
<1>5. x \notin Container
  BY TxRootAssumption
<1>6. place' \in [Id -> {"unused", "root", "gone"} \union Container]
  BY <1>1 DEF Drop
<1> QED
  BY <1>1, <1>2, <1>3, <1>4, <1>5, <1>6, Meddles DEF Drop, Id

LEMMA Takes ==
  ASSUME RootInv, NEW x \in Id, Take(x)
  PROVE  RootInv'
<1>1. place \in [Id -> {"unused", "root", "gone"} \union Container] /\ node \in [Entry -> Node]
  BY DEF RootInv, RootTypeOK
<1>2. faults' \in 0..MaxFaults
  BY Faulted DEF Take
<1>3. \A y \in Id : place'[y] = IF y = x THEN "gone" ELSE place[y]
  BY <1>1 DEF Take
<1>4. pass.pc \in Boxing => pass.box \in Id
  BY DEF RootInv, InBox, Id
<1>5. place' \in [Id -> {"unused", "root", "gone"} \union Container]
  BY <1>1 DEF Take
<1> QED
  BY <1>1, <1>2, <1>3, <1>4, <1>5, Meddles DEF Take, Id, InRoot

LEMMA Drifts ==
  ASSUME RootInv, NEW x \in Entry, Drift(x)
  PROVE  RootInv'
<1>1. place \in [Id -> {"unused", "root", "gone"} \union Container] /\ node \in [Entry -> Node]
  BY DEF RootInv, RootTypeOK
<1>2. faults' \in 0..MaxFaults
  BY Faulted DEF Drift
<1>3. node' \in [Entry -> Node] /\ \A y \in Entry : node'[y].dir = node[y].dir
  BY <1>1 DEF Drift, Node, Known
<1> QED
  BY <1>1, <1>2, <1>3, Meddles DEF Drift

-----------------------------------------------------------------------------
(* The commands around a pass *)

LEMMA RootSteps ==
  ASSUME RootInv, RootNext
  PROVE  RootInv'
<1>1. CASE Acquire
  BY <1>1, Calls DEF Acquire
<1>2. CASE Recovering
  BY <1>2, TakesGone, TakesStray, TakesJournal, TakesUnknown, LoopEnds, Counts, CleansDone, CleansJournal,
     Loads, Allocates, Ends, WritesTemp, WritesMeta, MovesPayload DEF Recovering, AllocateFails
<1>3. CASE Release
  BY <1>3, Ends DEF Release, RootInv, RootTypeOK, Pass
<1>4. CASE Disturbance
  BY <1>4, FailsIO, Crashes, Drops, Drifts, Takes DEF Disturbance
<1> QED
  BY <1>1, <1>2, <1>3, <1>4 DEF RootNext

LEMMA Restores ==
  ASSUME RootInv, UNCHANGED <<evidence, faults>>,
         pass' = [pass EXCEPT !.pc = "restore", !.mode = "repair", !.result = "none", !.calm = TRUE]
  PROVE  RootInv'
<1>1. pass \in Pass /\ faults \in 0..MaxFaults
  BY DEF RootInv, RootTypeOK
<1>2. pass' \in Pass /\ pass'.pc = "restore" /\ pass'.kept = pass.kept
  BY <1>1 DEF Pass
<1> QED
  BY <1>1, <1>2, Rests DEF Resting

LEMMA RepairSteps ==
  ASSUME RootInv, Repairing
  PROVE  RootInv'
<1>1. CASE \E a \in {"recover", "restore"} : BuildPlan(a)
  BY <1>1 DEF BuildPlan, rootVars, evidence, RootInv, RootTypeOK, Boxed, EvidenceIsNamed, Carried, InBox, Labelled,
     Journals, Guarded, Holds, IsDir, Foreign, InRoot, Looking, Beyond
<1>2. CASE DropPlan \/ \E p \in plan : ApplyStale(p)
  BY <1>2 DEF DropPlan, ApplyStale, rootVars, evidence, RootInv, RootTypeOK, Boxed, EvidenceIsNamed, Carried, InBox,
     Labelled, Journals, Guarded, Holds, IsDir, Foreign, InRoot, Looking, Beyond
<1>3. CASE \E p \in plan : Apply(p)
  BY <1>3, Calls, Restores DEF Apply
<1>4. CASE \E p \in plan : RestoreBackup(p)
  BY <1>4, Ends DEF RestoreBackup
<1> QED
  BY <1>1, <1>2, <1>3, <1>4 DEF Repairing

LEMMA InstallSteps ==
  ASSUME RootInv, Installing
  PROVE  RootInv'
<1>1. pass \in Pass /\ faults \in 0..MaxFaults
  BY DEF RootInv, RootTypeOK
<1>2. CASE \E e \in Versions : SaveBackup(e)
  BY <1>1, <1>2, GotoFacts, Rests DEF SaveBackup, Steps, Resting
<1>3. CASE \E e \in Versions : InstallFails(e)
  BY <1>3, Ends DEF InstallFails
<1>4. CASE \E s \in saving : SaveManifest(s)
  BY <1>4, Ends DEF SaveManifest
<1> QED
  BY <1>2, <1>3, <1>4 DEF Installing

LEMMA TamperSteps ==
  ASSUME RootInv, Tampering
  PROVE  RootInv'
<1>1. Fault /\ Disturbed /\ UNCHANGED evidence
  BY DEF Tampering, Tamper
<1>2. faults' \in 0..MaxFaults
  BY <1>1, Faulted
<1>3. node \in [Entry -> Node] /\ place \in [Id -> {"unused", "root", "gone"} \union Container]
  BY DEF RootInv, RootTypeOK
<1> QED
  BY <1>1, <1>2, <1>3, Meddles DEF evidence

LEMMA RootInitial == Init => RootInv
<1> SUFFICES ASSUME RootInit
             PROVE  RootInv
  BY DEF Init
<1>1. pass \in Pass /\ pass.pc = "idle" /\ pass.kept = {}
  BY DEF RootInit, Pass, Buckets
<1>2. RootTypeOK
  BY <1>1, TxRootAssumption DEF RootInit, RootTypeOK
<1>3. \A c \in Container : Holds(c) = {}
  BY TxRootAssumption DEF RootInit, Holds
<1>4. Boxed /\ EvidenceIsNamed
  BY <1>3 DEF Boxed, EvidenceIsNamed
<1>5. Carried /\ InBox /\ Labelled /\ Journals /\ Guarded
  BY <1>1 DEF Carried, InBox, Labelled, Journals, Guarded, Looking, Beyond, Moving, Boxing, Cleaning, Known
<1> QED
  BY <1>2, <1>4, <1>5 DEF RootInv

LEMMA RootPreserved == RootInv /\ [Next]_vars => RootInv'
<1> SUFFICES ASSUME RootInv, [Next]_vars
             PROVE  RootInv'
  OBVIOUS
<1>1. CASE UNCHANGED vars
  BY <1>1 DEF vars, rootVars, evidence, RootInv, RootTypeOK, Boxed, EvidenceIsNamed, Carried, InBox, Labelled,
     Journals, Guarded, Holds, IsDir, Foreign, InRoot, Looking, Beyond
<1> QED
  BY <1>1, RootSteps, RepairSteps, InstallSteps, TamperSteps DEF Next, Root

LEMMA RootInvariant == Spec => []RootInv
<1> QED
  BY RootInitial, RootPreserved, PTL DEF Spec

\* The root keeps its type, under every command, repair and fault.
THEOREM RootTypeCorrect == Spec => []RootTypeOK
<1>1. RootInv => RootTypeOK
  BY DEF RootInv
<1> QED
  BY <1>1, RootInvariant, PTL

\* Whatever is killed and whenever, an entry in quarantine can be told by its
\* META, and no directory but the debris of a quarantine is in one.
THEOREM QuarantineIsNamed == Spec => []EvidenceIsNamed
<1>1. RootInv => EvidenceIsNamed
  BY DEF RootInv
<1> QED
  BY <1>1, RootInvariant, PTL

-----------------------------------------------------------------------------
(* What a pass may do to an entry *)

MayTouch(x) ==
  \/ ~node[x].dir /\ place'[x] \in Container /\ meta[place'[x]] = x
  \/ /\ node[x].dir
     /\ \/ node[x].prefix \in {"building", "completed"}
        \/ node[x].prefix = "pending" /\ node[x].loads /\ InRoot(x)'
     /\ pass.calm => \A y \in Entry : ~Foreign(y)

LEMMA TouchSteps ==
  ASSUME RootInv, Next, faults' = faults,
         NEW x \in Entry, InRoot(x), <<place[x], node[x]>>' # <<place[x], node[x]>>
  PROVE  MayTouch(x)
<1>1. /\ pass \in Pass /\ node \in [Entry -> Node] /\ faults \in Nat
      /\ place \in [Id -> {"unused", "root", "gone"} \union Container] /\ x \in Id
  BY TxRootAssumption DEF RootInv, RootTypeOK, Id
<1>2. ~UNCHANGED evidence
  BY DEF evidence
<1>3. pass.calm /\ pass.pc \in Cleaning => \A y \in Entry : ~Foreign(y)
  BY DEF RootInv, Guarded, Beyond
<1>4. CASE \E y \in Entry : CleanJournal(y)
  <2>1. PICK y \in Entry : CleanJournal(y)
    BY <1>4
  <2>2. y = x /\ pass.pc = "clean" /\ x \in pass.kept /\ node[x].prefix \in {"building", "completed"}
    BY <1>1, <2>1 DEF CleanJournal, Kept
  <2> QED
    BY <1>3, <2>2 DEF MayTouch, Cleaning, RootInv, Journals
<1>5. CASE \E y \in Entry : LoadPending(y)
  <2>1. PICK y \in Entry : LoadPending(y)
    BY <1>5
  <2>2. /\ y = x /\ pass.pc = "load" /\ x \in pass.kept /\ node[x].prefix = "pending"
        /\ node[x].loads /\ place' = place
    BY <1>1, <2>1 DEF LoadPending, Kept
  <2> QED
    BY <1>3, <2>2 DEF MayTouch, Cleaning, RootInv, Journals, InRoot
<1>6. CASE AllocateContainer
  <2>1. NewName \in Container
    BY <1>6 DEF AllocateContainer, NewName
  <2> QED
    BY <1>1, <1>6, <2>1, TxRootAssumption DEF AllocateContainer
<1>7. CASE MovePayload
  <2>1. /\ pass.cur = x /\ place'[x] = pass.box /\ pass.box \in Container /\ meta[pass.box] = pass.cur
        /\ IsDir(pass.cur) => pass.cur \in Container
    BY <1>1, <1>7 DEF MovePayload, RootInv, InBox, Labelled, Carried, Boxing, Moving
  <2> QED
    BY <2>1, TxRootAssumption DEF MayTouch, IsDir
<1>8. CASE WriteTemp \/ WriteMeta
  BY <1>8 DEF WriteTemp, WriteMeta
<1>9. CASE Disturbance \/ Tampering
  BY <1>1, <1>9 DEF Disturbance, Tampering, IOError, Crash, Drop, Drift, Take, Tamper, Fault
<1>10. CASE Repairing \/ Installing
  BY <1>2, <1>10 DEF Repairing, Installing, BuildPlan, DropPlan, Apply, ApplyStale, RestoreBackup,
     SaveBackup, InstallFails, SaveManifest, rootVars
<1>11. CASE Acquire \/ Release \/ Recovering
  BY <1>2, <1>4, <1>5, <1>6, <1>7, <1>8, <1>11 DEF Acquire, Release, Recovering, TakeGone, TakeStray,
     TakeJournal, TakeUnknown, LoopDone, CountPending, CleanDone, AllocateFails
<1> QED
  BY <1>9, <1>10, <1>11 DEF Next, Root, RootNext

\* Recovery, repair and the commands delete nothing but journals they are done
\* with, and touch no journal beside a directory they do not know.
THEOREM EvidenceSurvives == Spec => EvidenceIsKept
<1>1. RootInv /\ [Next]_vars =>
        [faults' = faults =>
           \A x \in Entry : InRoot(x) /\ <<place[x], node[x]>>' # <<place[x], node[x]>> => MayTouch(x)]_rootVars
  BY TouchSteps DEF vars
<1>2. RootInv /\ [Next]_vars =>
        [faults' = faults =>
           \A x \in Entry : InRoot(x) /\ <<place[x], node[x]>>' # <<place[x], node[x]>> =>
             \/ ~node[x].dir /\ place'[x] \in Container /\ meta[place'[x]] = x
             \/ /\ node[x].dir
                /\ \/ node[x].prefix \in {"building", "completed"}
                   \/ node[x].prefix = "pending" /\ node[x].loads /\ InRoot(x)'
                /\ pass.calm => \A y \in Entry : ~Foreign(y)]_rootVars
  BY <1>1 DEF MayTouch
<1> QED
  BY <1>2, RootInvariant, PTL DEF Spec, EvidenceIsKept

-----------------------------------------------------------------------------
(* The manifest and its backup *)

\* There is one plan, and a restore that started holds what it observed.
OnePlan == \A p, q \in plan : p = q
Restoring ==
  pass.pc = "restore" =>
    /\ plan # {}
    /\ \A p \in plan :
         /\ Readable(p.seen.bak)
         /\ pass.calm => ~Readable(main) /\ p.seen.bak = bak /\ LiveMatches(bak.doc)

\* A save that started made the backup.
Saving == pass.pc = "save" => (pass.calm /\ Readable(main) => bak = main)

FilesInv == RootInv /\ OnePlan /\ Restoring /\ Saving

\* A pass of recovery never starts a restore or a save.
LEMMA RootLeaves ==
  ASSUME pass \in Pass, RootNext
  PROVE  pass'.pc \notin {"restore", "save"} \/ (pass'.pc = pass.pc /\ ~pass'.calm)
<1>1. CASE Acquire
  BY <1>1, CallFacts DEF Acquire
<1>2. CASE \E b \in Buckets, x \in Id : TakeGone(b, x) \/ TakeStray(b, x) \/ TakeJournal(b, x)
  BY <1>2, EndFacts DEF TakeGone, TakeStray, TakeJournal, At, Pass, Buckets, Known
<1>3. CASE (\E x \in Id : TakeUnknown(x)) \/ \E x \in Entry : CleanJournal(x)
  BY <1>3, EndFacts DEF TakeUnknown, CleanJournal, At, Pass
<1>4. CASE \E b \in Buckets : LoopDone(b)
  <2>1. PICK b \in Buckets : LoopDone(b)
    BY <1>4
  <2>2. Following[b] \in {"building", "completed", "pending", "count"}
    BY DEF Following, Buckets, Known
  <2> QED
    BY <2>1, <2>2, EndFacts, GotoFacts DEF LoopDone, Steps, Buckets, Known
<1>5. CASE CountPending \/ CleanDone \/ \E x \in Entry : LoadPending(x)
  <2>1. \A s \in {"clean", "load"} : s \in Steps /\ s \notin {"restore", "save"}
    BY DEF Steps
  <2>2. CASE CountPending
    BY <2>1, <2>2, EndFacts, GotoFacts DEF CountPending
  <2>3. CASE CleanDone
    BY <2>1, <2>3, GotoFacts DEF CleanDone, Pass
  <2>4. CASE \E x \in Entry : LoadPending(x)
    BY <2>1, <2>4, EndFacts, GotoFacts DEF LoadPending
  <2> QED
    BY <1>5, <2>2, <2>3, <2>4
<1>6. CASE AllocateContainer \/ AllocateFails \/ WriteTemp \/ WriteMeta
  <2>1. \A s \in {"meta", "move"} : s \in Steps /\ s \notin {"restore", "save"}
    BY DEF Steps
  <2>2. CASE AllocateContainer
    BY <2>2 DEF AllocateContainer, Pass
  <2>3. CASE AllocateFails
    BY <2>3, EndFacts DEF AllocateFails
  <2>4. CASE WriteTemp \/ WriteMeta
    BY <2>1, <2>4, GotoFacts DEF WriteTemp, WriteMeta
  <2> QED
    BY <1>6, <2>2, <2>3, <2>4
<1>7. CASE MovePayload
  BY <1>7, EndFacts DEF MovePayload, Pass, Buckets, Known
<1>8. CASE Release
  BY <1>8, EndFacts DEF Release, Pass
<1>9. CASE Disturbance
  BY <1>9, StoppedFacts, DisturbedFacts DEF Disturbance, IOError, Crash, Drop, Drift, Take
<1> QED
  BY <1>1, <1>2, <1>3, <1>4, <1>5, <1>6, <1>7, <1>8, <1>9 DEF RootNext, Recovering

LEMMA FilesInitial == Init => FilesInv
<1>1. Init => pass.pc = "idle" /\ plan = {}
  BY DEF Init, RootInit
<1> QED
  BY <1>1, RootInitial DEF FilesInv, OnePlan, Restoring, Saving

LEMMA FilesPreserved == FilesInv /\ [Next]_vars => FilesInv'
<1> SUFFICES ASSUME FilesInv, [Next]_vars
             PROVE  FilesInv'
  OBVIOUS
<1>1. RootInv' /\ pass \in Pass
  BY RootPreserved DEF FilesInv, RootInv, RootTypeOK
<1>2. CASE UNCHANGED vars
  BY <1>1, <1>2 DEF vars, rootVars, files, FilesInv, OnePlan, Restoring, Saving, Readable, LiveMatches
<1>3. CASE Root
  <2>1. UNCHANGED <<main, bak, live, plan>>
    BY <1>3 DEF Root, files
  <2>2. pass'.pc \notin {"restore", "save"} \/ (pass'.pc = pass.pc /\ ~pass'.calm)
    BY <1>1, <1>3, RootLeaves DEF Root
  <2> QED
    BY <1>1, <2>1, <2>2 DEF FilesInv, OnePlan, Restoring, Saving, Readable
<1>4. CASE \E a \in {"recover", "restore"} : BuildPlan(a)
  BY <1>1, <1>4 DEF BuildPlan, rootVars, files, FilesInv, OnePlan, Restoring, Saving, Readable, LiveMatches
<1>5. CASE DropPlan \/ \E p \in plan : ApplyStale(p)
  BY <1>1, <1>5 DEF DropPlan, ApplyStale, rootVars, files, FilesInv, OnePlan, Restoring, Saving
<1>6. CASE \E p \in plan : Apply(p)
  <2>1. PICK p \in plan : Apply(p)
    BY <1>6
  <2>2. UNCHANGED <<main, bak, live, plan>>
    BY <2>1 DEF Apply, files
  <2>3. CASE p.action = "recover"
    <3>1. pass'.pc = "unknown"
      BY <1>1, <2>1, <2>3, CallFacts DEF Apply
    <3> QED
      BY <1>1, <2>2, <3>1 DEF FilesInv, OnePlan, Restoring, Saving
  <2>4. CASE p.action # "recover"
    <3>1. pass'.pc = "restore"
      BY <1>1, <2>1, <2>4 DEF Apply, Pass
    <3>2. ~Readable(main) /\ Readable(bak) /\ LiveMatches(bak.doc)
      BY <2>1, <2>4 DEF Apply, Evaluate, CanRestore, Readable
    <3>3. p.seen.bak = bak
      BY <2>1, <2>4 DEF Apply, Observe
    <3>4. \A q \in plan : q = p
      BY <2>1 DEF FilesInv, OnePlan
    <3> QED
      BY <1>1, <2>1, <2>2, <3>1, <3>2, <3>3, <3>4 DEF FilesInv, OnePlan, Restoring, Saving, Readable, LiveMatches
  <2> QED
    BY <2>3, <2>4
<1>7. CASE \E p \in plan : RestoreBackup(p)
  BY <1>1, <1>7, EndFacts DEF RestoreBackup, FilesInv, OnePlan, Restoring, Saving
<1>8. CASE \E e \in Versions : SaveBackup(e)
  <2>1. PICK e \in Versions : SaveBackup(e)
    BY <1>8
  <2>2. pass'.pc = "save" /\ UNCHANGED <<main, plan>> /\ (Readable(main) => bak' = main)
    BY <1>1, <2>1, GotoFacts DEF SaveBackup, Steps, Readable
  <2> QED
    BY <1>1, <2>2 DEF FilesInv, OnePlan, Restoring, Saving, Readable
<1>9. CASE \E s \in saving : SaveManifest(s)
  BY <1>1, <1>9, EndFacts DEF SaveManifest, FilesInv, OnePlan, Restoring, Saving
<1>10. CASE \E e \in Versions : InstallFails(e)
  BY <1>1, <1>10, EndFacts DEF InstallFails, FilesInv, OnePlan, Restoring, Saving
<1>11. CASE Tampering
  <2>1. plan' = plan /\ pass'.pc = pass.pc /\ ~pass'.calm
    BY <1>1, <1>11, DisturbedFacts DEF Tampering, Tamper
  <2> QED
    BY <1>1, <2>1 DEF FilesInv, OnePlan, Restoring, Saving, Readable
<1> QED
  BY <1>2, <1>3, <1>4, <1>5, <1>6, <1>7, <1>8, <1>9, <1>10, <1>11 DEF Next, Repairing, Installing

LEMMA FilesInvariant == Spec => []FilesInv
<1> QED
  BY FilesInitial, FilesPreserved, PTL DEF Spec

\* A command has something to save from the time it made the backup until it
\* saves it or stops.
Kinds == {"missing", "regular", "special"}
InHand ==
  /\ main.kind \in Kinds /\ bak.kind \in Kinds /\ live \in [Paths -> Sha]
  /\ saving # {} <=> pass.pc = "save"
  /\ \A s \in saving : s.entry \in Versions

LEMMA InHandPreserved == FilesInv /\ InHand /\ [Next]_vars => InHand'
<1> SUFFICES ASSUME FilesInv, InHand, [Next]_vars
             PROVE  InHand'
  OBVIOUS
<1>1. pass \in Pass
  BY DEF FilesInv, RootInv, RootTypeOK
<1>2. CASE UNCHANGED vars
  BY <1>2 DEF vars, rootVars, files, InHand
<1>3. CASE Root
  <2>1. pass'.pc = "save" => pass.pc = "save"
    BY <1>1, <1>3, RootLeaves DEF Root
  <2> QED
    BY <1>3, <2>1 DEF Root, files, InHand
<1>4. CASE (\E a \in {"recover", "restore"} : BuildPlan(a)) \/ DropPlan \/ \E p \in plan : ApplyStale(p)
  BY <1>4 DEF BuildPlan, DropPlan, ApplyStale, rootVars, files, InHand
<1>5. CASE \E p \in plan : Apply(p)
  <2>1. PICK p \in plan : Apply(p)
    BY <1>5
  <2>2. pass.pc = "idle" /\ pass'.pc \in {"unknown", "restore"} /\ UNCHANGED <<files, saving>>
    BY <1>1, <2>1, CallFacts DEF Apply, Pass
  <2> QED
    BY <2>2 DEF files, InHand
<1>6. CASE \E p \in plan : RestoreBackup(p)
  <2>1. PICK p \in plan : RestoreBackup(p)
    BY <1>6
  <2>2. pass.pc = "restore" /\ pass'.pc = "idle" /\ UNCHANGED <<bak, live, saving>> /\ main' = p.seen.bak
    BY <1>1, <2>1, EndFacts DEF RestoreBackup
  <2>3. p.seen.bak.kind = "regular"
    BY <2>1, <2>2 DEF FilesInv, Restoring, Readable
  <2> QED
    BY <2>2, <2>3 DEF InHand, Kinds
<1>7. CASE \E e \in Versions : SaveBackup(e)
  <2>1. PICK e \in Versions : SaveBackup(e)
    BY <1>7
  <2>2. pass'.pc = "save" /\ UNCHANGED <<main, live>> /\ bak' \in {main, bak}
    BY <1>1, <2>1, GotoFacts DEF SaveBackup, Steps
  <2>3. saving' # {} /\ \A s \in saving' : s.entry = e
    BY <2>1 DEF SaveBackup
  <2> QED
    BY <2>2, <2>3 DEF InHand
<1>8. CASE \E s \in saving : SaveManifest(s)
  <2>1. PICK s \in saving : SaveManifest(s)
    BY <1>8
  <2>2. pass'.pc = "idle" /\ saving' = {} /\ bak' = bak /\ main'.kind = "regular"
    BY <1>1, <2>1, EndFacts DEF SaveManifest, Regular
  <2>3. s.entry.sha \in Sha
    BY <2>1, RepairAssumption DEF InHand
  <2>4. live' \in [Paths -> Sha]
    BY <2>1, <2>3 DEF InHand, SaveManifest
  <2> QED
    BY <2>2, <2>4 DEF InHand, Kinds
<1>9. CASE \E e \in Versions : InstallFails(e)
  BY <1>1, <1>9, EndFacts DEF InstallFails, files, InHand
<1>10. CASE Tampering
  <2>1. pass'.pc = pass.pc /\ saving' = saving
    BY <1>1, <1>10, DisturbedFacts DEF Tampering, Tamper
  <2>2. \A f \in {Regular(d) : d \in Strange} \union {Irregular("missing")} : f.kind \in Kinds
    BY DEF Regular, Irregular, Kinds
  <2>3. main'.kind \in Kinds /\ bak'.kind \in Kinds /\ live' \in [Paths -> Sha]
    BY <1>10, <2>2 DEF Tampering, Tamper, InHand
  <2> QED
    BY <2>1, <2>3 DEF InHand
<1> QED
  BY <1>2, <1>3, <1>4, <1>5, <1>6, <1>7, <1>8, <1>9, <1>10 DEF Next, Repairing, Installing

\* Every variable of the root, the manifests and the plan keeps its type, and a
\* command holds what it saves exactly while it saves.
THEOREM RepairTypeCorrect == Spec => []TypeOK
<1>1. Init => InHand
  <2> SUFFICES ASSUME Init
               PROVE  InHand
    OBVIOUS
  <2>1. \A f \in {Regular(d) : d \in Docs} \union {Irregular("missing"), Irregular("special")} : f.kind \in Kinds
    BY DEF Regular, Irregular, Kinds
  <2>2. pass.pc = "idle" /\ saving = {}
    BY DEF Init, RootInit
  <2> QED
    BY <2>1, <2>2 DEF Init, InHand
<1>2. FilesInv /\ InHand => TypeOK
  <2> SUFFICES ASSUME FilesInv, InHand
               PROVE  TypeOK
    OBVIOUS
  <2>1. CASE plan = {}
    BY <2>1, FS_EmptySet DEF TypeOK, FilesInv, RootInv, InHand, Kinds
  <2>2. CASE plan # {}
    <3>1. PICK p : plan = {p}
      BY <2>2 DEF FilesInv, OnePlan
    <3>2. Cardinality(plan) = 1
      BY <3>1, FS_Singleton
    <3> QED
      BY <3>2 DEF TypeOK, FilesInv, RootInv, InHand, Kinds
  <2> QED
    BY <2>1, <2>2
<1> QED
  BY <1>1, <1>2, InHandPreserved, FilesInvariant, PTL DEF Spec

\* A restore writes what the plan observed, never over a manifest that can be
\* read.
THEOREM RestoresAreExact == Spec => RestoreIsExact
<1>1. ASSUME FilesInv, Next, pass.pc = "restore", main' # main, faults' = faults
      PROVE  Readable(main)' /\ (pass.calm => ~Readable(main) /\ LiveMatches(main'.doc))
  <2>1. faults \in Nat
    BY <1>1, TxRootAssumption DEF FilesInv, RootInv, RootTypeOK
  <2>2. PICK p \in plan : RestoreBackup(p)
    BY <1>1, <2>1 DEF Next, Root, files, Repairing, BuildPlan, DropPlan, Apply, ApplyStale, Installing,
       SaveBackup, SaveManifest, InstallFails, Tampering, Tamper, Fault
  <2> QED
    BY <1>1, <2>2 DEF RestoreBackup, FilesInv, Restoring, Readable
<1>2. FilesInv /\ [Next]_vars =>
        [pass.pc = "restore" /\ main' # main /\ faults' = faults =>
           /\ Readable(main')
           /\ pass.calm => ~Readable(main) /\ LiveMatches(main'.doc)]_vars
  BY <1>1 DEF Readable
<1> QED
  BY <1>2, FilesInvariant, PTL DEF Spec, RestoreIsExact

\* The backup is only ever replaced by the manifest that was in place, and a
\* manifest that can be read is not replaced without it.
THEOREM BackupsArePrevious == Spec => BackupIsPrevious
<1>1. ASSUME FilesInv, Next, faults' = faults
      PROVE  /\ bak' # bak => Readable(bak)' /\ bak' = main
             /\ pass.calm /\ Readable(main) /\ main' # main => bak' = main
  <2>1. faults \in Nat
    BY <1>1, TxRootAssumption DEF FilesInv, RootInv, RootTypeOK
  <2>2. CASE Root \/ (\E a \in {"recover", "restore"} : BuildPlan(a)) \/ DropPlan
             \/ (\E p \in plan : Apply(p) \/ ApplyStale(p)) \/ (\E e \in Versions : InstallFails(e))
    BY <2>2 DEF Root, files, BuildPlan, DropPlan, Apply, ApplyStale, InstallFails
  <2>3. CASE \E p \in plan : RestoreBackup(p)
    BY <1>1, <2>3 DEF RestoreBackup, FilesInv, Restoring
  <2>4. CASE \E e \in Versions : SaveBackup(e)
    <3>1. PICK e \in Versions : SaveBackup(e)
      BY <2>4
    <3>2. Load(main) # {}
      BY <3>1 DEF SaveBackup, Installed
    <3>3. main.kind = "regular" => Readable(main)
      BY <3>2 DEF Load, Readable
    <3> QED
      BY <3>1, <3>3 DEF SaveBackup, Readable
  <2>5. CASE \E s \in saving : SaveManifest(s)
    BY <1>1, <2>5 DEF SaveManifest, FilesInv, Saving
  <2>6. CASE Tampering
    BY <1>1, <2>1, <2>6 DEF Tampering, Tamper, Fault
  <2> QED
    BY <1>1, <2>2, <2>3, <2>4, <2>5, <2>6 DEF Next, Repairing, Installing
<1>2. FilesInv /\ [Next]_vars =>
        [faults' = faults =>
           /\ bak' # bak => Readable(bak') /\ bak' = main
           /\ pass.calm /\ Readable(main) /\ main' # main => bak' = main]_vars
  BY <1>1 DEF Readable
<1> QED
  BY <1>2, FilesInvariant, PTL DEF Spec, BackupIsPrevious

-----------------------------------------------------------------------------
(* What a confirmed plan promises *)

Taking == Buckets \union Moving

\* What the pass has still to look at is sorted as Inspect sorted it.
Sorted ==
  pass.pc \in Taking =>
    \A b \in Known : \A x \in pass.found[b] : x \in Entry /\ node[x].prefix = b

\* The journals that are, or will be, taken for pending.
Doubtful == Kept("pending") \union (IF pass.pc \in Taking THEN pass.found["pending"] ELSE {})
Healthy(x) == x \in Entry /\ node[x].loads /\ InRoot(x)

\* A confirmed pass that nothing disturbs meets no directory it does not know,
\* and one pending journal at most, which loads.
Promising ==
  pass.mode = "repair" /\ pass.calm =>
    /\ pass.result # "refused"
    /\ pass.pc \in Taking \union Cleaning =>
         /\ pass.refused = {} /\ \A x \in pass.found["unknown"] : ~IsDir(x)
         /\ \A x, y \in Doubtful : x = y /\ Healthy(x)

PromiseInv == RootInv /\ Sorted /\ Promising

\* A pass that stops, or that nobody planned, promises nothing.
LEMMA Stops ==
  ASSUME PromiseInv, RootInv', pass'.pc \in Resting,
         pass'.mode = "repair" /\ pass'.calm => pass'.result # "refused"
  PROVE  PromiseInv'
BY DEF PromiseInv, Sorted, Promising, Resting, Taking, Cleaning, Moving, Buckets, Known

LEMMA Unplanned ==
  ASSUME RootInv', Sorted', ~(pass'.mode = "repair" /\ pass'.calm)
  PROVE  PromiseInv'
BY DEF PromiseInv, Promising

\* The pass starts on what Inspect finds.
LEMMA Starts ==
  ASSUME PromiseInv, NEW m \in {"command", "repair"}, Call(m), UNCHANGED <<evidence, faults>>,
         m = "repair" => CanRecover
  PROVE  PromiseInv'
<1>1. RootInv'
  BY Calls DEF PromiseInv
<1>2. /\ pass' \in Pass /\ pass'.pc = "unknown" /\ pass'.found = Inspect
      /\ pass'.kept = {} /\ pass'.refused = {} /\ pass'.mode = m
      /\ pass'.result = "none" /\ pass'.calm = TRUE
  BY CallFacts DEF PromiseInv, RootInv, RootTypeOK
<1>3. \A b \in Known : \A x \in Inspect[b] : x \in Entry /\ node[x].prefix = b /\ InRoot(x)
  BY TxRootAssumption DEF Inspect, Buckets, Bucket, Known, Id
<1>4. Sorted'
  BY <1>2, <1>3 DEF Sorted, evidence
<1>5. CASE m = "command"
  BY <1>1, <1>2, <1>4, <1>5, Unplanned
<1>6. CASE m = "repair"
  <2>1. Doubtful' = Inspect["pending"]
    BY <1>2 DEF Doubtful, Kept, Taking, Buckets
  <2>2. Promising'
    BY <1>2, <1>3, <1>6, <2>1 DEF Promising, Healthy, CanRecover, IsDir, InRoot, evidence, Known
  <2> QED
    BY <1>1, <1>4, <2>2 DEF PromiseInv
<1> QED
  BY <1>5, <1>6

\* It goes on without a new journal.
LEMMA Continues ==
  ASSUME PromiseInv, RootInv', pass'.pc \in Taking \union Cleaning,
         pass'.pc \in Taking => pass.pc \in Taking,
         pass.pc \in Taking \union Cleaning,
         pass'.kept \subseteq pass.kept, pass'.refused = pass.refused,
         \A b \in Buckets : pass'.found[b] \subseteq pass.found[b],
         pass'.mode = pass.mode, pass'.calm => pass.calm, pass'.result = pass.result,
         \A x \in Entry : node'[x].prefix = node[x].prefix /\ node'[x].dir = node[x].dir,
         pass'.mode = "repair" /\ pass'.calm => \A x \in Doubtful : Healthy(x)'
  PROVE  PromiseInv'
<1>1. Sorted'
  BY DEF PromiseInv, Sorted, Buckets
<1>2. Doubtful' \subseteq Doubtful
  <2>1. Kept("pending")' \subseteq Kept("pending")
    BY DEF Kept
  <2>2. pass'.found["pending"] \subseteq pass.found["pending"]
    BY DEF Buckets, Known
  <2> QED
    BY <2>1, <2>2 DEF Doubtful
<1>3. pass'.found["unknown"] \subseteq pass.found["unknown"]
  BY DEF Buckets
<1>4. Promising'
  BY <1>2, <1>3 DEF PromiseInv, Promising, IsDir
<1> QED
  BY <1>1, <1>4 DEF PromiseInv

LEMMA PromiseTaking ==
  ASSUME PromiseInv, NEW b \in Buckets, NEW x \in Id,
         TakeGone(b, x) \/ TakeStray(b, x) \/ TakeJournal(b, x) \/ TakeUnknown(x)
  PROVE  PromiseInv'
<1>1. RootInv' /\ pass \in Pass
  BY TakesGone, TakesStray, TakesJournal, TakesUnknown DEF PromiseInv, RootInv, RootTypeOK
<1>2. CASE TakeGone(b, x)
  BY <1>1, <1>2, EndFacts, Stops DEF TakeGone, Resting
<1>3. CASE TakeStray(b, x)
  <2>1. /\ pass'.pc = "alloc" /\ pass.pc = b /\ pass'.found = Without(b, x) /\ pass'.kept = pass.kept
        /\ pass'.refused = pass.refused /\ pass'.calm = pass.calm /\ pass'.mode = pass.mode
        /\ pass'.result = pass.result /\ UNCHANGED evidence /\ At(b, x)
    BY <1>1, <1>3 DEF TakeStray, Pass, At
  <2>2. \A a \in Buckets : pass'.found[a] \subseteq pass.found[a]
    BY <1>1, <2>1, Taken
  <2>3. pass'.mode = "repair" /\ pass'.calm => \A y \in Doubtful : Healthy(y)'
    BY <2>1 DEF PromiseInv, Promising, Healthy, InRoot, evidence, Taking
  <2> QED
    BY <1>1, <2>1, <2>2, <2>3, Continues DEF evidence, Taking, Moving
<1>4. CASE TakeUnknown(x)
  <2>1. /\ pass'.pc = "unknown" /\ pass.pc = "unknown" /\ pass'.found = Without("unknown", x)
        /\ pass'.calm = pass.calm /\ pass'.mode = pass.mode
        /\ UNCHANGED evidence /\ At("unknown", x) /\ IsDir(x)
    BY <1>1, <1>4 DEF TakeUnknown, Pass, At
  <2>2. \A a \in Buckets : pass'.found[a] \subseteq pass.found[a]
    BY <1>1, <2>1, Taken DEF Buckets
  <2>3. Sorted'
    BY <2>1, <2>2 DEF PromiseInv, Sorted, evidence, Buckets, Taking
  <2>4. ~(pass.mode = "repair" /\ pass.calm)
    BY <2>1 DEF PromiseInv, Promising, At, Taking, Buckets
  <2> QED
    BY <1>1, <2>1, <2>3, <2>4, Unplanned
<1>5. CASE TakeJournal(b, x)
  <2>1. /\ pass'.pc = b /\ pass.pc = b /\ b \in Known /\ pass'.found = Without(b, x)
        /\ pass'.kept = pass.kept \union {x}
        /\ pass'.refused = pass.refused /\ pass'.calm = pass.calm /\ pass'.mode = pass.mode
        /\ pass'.result = pass.result /\ UNCHANGED evidence /\ x \in pass.found[b] /\ At(b, x)
    BY <1>1, <1>5 DEF TakeJournal, Pass, At, Buckets
  <2>2. \A a \in Buckets : pass'.found[a] \subseteq pass.found[a]
    BY <1>1, <2>1, Taken
  <2>3. Sorted' /\ node[x].prefix = b
    BY <2>1, <2>2 DEF PromiseInv, Sorted, evidence, Buckets, Taking
  <2>4. Doubtful' \subseteq Doubtful
    <3>1. Kept("pending")' \subseteq Kept("pending") \union (IF b = "pending" THEN {x} ELSE {})
      BY <2>1, <2>3 DEF Kept, evidence
    <3>2. pass'.found["pending"] \subseteq pass.found["pending"]
      BY <2>2 DEF Buckets, Known
    <3> QED
      BY <2>1, <3>1, <3>2 DEF Doubtful, Taking
  <2>5. pass'.found["unknown"] \subseteq pass.found["unknown"]
    BY <2>2 DEF Buckets
  <2>6. Promising'
    BY <2>1, <2>4, <2>5 DEF PromiseInv, Promising, Healthy, InRoot, IsDir, evidence, Taking
  <2> QED
    BY <1>1, <2>3, <2>6 DEF PromiseInv
<1> QED
  BY <1>2, <1>3, <1>4, <1>5

\* The pass goes on to its next loop, or to the journals.
LEMMA PromiseGoes ==
  ASSUME PromiseInv, RootInv', NEW s \in Steps, Goto(s), UNCHANGED evidence,
         s \in Taking \union Cleaning, pass.pc \in Taking \union Cleaning, s \in Taking => pass.pc \in Taking
  PROVE  PromiseInv'
<1>1. /\ pass' \in Pass /\ pass'.pc = s /\ pass'.kept = pass.kept /\ pass'.found = pass.found
      /\ pass'.refused = pass.refused /\ pass'.calm = pass.calm /\ pass'.mode = pass.mode
      /\ pass'.result = pass.result
  BY GotoFacts DEF PromiseInv, RootInv, RootTypeOK
<1>2. pass'.mode = "repair" /\ pass'.calm => \A x \in Doubtful : Healthy(x)'
  BY <1>1 DEF PromiseInv, Promising, Healthy, InRoot, evidence
<1> QED
  BY <1>1, <1>2, Continues DEF evidence

LEMMA PromiseLoops ==
  ASSUME PromiseInv, (\E b \in Buckets : LoopDone(b)) \/ CountPending \/ CleanDone
  PROVE  PromiseInv'
<1>1. RootInv' /\ pass \in Pass /\ UNCHANGED evidence
  BY LoopEnds, Counts, CleansDone DEF PromiseInv, RootInv, RootTypeOK, LoopDone, CountPending, CleanDone
<1>2. CASE \E b \in Buckets : LoopDone(b)
  <2>1. PICK b \in Buckets : LoopDone(b)
    BY <1>2
  <2>2. CASE End("refused") /\ b = "unknown" /\ pass.refused # {}
    <3>1. ~(pass.mode = "repair" /\ pass.calm)
      BY <2>1, <2>2 DEF PromiseInv, Promising, LoopDone, Taking
    <3> QED
      BY <1>1, <2>2, <3>1, EndFacts, Stops DEF Resting
  <2>3. CASE Goto(Following[b])
    <3>1. Following[b] \in {"building", "completed", "pending", "count"}
      BY DEF Following, Buckets, Known
    <3>2. Following[b] \in Steps /\ Following[b] \in Taking \union Cleaning /\ pass.pc \in Taking
      BY <2>1, <3>1 DEF Steps, Buckets, Known, Taking, Cleaning, LoopDone
    <3> QED
      BY <1>1, <2>3, <3>2, PromiseGoes
  <2> QED
    BY <2>1, <2>2, <2>3 DEF LoopDone
<1>3. CASE CountPending
  <2>1. CASE End("refused") /\ \E x, y \in Kept("pending") : x # y
    <3>1. ~(pass.mode = "repair" /\ pass.calm)
      BY <1>3, <2>1 DEF PromiseInv, Promising, CountPending, Cleaning, Doubtful
    <3> QED
      BY <1>1, <2>1, <3>1, EndFacts, Stops DEF Resting
  <2>2. CASE Goto("clean")
    <3>1. "clean" \in Steps /\ "clean" \in Cleaning /\ "clean" \notin Taking /\ pass.pc \in Cleaning
      BY <1>3 DEF Steps, Cleaning, Taking, Buckets, Known, Moving, CountPending
    <3> QED
      BY <1>1, <2>2, <3>1, PromiseGoes
  <2> QED
    BY <1>3, <2>1, <2>2 DEF CountPending
<1>4. CASE CleanDone
  <2>1. CASE pass' = [pass EXCEPT !.pc = "ready", !.result = "ok"]
    <3>1. pass'.pc = "ready" /\ pass'.result = "ok"
      BY <1>1, <2>1 DEF Pass
    <3> QED
      BY <1>1, <3>1, Stops DEF Resting
  <2>2. CASE Goto("load")
    <3>1. "load" \in Steps /\ "load" \in Cleaning /\ "load" \notin Taking /\ pass.pc \in Cleaning
      BY <1>4 DEF Steps, Cleaning, Taking, Buckets, Known, Moving, CleanDone
    <3> QED
      BY <1>1, <2>2, <3>1, PromiseGoes
  <2> QED
    BY <1>4, <2>1, <2>2 DEF CleanDone
<1> QED
  BY <1>2, <1>3, <1>4

LEMMA PromiseCleans ==
  ASSUME PromiseInv, NEW x \in Entry, CleanJournal(x)
  PROVE  PromiseInv'
<1>1. /\ RootInv' /\ pass \in Pass /\ place \in [Id -> {"unused", "root", "gone"} \union Container]
      /\ UNCHANGED node /\ pass.pc = "clean" /\ node[x].prefix # "pending"
  BY CleansJournal DEF PromiseInv, RootInv, RootTypeOK, CleanJournal, Kept
<1>2. CASE End("error")
  BY <1>1, <1>2, EndFacts, Stops DEF Resting
<1>3. CASE /\ place' = [place EXCEPT ![x] = "gone"]
           /\ pass' = [pass EXCEPT !.kept = @ \ {x}]
  <2>1. /\ pass'.pc = "clean" /\ pass'.kept \subseteq pass.kept /\ pass'.found = pass.found
        /\ pass'.refused = pass.refused /\ pass'.calm = pass.calm /\ pass'.mode = pass.mode
        /\ pass'.result = pass.result
    BY <1>1, <1>3 DEF Pass
  <2>2. "clean" \in Cleaning /\ "clean" \notin Taking
    BY DEF Cleaning, Taking, Moving, Buckets, Known
  <2>3. \A y \in Doubtful : y # x
    BY <1>1, <2>2 DEF Doubtful, Kept
  <2>4. pass'.mode = "repair" /\ pass'.calm => \A y \in Doubtful : Healthy(y)'
    BY <1>1, <1>3, <2>1, <2>2, <2>3 DEF PromiseInv, Promising, Healthy, InRoot, Id
  <2> QED
    BY <1>1, <2>1, <2>2, <2>4, Continues
<1> QED
  BY <1>2, <1>3 DEF CleanJournal

LEMMA PromiseLoads ==
  ASSUME PromiseInv, NEW x \in Entry, LoadPending(x)
  PROVE  PromiseInv'
<1>1. /\ RootInv' /\ pass \in Pass /\ node \in [Entry -> Node]
      /\ UNCHANGED place /\ pass.pc = "load" /\ x \in Kept("pending")
  BY Loads DEF PromiseInv, RootInv, RootTypeOK, LoadPending
<1>2. "load" \in Cleaning /\ {"clean", "load"} \cap Taking = {} /\ "clean" \in Steps /\ "clean" \in Cleaning
  BY DEF Cleaning, Taking, Moving, Buckets, Known, Steps
<1>3. CASE End("refused") /\ ~(InRoot(x) /\ node[x].loads)
  <2>1. ~(pass.mode = "repair" /\ pass.calm)
    BY <1>1, <1>2, <1>3 DEF PromiseInv, Promising, Doubtful, Healthy
  <2> QED
    BY <1>1, <1>3, <2>1, EndFacts, Stops DEF Resting
<1>4. CASE /\ node' = [node EXCEPT ![x].prefix = "completed", ![x].loads = FALSE]
           /\ Goto("clean")
  <2>1. /\ pass'.pc = "clean" /\ pass'.kept = pass.kept /\ pass'.found = pass.found
        /\ pass'.refused = pass.refused /\ pass'.calm = pass.calm /\ pass'.mode = pass.mode
        /\ pass'.result = pass.result
    BY <1>1, <1>2, <1>4, GotoFacts
  <2>2. Sorted'
    BY <1>2, <2>1 DEF Sorted
  <2>3. /\ \A y \in Entry : node'[y].dir = node[y].dir /\ (y # x => node'[y] = node[y])
        /\ node'[x].prefix = "completed"
    BY <1>1, <1>4 DEF Node
  <2>4. Doubtful' = Doubtful \ {x}
    BY <1>1, <1>2, <2>1, <2>3 DEF Doubtful, Kept
  <2>5. Promising'
    BY <1>1, <1>2, <2>1, <2>3, <2>4 DEF PromiseInv, Promising, Healthy, InRoot, IsDir
  <2> QED
    BY <1>1, <2>2, <2>5 DEF PromiseInv
<1> QED
  BY <1>3, <1>4 DEF LoadPending

\* A quarantine moves no journal that loads.
LEMMA PromiseMoves ==
  ASSUME PromiseInv, AllocateContainer \/ AllocateFails \/ WriteTemp \/ WriteMeta \/ MovePayload
  PROVE  PromiseInv'
<1>1. /\ RootInv' /\ pass \in Pass /\ node \in [Entry -> Node]
      /\ place \in [Id -> {"unused", "root", "gone"} \union Container]
      /\ UNCHANGED node /\ pass.pc \in Moving
  BY Allocates, Ends, WritesTemp, WritesMeta, MovesPayload DEF PromiseInv, RootInv, RootTypeOK, AllocateContainer,
     AllocateFails, WriteTemp, WriteMeta, MovePayload, evidence, Moving
<1>2. CASE End("error")
  BY <1>1, <1>2, EndFacts, Stops DEF Resting
<1>3. CASE ~End("error")
  <2>1. /\ pass'.pc \in Taking /\ pass'.kept = pass.kept /\ pass'.found = pass.found
        /\ pass'.refused = pass.refused /\ pass'.calm = pass.calm /\ pass'.mode = pass.mode
        /\ pass'.result = pass.result
    <3>1. CASE AllocateContainer
      BY <1>1, <3>1 DEF AllocateContainer, Pass, Taking, Moving
    <3>2. CASE WriteTemp \/ WriteMeta
      BY <1>1, <3>2, GotoFacts DEF WriteTemp, WriteMeta, Steps, Taking, Moving
    <3>3. CASE MovePayload
      BY <1>1, <1>3, <3>3 DEF MovePayload, Pass, Taking, PromiseInv, RootInv, Carried, Moving
    <3> QED
      BY <1>3, <3>1, <3>2, <3>3 DEF AllocateFails
  <2>2. \A y \in Entry : Healthy(y) => Healthy(y)'
    <3> SUFFICES ASSUME NEW y \in Entry, Healthy(y)
                 PROVE  InRoot(y)'
      BY <1>1 DEF Healthy
    <3>1. IsDir(y) /\ y \notin Container /\ y \in Id /\ place[y] = "root"
      BY <1>1, TxRootAssumption DEF Healthy, IsDir, Node, Id, InRoot
    <3>2. y # pass.cur
      BY <1>1, <3>1 DEF PromiseInv, RootInv, Carried
    <3>3. CASE AllocateContainer
      BY <1>1, <3>1, <3>3 DEF AllocateContainer, NewName, InRoot
    <3>4. CASE WriteTemp \/ WriteMeta \/ AllocateFails
      BY <3>1, <3>4 DEF WriteTemp, WriteMeta, AllocateFails, evidence, InRoot
    <3>5. CASE MovePayload
      BY <1>1, <3>1, <3>2, <3>5 DEF MovePayload, InRoot
    <3> QED
      BY <3>3, <3>4, <3>5
  <2>3. pass'.mode = "repair" /\ pass'.calm => \A y \in Doubtful : Healthy(y)'
    BY <1>1, <2>1, <2>2 DEF PromiseInv, Promising, Healthy, Taking
  <2> QED
    BY <1>1, <2>1, <2>3, Continues DEF Taking
<1> QED
  BY <1>2, <1>3

\* What another program does ends the promise.
LEMMA PromiseDisturbed ==
  ASSUME PromiseInv, RootInv', Disturbed,
         \A x \in Entry : node'[x].prefix = node[x].prefix
  PROVE  PromiseInv'
<1>1. ~pass'.calm /\ pass'.pc = pass.pc /\ pass'.found = pass.found
  BY DisturbedFacts DEF PromiseInv, RootInv, RootTypeOK
<1>2. Sorted'
  BY <1>1 DEF PromiseInv, Sorted
<1> QED
  BY <1>1, <1>2, Unplanned

LEMMA PromiseFaults ==
  ASSUME PromiseInv, Disturbance \/ Tampering
  PROVE  PromiseInv'
<1>1. RootInv' /\ pass \in Pass /\ node \in [Entry -> Node]
  BY RootSteps, TamperSteps DEF PromiseInv, RootNext, RootInv, RootTypeOK
<1>2. CASE IOError \/ Crash
  <2>1. pass'.pc = "idle" /\ pass'.result = "error"
    BY <1>1, <1>2, StoppedFacts DEF IOError, Crash
  <2> QED
    BY <1>1, <2>1, Stops DEF Resting
<1>3. CASE \E x \in Id : Take(x) \/ (x \in Entry /\ (Drop(x) \/ Drift(x)))
  <2>1. Disturbed /\ \A y \in Entry : node'[y].prefix = node[y].prefix
    BY <1>1, <1>3 DEF Take, Drop, Drift, Node
  <2> QED
    BY <1>1, <2>1, PromiseDisturbed
<1>4. CASE Tampering
  <2>1. Disturbed /\ node' = node
    BY <1>4 DEF Tampering, Tamper, evidence
  <2> QED
    BY <1>1, <2>1, PromiseDisturbed
<1> QED
  BY <1>2, <1>3, <1>4 DEF Disturbance, Id

LEMMA PromisePreserved == PromiseInv /\ [Next]_vars => PromiseInv'
<1> SUFFICES ASSUME PromiseInv, [Next]_vars
             PROVE  PromiseInv'
  OBVIOUS
<1>1. RootInv' /\ pass \in Pass
  BY RootPreserved DEF PromiseInv, RootInv, RootTypeOK
<1>2. CASE UNCHANGED vars \/ UNCHANGED rootVars
  BY <1>1, <1>2 DEF vars, rootVars, evidence, PromiseInv, Sorted, Promising, Doubtful, Kept, Healthy, InRoot, IsDir
<1>3. CASE Acquire
  BY <1>3, Starts DEF Acquire
<1>4. CASE Recovering
  BY <1>4, PromiseTaking, PromiseLoops, PromiseCleans, PromiseLoads, PromiseMoves DEF Recovering, Buckets
<1>5. CASE Release
  <2>1. /\ pass.result \in {"none", "ok", "refused", "error"} /\ End(pass.result)
        /\ pass.mode = "repair" /\ pass.calm => pass.result # "refused"
    BY <1>1, <1>5 DEF Pass, Release, PromiseInv, Promising
  <2> QED
    BY <1>1, <2>1, EndFacts, Stops DEF Resting
<1>6. CASE Disturbance \/ Tampering
  BY <1>6, PromiseFaults
<1>7. CASE \E p \in plan : Apply(p)
  <2>1. PICK p \in plan : Apply(p)
    BY <1>7
  <2>2. CASE p.action = "recover"
    BY <2>1, <2>2, Starts DEF Apply, Evaluate
  <2>3. CASE p.action # "recover"
    <3>1. pass'.pc = "restore" /\ pass'.result = "none"
      BY <1>1, <2>1, <2>3 DEF Apply, Pass
    <3> QED
      BY <1>1, <3>1, Stops DEF Resting
  <2> QED
    BY <2>2, <2>3
<1>8. CASE (\E p \in plan : RestoreBackup(p)) \/ (\E s \in saving : SaveManifest(s))
  <2>1. pass'.pc = "idle" /\ pass'.result = "ok"
    BY <1>1, <1>8, EndFacts DEF RestoreBackup, SaveManifest
  <2> QED
    BY <1>1, <2>1, Stops DEF Resting
<1>9. CASE \E e \in Versions : SaveBackup(e)
  <2>1. pass'.pc = "save" /\ pass'.mode = "command"
    BY <1>1, <1>9, GotoFacts DEF SaveBackup, Steps
  <2> QED
    BY <1>1, <2>1, Stops DEF Resting
<1>10. CASE \E e \in Versions : InstallFails(e)
  <2>1. /\ pass'.pc = "idle"
        /\ pass'.mode = "command" \/ pass'.result = "error"
    BY <1>1, <1>10, EndFacts DEF InstallFails
  <2> QED
    BY <1>1, <2>1, Stops DEF Resting
<1>11. CASE (\E a \in {"recover", "restore"} : BuildPlan(a)) \/ DropPlan \/ \E p \in plan : ApplyStale(p)
  BY <1>2, <1>11 DEF BuildPlan, DropPlan, ApplyStale
<1> QED
  BY <1>2, <1>3, <1>4, <1>5, <1>6, <1>7, <1>8, <1>9, <1>10, <1>11 DEF Next, Root, RootNext, Repairing, Installing

\* A recovery that was planned and confirmed under the lock is never refused,
\* unless another program interferes.
THEOREM PlansSucceed == Spec => []PlannedRecoverySucceeds
<1>1. Init => PromiseInv
  <2>1. Init => pass.pc = "idle" /\ pass.mode = "command"
    BY DEF Init, RootInit
  <2>2. {"idle"} \cap (Taking \union Cleaning) = {}
    BY DEF Taking, Moving, Buckets, Known, Cleaning
  <2> QED
    BY <2>1, <2>2, RootInitial DEF PromiseInv, Sorted, Promising
<1>2. PromiseInv => PlannedRecoverySucceeds
  BY DEF PromiseInv, Promising, PlannedRecoverySucceeds
<1> QED
  BY <1>1, <1>2, PromisePreserved, PTL DEF Spec

-----------------------------------------------------------------------------
(* Documents *)

\* What has been written carries schema 2; anything else was found.
Written(d) == d.schema = {CurrentSchemaVersion}
Sound(f) ==
  /\ f.kind \in {"missing", "regular", "special"}
  /\ f.kind = "regular" => f.doc \in Docs \union Strange \/ Written(f.doc)

\* A manifest in memory has every field of schema 2.
Complete(m) ==
  /\ m = [schema |-> m.schema, retention |-> m.retention, entries |-> m.entries]
  /\ Valid(m) /\ \A i \in DOMAIN m.entries : V2Fields \subseteq m.entries[i].fields

LEMMA CompleteRoundTrip ==
  ASSUME NEW m, Complete(m)
  PROVE  Decode(Encode(m)) = {m}
<1> DEFINE d == Encode(m)
<1>1. d.syntax = "strict" /\ d.schema = {2} /\ d.retention = "given" /\ d.entries = m.entries /\ m.schema = 2
      /\ m.retention = "given"
  BY DEF Encode, Complete, Valid, CurrentSchemaVersion
<1>2. SchemaVersion(d) = 2
  BY <1>1 DEF SchemaVersion
<1>3. ~DecodesLegacy(d) /\ DecodesV2(d)
  BY <1>1, <1>2 DEF DecodesLegacy, DecodesV2, Complete, CurrentSchemaVersion
<1>4. Normalize(d) = m
  BY <1>1, <1>3 DEF Normalize, Complete, CurrentSchemaVersion
<1> QED
  BY <1>1, <1>3, <1>4 DEF Decode, Complete

\* What is decoded, a migrated document included, is complete.
LEMMA DecodedIsComplete ==
  ASSUME NEW d, NEW m \in Decode(d),
         Written(d) \/ \A i \in DOMAIN d.entries : "fields" \in DOMAIN d.entries[i]
  PROVE  Complete(m)
<1>1. m = Normalize(d) /\ Valid(Normalize(d)) /\ (DecodesLegacy(d) \/ DecodesV2(d))
  BY DEF Decode
<1>2. CASE DecodesLegacy(d)
  <2>1. SchemaVersion(d) \in {0, 1}
    BY <1>2 DEF DecodesLegacy
  <2>2. ~Written(d)
    BY <2>1 DEF Written, SchemaVersion, CurrentSchemaVersion
  <2>3. m.entries = [i \in DOMAIN d.entries |-> MigrateEntry(d.entries[i])]
    BY <1>1, <1>2 DEF Normalize
  <2>4. \A i \in DOMAIN d.entries : MigrateEntry(d.entries[i]).fields = V2Fields
    BY <2>2 DEF MigrateEntry
  <2> QED
    BY <1>1, <1>2, <2>3, <2>4 DEF Complete, Normalize
<1>3. CASE ~DecodesLegacy(d)
  BY <1>1, <1>3 DEF Complete, Normalize, DecodesV2
<1> QED
  BY <1>2, <1>3

LEMMA LoadedIsComplete ==
  ASSUME NEW f, Sound(f), NEW m \in Load(f)
  PROVE  Complete(m)
<1>1. CASE f.kind = "missing"
  <2>1. m = [schema |-> CurrentSchemaVersion, retention |-> "given", entries |-> <<>>]
    BY <1>1 DEF Load
  <2>2. DOMAIN m.entries = {}
    BY <2>1
  <2> QED
    BY <2>1, <2>2 DEF Complete, Valid
<1>2. CASE f.kind = "regular"
  <2>1. m \in Decode(f.doc)
    BY <1>2 DEF Load
  <2>2. Written(f.doc) \/ \A i \in DOMAIN f.doc.entries : "fields" \in DOMAIN f.doc.entries[i]
    BY <1>2, RepairAssumption DEF Sound
  <2> QED
    BY <2>1, <2>2, DecodedIsComplete
<1> QED
  BY <1>1, <1>2 DEF Load, Sound

\* Every manifest and backup is a document that was found or written, the one a
\* restore holds included.
DocsInv ==
  /\ FilesInv /\ Sound(main) /\ Sound(bak)
  /\ pass.pc = "restore" => \A p \in plan : Sound(p.seen.bak)
  /\ \A s \in saving : Written(s.doc)

LEMMA RegularIsSound ==
  ASSUME NEW d, d \in Docs \union Strange \/ Written(d)
  PROVE  Sound(Regular(d))
BY DEF Sound, Regular

LEMMA DocsInitial == Init => DocsInv
<1> SUFFICES ASSUME Init
             PROVE  DocsInv
  OBVIOUS
<1>1. FilesInv /\ pass.pc = "idle" /\ saving = {}
  BY FilesInitial DEF Init, RootInit
<1>2. \A k \in {"missing", "special"} : Sound(Irregular(k))
  BY DEF Sound, Irregular
<1>3. Sound(main) /\ Sound(bak)
  BY <1>2, RegularIsSound DEF Init
<1> QED
  BY <1>1, <1>3 DEF DocsInv

LEMMA DocsPreserved == DocsInv /\ [Next]_vars => DocsInv'
<1> SUFFICES ASSUME DocsInv, [Next]_vars
             PROVE  DocsInv'
  OBVIOUS
<1>1. FilesInv' /\ pass \in Pass
  BY FilesPreserved DEF DocsInv, FilesInv, RootInv, RootTypeOK
<1>2. CASE UNCHANGED vars
  BY <1>1, <1>2 DEF vars, rootVars, files, DocsInv, Sound, Written
<1>3. CASE Root
  <2>1. UNCHANGED <<main, bak, plan>> /\ (saving' = saving \/ saving' = {})
    BY <1>3 DEF Root, files
  <2>2. pass'.pc = "restore" => pass.pc = "restore"
    BY <1>1, <1>3, RootLeaves DEF Root
  <2> QED
    BY <1>1, <2>1, <2>2 DEF DocsInv, Sound, Written
<1>4. CASE (\E a \in {"recover", "restore"} : BuildPlan(a)) \/ DropPlan \/ \E p \in plan : ApplyStale(p)
  <2>1. UNCHANGED <<main, bak, saving, pass>> /\ (plan = {} \/ plan' = {})
    BY <1>4 DEF BuildPlan, DropPlan, ApplyStale, files, rootVars
  <2>2. pass.pc = "restore" => plan' = {}
    BY <1>4, <2>1 DEF DocsInv, FilesInv, Restoring, BuildPlan, DropPlan, ApplyStale
  <2> QED
    BY <1>1, <2>1, <2>2 DEF DocsInv, Sound, Written
<1>5. CASE \E p \in plan : Apply(p)
  <2>1. PICK p \in plan : Apply(p)
    BY <1>5
  <2>2. UNCHANGED <<main, bak, plan, saving>> /\ \A q \in plan : q = p
    BY <2>1 DEF Apply, files, DocsInv, FilesInv, OnePlan
  <2>3. pass'.pc = "restore" => p.seen.bak = bak
    BY <1>1, <2>1, CallFacts DEF Apply, Observe
  <2> QED
    BY <1>1, <2>2, <2>3 DEF DocsInv, Sound, Written
<1>6. CASE \E p \in plan : RestoreBackup(p)
  BY <1>1, <1>6, EndFacts DEF RestoreBackup, DocsInv, Sound, Written
<1>7. CASE \E e \in Versions : SaveBackup(e)
  <2>1. PICK e \in Versions : SaveBackup(e)
    BY <1>7
  <2>2. pass'.pc = "save" /\ UNCHANGED <<main, plan>> /\ bak' \in {main, bak}
    BY <1>1, <2>1, GotoFacts DEF SaveBackup, Steps
  <2>3. \A n \in Installed(e) : Written(Encode(n))
    BY DEF Installed, Valid, Encode, Written
  <2>4. \A s \in saving' : Written(s.doc)
    BY <2>1, <2>3 DEF SaveBackup
  <2> QED
    BY <1>1, <2>2, <2>4 DEF DocsInv, Sound, Written
<1>8. CASE \E s \in saving : SaveManifest(s)
  <2>1. PICK s \in saving : SaveManifest(s)
    BY <1>8
  <2>2. Sound(main)'
    BY <2>1 DEF SaveManifest, DocsInv, Sound, Regular, Written
  <2>3. pass'.pc = "idle" /\ bak' = bak /\ saving' = {}
    BY <1>1, <2>1, EndFacts DEF SaveManifest
  <2> QED
    BY <1>1, <2>2, <2>3 DEF DocsInv, Sound, Written
<1>9. CASE \E e \in Versions : InstallFails(e)
  BY <1>1, <1>9, EndFacts DEF InstallFails, files, DocsInv, Sound, Written
<1>10. CASE Tampering
  <2>1. \A f \in {Regular(d) : d \in Strange} \union {Irregular("missing")} : Sound(f)
    BY RegularIsSound DEF Irregular, Sound
  <2>2. Sound(main') /\ Sound(bak') /\ plan' = plan /\ saving' = saving /\ pass'.pc = pass.pc
    BY <1>1, <1>10, <2>1, DisturbedFacts DEF Tampering, Tamper, DocsInv
  <2> QED
    BY <1>1, <2>2 DEF DocsInv, Sound, Written
<1> QED
  BY <1>2, <1>3, <1>4, <1>5, <1>6, <1>7, <1>8, <1>9, <1>10 DEF Next, Repairing, Installing

\* What hukou writes it loads again, unchanged, whichever schema it was read from.
THEOREM WritesLoadBack == Spec => []WrittenLoadsBack
<1>1. DocsInv => WrittenLoadsBack
  <2> SUFFICES ASSUME DocsInv, NEW f \in {main, bak}, NEW m \in Load(f)
               PROVE  Decode(Encode(m)) = {m}
    BY DEF WrittenLoadsBack
  <2>1. Sound(f)
    BY DEF DocsInv
  <2> QED
    BY <2>1, LoadedIsComplete, CompleteRoundTrip
<1> QED
  BY <1>1, DocsInitial, DocsPreserved, PTL DEF Spec

-----------------------------------------------------------------------------
(* Doctor explains every refusal *)

\* The loop a pass is in, or returns to; those before it have nothing left.
Loop == IF pass.pc \in Moving THEN pass.back ELSE pass.pc
Swept ==
  pass.pc \in Taking =>
    /\ Loop \in {"completed", "pending"} => pass.found["building"] = {}
    /\ Loop = "pending" => pass.found["completed"] = {}

\* Unknown entries stay unknown, and the entry being moved and its container are
\* none of those still to be looked at or already refused.
Seen == pass.found["unknown"] \union pass.refused
Strangers ==
  pass.pc \in Taking =>
    /\ pass.found["unknown"] \cap pass.refused = {}
    /\ \A x \in Seen :
         /\ x \in Id /\ place[x] # "unused"
         /\ x \in Entry => node[x].prefix = "other"
         /\ x \in Container => ~IsValidQuarantineContainer(x)
         /\ pass.pc \in Moving => x # pass.cur
         /\ pass.pc \in Boxing => x # pass.box

\* Undisturbed, what the pass keeps or refuses is where it was, it knows of every
\* entry that is named like a journal, and it leaves none of them behind.
Here ==
  pass.calm =>
    /\ pass.pc \in Taking \union Cleaning => \A x \in pass.kept \cap Entry : InRoot(x)
    /\ pass.pc \in Taking => \A x \in pass.refused : InRoot(x)
Covered ==
  pass.calm => \A x \in Entry : InRoot(x) /\ node[x].prefix \in Known =>
    /\ pass.pc \in Taking =>
         x \in pass.found[node[x].prefix] \union pass.kept \/ (pass.pc \in Moving /\ x = pass.cur)
    /\ pass.pc \in Cleaning => x \in pass.kept
    /\ pass.pc # "ready"
ReadyOk == pass.pc = "ready" => pass.result = "ok"

DiagnosisInv ==
  /\ PromiseInv /\ Swept /\ Strangers /\ Here /\ Covered /\ ReadyOk /\ RefusalIsDiagnosed

\* A step that leaves everything but the pass alone and stops it.
LEMMA DiagnosisStops ==
  ASSUME PromiseInv', pass'.pc \in {"idle", "save", "restore"},
         pass'.pc = "idle" /\ pass'.result = "refused" /\ pass'.calm => DoctorErrors'
  PROVE  DiagnosisInv'
<1>1. pass'.pc \notin Taking \union Cleaning \union {"ready"}
  BY DEF Taking, Moving, Buckets, Known, Cleaning
<1> QED
  BY <1>1 DEF DiagnosisInv, Swept, Strangers, Here, Covered, ReadyOk, RefusalIsDiagnosed

LEMMA UnknownIsDiagnosed ==
  ASSUME NEW x \in Id, InRoot(x), x \in Entry => node[x].prefix = "other",
         x \in Container => ~IsValidQuarantineContainer(x)
  PROVE  DoctorErrors
<1>1. x \in TransactionErrors
  BY DEF TransactionErrors, Bucket, Invalid, Id
<1> QED
  BY <1>1 DEF DoctorErrors

LEMMA PendingIsDiagnosed ==
  ASSUME NEW x \in Entry, InRoot(x), node[x].prefix = "pending"
  PROVE  DoctorErrors
<1>1. x \in TransactionErrors
  BY DEF TransactionErrors, Bucket, Id
<1> QED
  BY <1>1 DEF DoctorErrors

LEMMA UnreadableIsDiagnosed ==
  ASSUME Load(main) = {} \/ bak.kind = "special"
  PROVE  DoctorErrors
<1>1. CASE bak.kind = "special"
  BY <1>1 DEF DoctorErrors, BackupErrors
<1>2. CASE Load(main) = {}
  <2>1. CASE main.kind = "special"
    BY <2>1 DEF DoctorErrors, ManifestErrors
  <2>2. CASE main.kind \notin {"missing", "special"} /\ Decode(main.doc) = {}
    <3>1. DoctorFindings(main.doc) \ Warnings # {}
      BY <2>2 DEF DoctorFindings, Warnings
    <3> QED
      BY <2>2, <3>1 DEF DoctorErrors, ManifestErrors
  <2> QED
    BY <1>2, <2>1, <2>2 DEF Load
<1> QED
  BY <1>1, <1>2

LEMMA DiagnosisStarts ==
  ASSUME PromiseInv, NEW m \in {"command", "repair"}, Call(m), UNCHANGED <<evidence, faults>>, PromiseInv'
  PROVE  DiagnosisInv'
<1>1. /\ pass' \in Pass /\ pass'.pc = "unknown" /\ pass'.found = Inspect
      /\ pass'.kept = {} /\ pass'.refused = {} /\ pass'.result = "none"
  BY CallFacts DEF PromiseInv, RootInv, RootTypeOK
<1>2. "unknown" \in Taking /\ "unknown" \notin Moving \union Boxing \union Cleaning \union {"ready", "idle"}
  BY DEF Taking, Moving, Boxing, Buckets, Known, Cleaning
<1>3. Swept'
  BY <1>1, <1>2 DEF Swept, Loop
<1>4. Strangers'
  <2>1. \A x \in Inspect["unknown"] :
          /\ x \in Id /\ place[x] # "unused"
          /\ x \in Entry => node[x].prefix = "other"
          /\ x \in Container => ~IsValidQuarantineContainer(x)
    <3> SUFFICES ASSUME NEW x \in Inspect["unknown"]
                 PROVE  /\ x \in Id /\ place[x] # "unused"
                        /\ x \in Entry => node[x].prefix = "other"
                        /\ x \in Container => ~IsValidQuarantineContainer(x)
      OBVIOUS
    <3>1. x \in Id /\ InRoot(x) /\ Bucket(x) = "unknown"
      BY DEF Inspect, Buckets
    <3>2. x \in Entry => node[x].prefix = "other"
      BY <3>1 DEF Bucket, PromiseInv, RootInv, RootTypeOK, Node, Known
    <3>3. x \in Container => ~IsValidQuarantineContainer(x)
      BY <3>1, TxRootAssumption DEF Bucket
    <3> QED
      BY <3>1, <3>2, <3>3 DEF InRoot
  <2> QED
    BY <1>1, <1>2, <2>1 DEF Strangers, Seen, evidence, IsValidQuarantineContainer, Holds
<1>5. Here'
  BY <1>1 DEF Here
<1>6. Covered'
  <2>1. \A x \in Entry : InRoot(x) /\ node[x].prefix \in Known => x \in Inspect[node[x].prefix]
    BY DEF Inspect, Bucket, Buckets, Known, Id
  <2> QED
    BY <1>1, <1>2, <2>1 DEF Covered, evidence, InRoot
<1> QED
  BY <1>1, <1>2, <1>3, <1>4, <1>5, <1>6 DEF DiagnosisInv, ReadyOk, RefusalIsDiagnosed

LEMMA DiagnosisTaking ==
  ASSUME DiagnosisInv, NEW b \in Buckets, NEW x \in Id, UNCHANGED files, PromiseInv',
         TakeGone(b, x) \/ TakeStray(b, x) \/ TakeJournal(b, x) \/ (b = "unknown" /\ TakeUnknown(x))
  PROVE  DiagnosisInv'
<1>1. pass \in Pass
  BY DEF DiagnosisInv, PromiseInv, RootInv, RootTypeOK
<1>2. CASE TakeGone(b, x)
  BY <1>1, <1>2, EndFacts, DiagnosisStops DEF TakeGone
<1>3. CASE ~TakeGone(b, x)
  <2>1. /\ pass.pc = b /\ x \in pass.found[b] /\ InRoot(x) /\ UNCHANGED evidence /\ At(b, x)
        /\ pass'.found = Without(b, x) /\ pass'.calm = pass.calm
        /\ pass.pc \in Taking /\ pass.pc \notin Moving \union Boxing
    BY <1>1, <1>3 DEF TakeStray, TakeJournal, TakeUnknown, At, Pass, Taking, Moving, Boxing, Buckets, Known
  <2>2. /\ pass'.found[b] = pass.found[b] \ {x}
        /\ \A a \in Buckets : a # b => pass'.found[a] = pass.found[a]
    BY <1>1, <2>1, Taken
  <2>3. \/ /\ TakeStray(b, x) /\ pass'.pc = "alloc" /\ pass'.cur = x /\ pass'.back = b
           /\ pass'.kept = pass.kept /\ pass'.refused = pass.refused
        \/ /\ TakeJournal(b, x) /\ pass'.pc = b /\ b \in Known
           /\ pass'.kept = pass.kept \union {x} /\ pass'.refused = pass.refused
        \/ /\ TakeUnknown(x) /\ pass'.pc = b /\ b = "unknown"
           /\ pass'.kept = pass.kept /\ pass'.refused = pass.refused \union {x}
    BY <1>1, <1>3, <2>1 DEF TakeStray, TakeJournal, TakeUnknown, Pass, Buckets
  <2>4. /\ pass'.pc \in Taking /\ pass'.pc \notin Boxing \union Cleaning \union {"ready", "idle"}
        /\ pass'.pc \in Moving <=> pass'.pc = "alloc"
    BY <2>1, <2>3 DEF Taking, Moving, Boxing, Buckets, Known, Cleaning
  <2>5. Loop' = b /\ Loop = b
    BY <2>1, <2>3, <2>4 DEF Loop, Moving, Taking
  <2>6. Swept'
    BY <2>1, <2>2, <2>4, <2>5 DEF DiagnosisInv, Swept, Buckets, Known
  <2>7. Strangers'
    <3>1. x \in pass.found["unknown"] \/ b # "unknown"
      BY <2>1
    <3>2. b # "unknown" => x \notin Seen
      BY <2>1 DEF DiagnosisInv, PromiseInv, Sorted, Strangers, Buckets, Known
    <3>3. /\ pass'.found["unknown"] = pass.found["unknown"] \ {x}
          /\ Seen' \subseteq Seen /\ (pass'.pc = "alloc" => x \notin Seen')
          /\ pass'.found["unknown"] \cap pass'.refused = {}
      BY <2>1, <2>2, <2>3, <3>2 DEF Seen, Buckets, Strangers, DiagnosisInv, TakeJournal
    <3> QED
      BY <2>1, <2>3, <2>4, <3>3 DEF DiagnosisInv, Strangers, evidence, IsValidQuarantineContainer, Holds
  <2>8. Here'
    BY <2>1, <2>3, <2>4 DEF DiagnosisInv, Here, evidence, InRoot
  <2>9. Covered'
    <3>1. b \in Known /\ x \in Entry => node[x].prefix = b
      BY <2>1 DEF DiagnosisInv, PromiseInv, Sorted
    <3>2. TakeUnknown(x) => ~(x \in Entry /\ node[x].prefix \in Known)
      BY <2>1 DEF TakeUnknown, At, DiagnosisInv, Strangers, Seen, Known
    <3> QED
      BY <2>1, <2>2, <2>3, <2>4, <3>1, <3>2 DEF DiagnosisInv, Covered, evidence, InRoot, Buckets, Known
  <2> QED
    BY <2>4, <2>6, <2>7, <2>8, <2>9 DEF DiagnosisInv, ReadyOk, RefusalIsDiagnosed
<1> QED
  BY <1>2, <1>3

LEMMA DoctorStays ==
  ASSUME UNCHANGED <<evidence, files>>
  PROVE  DoctorErrors' = DoctorErrors
BY DEF evidence, files, DoctorErrors, TransactionErrors, ManifestErrors, BackupErrors, LiveMatches, InRoot, Bucket,
   Invalid, IsDir, IsValidQuarantineContainer, Holds

LEMMA DiagnosisRefuses ==
  ASSUME PromiseInv, PromiseInv', NEW r \in {"none", "ok", "refused", "error"}, End(r),
         UNCHANGED <<evidence, files>>, r = "refused" /\ pass.calm => DoctorErrors
  PROVE  DiagnosisInv'
<1>1. pass'.pc = "idle" /\ pass'.result = r /\ pass'.calm = pass.calm
  BY EndFacts DEF PromiseInv, RootInv, RootTypeOK
<1> QED
  BY <1>1, DoctorStays, DiagnosisStops

\* The loops end one after the other, and with the last one every journal is kept.
LEMMA DiagnosisLoops ==
  ASSUME DiagnosisInv, NEW b \in Buckets, LoopDone(b), UNCHANGED files, PromiseInv'
  PROVE  DiagnosisInv'
<1>1. /\ pass \in Pass /\ UNCHANGED evidence /\ pass.pc = b /\ pass.found[b] = {}
      /\ b \in Taking /\ b \notin Moving \union Boxing
  BY DEF DiagnosisInv, PromiseInv, RootInv, RootTypeOK, LoopDone, Taking, Moving, Boxing, Buckets, Known
<1>2. CASE End("refused") /\ b = "unknown" /\ pass.refused # {}
  <2>1. PICK x \in pass.refused : TRUE
    BY <1>2
  <2>2. /\ x \in Id /\ (x \in Entry => node[x].prefix = "other")
        /\ x \in Container => ~IsValidQuarantineContainer(x)
    BY <1>1, <2>1 DEF DiagnosisInv, Strangers, Seen
  <2>3. pass.calm => InRoot(x)
    BY <1>1, <2>1 DEF DiagnosisInv, Here
  <2> QED
    BY <1>2, <2>2, <2>3, <1>1, UnknownIsDiagnosed, DiagnosisRefuses DEF DiagnosisInv
<1>3. CASE Goto(Following[b])
  <2>1. /\ b = "unknown" => Following[b] = "building"
        /\ b = "building" => Following[b] = "completed"
        /\ b = "completed" => Following[b] = "pending"
        /\ b = "pending" => Following[b] = "count"
    BY DEF Following, Buckets, Known
  <2>2. Following[b] \in Steps
    BY <2>1 DEF Steps, Buckets, Known
  <2>3. /\ pass'.pc = Following[b] /\ pass'.found = pass.found /\ pass'.kept = pass.kept
        /\ pass'.refused = pass.refused /\ pass'.calm = pass.calm
    BY <1>1, <1>3, <2>2, GotoFacts
  <2>4. Loop = b /\ pass'.pc \notin Moving \union Boxing \union {"idle", "ready"} /\ Loop' = Following[b]
    BY <1>1, <2>1, <2>3 DEF Loop, Moving, Boxing, Buckets, Known
  <2>5. Swept'
    BY <1>1, <2>1, <2>3, <2>4 DEF DiagnosisInv, Swept, Buckets, Known
  <2>6. Strangers' /\ Here'
    BY <1>1, <2>3, <2>4 DEF DiagnosisInv, Strangers, Here, Seen, evidence, IsValidQuarantineContainer, Holds, InRoot,
       Taking, Cleaning
  <2>7. Covered'
    <3>1. pass'.pc \in Cleaning => \A a \in Known : pass.found[a] = {}
      BY <1>1, <2>1, <2>3, <2>4 DEF DiagnosisInv, Swept, Buckets, Known, Cleaning
    <3>2. \A x \in Entry : pass.calm /\ InRoot(x) /\ node[x].prefix \in Known =>
             x \in pass.found[node[x].prefix] \union pass.kept
      BY <1>1 DEF DiagnosisInv, Covered
    <3> QED
      BY <1>1, <2>3, <2>4, <3>1, <3>2 DEF Covered, evidence, InRoot
  <2> QED
    BY <2>4, <2>5, <2>6, <2>7 DEF DiagnosisInv, ReadyOk, RefusalIsDiagnosed
<1> QED
  BY <1>2, <1>3 DEF LoopDone

\* Among the journals nothing is said of strays.
LEMMA DiagnosisJournals ==
  ASSUME PromiseInv', pass'.pc \in Cleaning \union {"ready"},
         pass'.pc = "ready" => pass'.result = "ok",
         pass'.calm /\ pass'.pc \in Cleaning => \A x \in pass'.kept \cap Entry : InRoot(x)',
         pass'.calm => \A x \in Entry : InRoot(x)' /\ node'[x].prefix \in Known =>
           x \in pass'.kept /\ pass'.pc # "ready"
  PROVE  DiagnosisInv'
<1>1. pass'.pc \notin Taking \union {"idle"}
  BY DEF Taking, Moving, Buckets, Known, Cleaning
<1> QED
  BY <1>1 DEF DiagnosisInv, Swept, Strangers, Here, Covered, ReadyOk, RefusalIsDiagnosed

LEMMA DiagnosisCleans ==
  ASSUME DiagnosisInv, UNCHANGED files, PromiseInv',
         CountPending \/ CleanDone \/ \E x \in Entry : CleanJournal(x) \/ LoadPending(x)
  PROVE  DiagnosisInv'
<1>1. /\ pass \in Pass /\ node \in [Entry -> Node]
      /\ place \in [Id -> {"unused", "root", "gone"} \union Container]
      /\ pass.pc \in Cleaning
  BY DEF DiagnosisInv, PromiseInv, RootInv, RootTypeOK, CountPending, CleanDone, CleanJournal, LoadPending, Cleaning
<1>2. /\ pass.calm => \A x \in pass.kept \cap Entry : InRoot(x)
      /\ pass.calm => \A x \in Entry : InRoot(x) /\ node[x].prefix \in Known => x \in pass.kept
  BY <1>1 DEF DiagnosisInv, Here, Covered
<1>3. \A x \in Kept("pending") : pass.calm => DoctorErrors
  BY <1>2, PendingIsDiagnosed DEF Kept
<1>4. \A s \in {"clean", "load"} : s \in Steps \cap Cleaning
  BY DEF Steps, Cleaning
<1>5. CASE CountPending
  <2>1. CASE End("refused") /\ \E x \in Kept("pending") : TRUE
    BY <1>3, <1>5, <2>1, DiagnosisRefuses DEF CountPending, DiagnosisInv
  <2>2. CASE Goto("clean")
    BY <1>1, <1>2, <1>4, <1>5, <2>2, GotoFacts, DiagnosisJournals DEF CountPending, evidence, InRoot, Cleaning
  <2> QED
    BY <1>5, <2>1, <2>2 DEF CountPending
<1>6. CASE CleanDone
  <2>1. CASE pass.kept = {} /\ pass' = [pass EXCEPT !.pc = "ready", !.result = "ok"]
    <3>1. pass'.pc = "ready" /\ pass'.result = "ok" /\ pass'.calm = pass.calm /\ "ready" \notin Cleaning
      BY <1>1, <2>1 DEF Pass, Cleaning
    <3> QED
      BY <1>2, <1>6, <2>1, <3>1, DiagnosisJournals DEF CleanDone, evidence, InRoot
  <2>2. CASE Goto("load")
    BY <1>1, <1>2, <1>4, <1>6, <2>2, GotoFacts, DiagnosisJournals DEF CleanDone, evidence, InRoot, Cleaning
  <2> QED
    BY <1>6, <2>1, <2>2 DEF CleanDone
<1>7. ASSUME NEW x \in Entry, CleanJournal(x)
      PROVE  DiagnosisInv'
  <2>1. CASE End("error") /\ UNCHANGED place
    BY <1>7, <2>1, DiagnosisRefuses DEF CleanJournal, evidence, DiagnosisInv
  <2>2. CASE /\ InRoot(x)
             /\ place' = [place EXCEPT ![x] = "gone"]
             /\ pass' = [pass EXCEPT !.kept = @ \ {x}]
    <3>1. /\ pass'.pc = "clean" /\ pass'.kept = pass.kept \ {x} /\ pass'.calm = pass.calm
          /\ UNCHANGED node /\ "clean" \in Cleaning
      BY <1>1, <1>7, <2>2 DEF CleanJournal, Pass, Cleaning
    <3>2. \A y \in Entry : InRoot(y)' <=> InRoot(y) /\ y # x
      BY <1>1, <2>2 DEF InRoot, Id
    <3> QED
      BY <1>2, <3>1, <3>2, DiagnosisJournals
  <2> QED
    BY <1>7, <2>1, <2>2 DEF CleanJournal
<1>8. ASSUME NEW x \in Entry, LoadPending(x)
      PROVE  DiagnosisInv'
  <2>1. CASE End("refused") /\ UNCHANGED node
    BY <1>3, <1>8, <2>1, DiagnosisRefuses DEF LoadPending, evidence, DiagnosisInv
  <2>2. CASE /\ node' = [node EXCEPT ![x].prefix = "completed", ![x].loads = FALSE]
             /\ Goto("clean")
    <3>1. /\ pass'.pc = "clean" /\ pass'.kept = pass.kept /\ pass'.calm = pass.calm
          /\ UNCHANGED place
      BY <1>1, <1>4, <1>8, <2>2, GotoFacts DEF LoadPending
    <3>2. /\ \A y \in Entry : y # x => node'[y] = node[y]
          /\ x \in pass.kept
      BY <1>1, <1>8, <2>2 DEF LoadPending, Kept
    <3> QED
      BY <1>2, <1>4, <3>1, <3>2, DiagnosisJournals DEF InRoot
  <2> QED
    BY <1>8, <2>1, <2>2 DEF LoadPending
<1> QED
  BY <1>5, <1>6, <1>7, <1>8

\* A quarantine touches nothing that is still to be looked at, or refused.
LEMMA DiagnosisMoves ==
  ASSUME DiagnosisInv, UNCHANGED files, PromiseInv',
         AllocateContainer \/ AllocateFails \/ WriteTemp \/ WriteMeta \/ MovePayload
  PROVE  DiagnosisInv'
<1>1. /\ pass \in Pass /\ pass.pc \in Moving \cap Taking /\ UNCHANGED node
      /\ place \in [Id -> {"unused", "root", "gone"} \union Container]
      /\ inside \in [Container -> SUBSET {"temp", "META"}]
      /\ pass.cur \in Id /\ (IsDir(pass.cur) => pass.cur \in Container) /\ pass.back \in Buckets
      /\ pass.pc \in Boxing => pass.box \in Container
      /\ \A x \in pass.kept \cap Entry : IsDir(x) /\ x \notin Container
  BY TxRootAssumption DEF DiagnosisInv, PromiseInv, RootInv, RootTypeOK, AllocateContainer, AllocateFails, WriteTemp,
     WriteMeta, MovePayload, evidence, Moving, Taking, Carried, InBox, Journals, IsDir
<1>2. CASE End("error") /\ UNCHANGED evidence
  BY <1>2, DiagnosisRefuses DEF DiagnosisInv
<1>3. CASE ~(End("error") /\ UNCHANGED evidence)
  <2>1. /\ pass'.kept = pass.kept /\ pass'.found = pass.found
        /\ pass'.refused = pass.refused /\ pass'.calm = pass.calm
        /\ \/ pass'.pc \in Boxing /\ pass'.back = pass.back /\ pass'.cur = pass.cur
           \/ pass'.pc = pass.back /\ MovePayload
    <3>1. CASE AllocateContainer
      BY <1>1, <3>1 DEF AllocateContainer, Pass, Boxing
    <3>2. CASE WriteTemp \/ WriteMeta
      BY <1>1, <3>2, GotoFacts DEF WriteTemp, WriteMeta, Steps, Boxing
    <3>3. CASE MovePayload
      BY <1>1, <1>3, <3>3 DEF MovePayload, Pass, evidence
    <3> QED
      BY <1>3, <3>1, <3>2, <3>3 DEF AllocateFails
  <2>2. /\ pass'.pc \in Taking /\ pass'.pc \notin Cleaning \union {"ready", "idle"} /\ Loop' = Loop
        /\ pass'.pc \in Moving <=> pass'.pc \in Boxing
        /\ pass'.pc \in Moving => pass'.cur = pass.cur
    BY <1>1, <2>1 DEF Taking, Moving, Boxing, Cleaning, Buckets, Known, Loop
  <2>3. Seen' = Seen /\ \A x \in Seen : x \in Id /\ x # pass.cur /\ place[x] # "unused"
    BY <1>1, <2>1 DEF DiagnosisInv, Strangers, Seen
  <2>4. \A x \in Seen \union Entry : x # pass.cur => place'[x] = place[x]
    <3>1. CASE AllocateContainer
      <4>1. NewName \in Container /\ place[NewName] = "unused" /\ place' = [place EXCEPT ![NewName] = "root"]
        BY <3>1 DEF AllocateContainer, NewName
      <4> QED
        BY <1>1, <2>3, <4>1, TxRootAssumption DEF Id
    <3>2. CASE UNCHANGED place
      BY <3>2
    <3>3. CASE MovePayload
      BY <1>1, <2>3, <3>3 DEF MovePayload, Id
    <3> QED
      BY <1>3, <3>1, <3>2, <3>3 DEF AllocateFails, WriteTemp, WriteMeta
  <2>5. \A x \in Seen \cap Container :
          /\ ~IsValidQuarantineContainer(x)'
          /\ pass'.pc \in Boxing => x # pass'.box
    <3> SUFFICES ASSUME NEW x \in Seen \cap Container
                 PROVE  /\ ~IsValidQuarantineContainer(x)'
                        /\ pass'.pc \in Boxing => x # pass'.box
      OBVIOUS
    <3>1. /\ ~IsValidQuarantineContainer(x) /\ place[x] # "unused"
          /\ pass.pc \in Boxing => x # pass.box
      BY <1>1 DEF DiagnosisInv, Strangers
    <3>2. x \notin {"unused", "root", "gone"}
      BY TxRootAssumption
    <3>3. CASE AllocateContainer
      <4>1. /\ NewName \in Container /\ place[NewName] = "unused" /\ place' = [place EXCEPT ![NewName] = "root"]
            /\ pass'.box = NewName /\ inside' = inside
        BY <1>1, <3>3 DEF AllocateContainer, NewName, Pass
      <4>2. Holds(x)' = Holds(x)
        BY <1>1, <3>2, <4>1 DEF Holds, Id
      <4> QED
        BY <3>1, <4>1, <4>2 DEF IsValidQuarantineContainer
    <3>4. CASE WriteTemp \/ WriteMeta
      <4>1. pass.pc \in Boxing /\ place' = place /\ pass'.box = pass.box /\ inside'[x] = inside[x]
        BY <1>1, <3>1, <3>4, GotoFacts DEF WriteTemp, WriteMeta, Boxing, Steps
      <4> QED
        BY <3>1, <4>1 DEF IsValidQuarantineContainer, Holds
    <3>5. CASE MovePayload
      <4>1. /\ place' = [place EXCEPT ![pass.cur] = pass.box] /\ place[pass.cur] = "root" /\ inside' = inside
            /\ x # pass.box /\ pass'.pc = pass.back
        BY <1>3, <1>1, <3>1, <3>5 DEF MovePayload, InRoot, Boxing, Pass, evidence
      <4>2. Holds(x)' = Holds(x)
        BY <1>1, <3>2, <4>1 DEF Holds, Id
      <4>3. pass'.pc \notin Boxing
        BY <1>1, <4>1 DEF Boxing, Buckets, Known
      <4> QED
        BY <3>1, <4>1, <4>2, <4>3 DEF IsValidQuarantineContainer
    <3> QED
      BY <1>3, <3>3, <3>4, <3>5 DEF AllocateFails
  <2>6. Swept'
    BY <1>1, <2>1, <2>2 DEF DiagnosisInv, Swept
  <2>7. Strangers'
    <3>1. pass'.pc \in Boxing => pass'.box \in Container
      BY <2>2 DEF PromiseInv, RootInv, InBox
    <3> QED
      BY <1>1, <2>1, <2>2, <2>3, <2>4, <2>5, <3>1 DEF DiagnosisInv, Strangers, Seen, Id
  <2>8. Here'
    BY <1>1, <2>1, <2>2, <2>3, <2>4 DEF DiagnosisInv, Here, Seen, InRoot
  <2>9. Covered'
    <3>1. \A x \in Entry : InRoot(x)' /\ x = pass.cur => pass'.pc \in Moving
      <4> SUFFICES ASSUME NEW x \in Entry, InRoot(x)', x = pass.cur, pass'.pc \notin Moving
                   PROVE  FALSE
        OBVIOUS
      <4>1. place' = [place EXCEPT ![pass.cur] = pass.box] /\ pass.box \in Container
        BY <1>1, <1>3, <2>1, <2>2 DEF MovePayload, evidence, Boxing
      <4> QED
        BY <1>1, <4>1, TxRootAssumption DEF InRoot
    <3> QED
      BY <1>1, <2>1, <2>2, <2>4, <3>1 DEF DiagnosisInv, Covered, InRoot
  <2> QED
    BY <2>2, <2>6, <2>7, <2>8, <2>9 DEF DiagnosisInv, ReadyOk, RefusalIsDiagnosed
<1> QED
  BY <1>2, <1>3

\* Another program makes no stray a journal or a trusted container.
LEMMA DiagnosisDisturbed ==
  ASSUME DiagnosisInv, PromiseInv', Disturbed, inside' = inside,
         \A x \in Entry : node'[x].prefix = node[x].prefix,
         \A x \in Id : place[x] # "unused" => place'[x] # "unused",
         \A c \in Container : Holds(c)' = Holds(c)
  PROVE  DiagnosisInv'
<1>1. /\ pass'.calm = FALSE
      /\ pass'.pc = pass.pc /\ pass'.back = pass.back /\ pass'.cur = pass.cur
      /\ pass'.box = pass.box /\ pass'.found = pass.found /\ pass'.refused = pass.refused
      /\ pass'.result = pass.result
  BY DisturbedFacts DEF DiagnosisInv, PromiseInv, RootInv, RootTypeOK
<1>2. Swept'
  BY <1>1 DEF DiagnosisInv, Swept, Loop
<1>3. Strangers'
  BY <1>1 DEF DiagnosisInv, Strangers, Seen, IsValidQuarantineContainer
<1> QED
  BY <1>1, <1>2, <1>3 DEF DiagnosisInv, Here, Covered, ReadyOk, RefusalIsDiagnosed

LEMMA DiagnosisFaults ==
  ASSUME DiagnosisInv, PromiseInv', Disturbance \/ Tampering
  PROVE  DiagnosisInv'
<1>1. /\ pass \in Pass /\ node \in [Entry -> Node]
      /\ place \in [Id -> {"unused", "root", "gone"} \union Container]
  BY DEF DiagnosisInv, PromiseInv, RootInv, RootTypeOK
<1>2. CASE IOError \/ Crash
  <2>1. pass'.pc = "idle" /\ pass'.result = "error"
    BY <1>1, <1>2, StoppedFacts DEF IOError, Crash
  <2> QED
    BY <2>1, DiagnosisStops
<1>3. CASE \E x \in Id : Take(x) \/ (x \in Entry /\ Drop(x))
  <2>1. PICK x \in Id : Take(x) \/ (x \in Entry /\ Drop(x))
    BY <1>3
  <2>2. \E w \in {"root", "gone"} : place' = [place EXCEPT ![x] = w]
    BY <2>1 DEF Take, Drop
  <2>3. place[x] \in {"unused", "root"}
    BY <2>1 DEF Take, Drop, InRoot
  <2>4. ASSUME NEW c \in Container
        PROVE  Holds(c)' = Holds(c)
    <3>1. c \notin {"unused", "root", "gone"}
      BY TxRootAssumption
    <3> QED
      BY <1>1, <2>2, <2>3, <3>1 DEF Holds
  <2>5. \A y \in Id : place[y] # "unused" => place'[y] # "unused"
    BY <1>1, <2>2
  <2> QED
    BY <2>1, <2>4, <2>5, DiagnosisDisturbed DEF Take, Drop
<1>4. CASE \E x \in Entry : Drift(x)
  BY <1>1, <1>4, DiagnosisDisturbed DEF Drift, Node, Holds
<1>5. CASE Tampering
  BY <1>5, DiagnosisDisturbed DEF Tampering, Tamper, evidence, Holds
<1> QED
  BY <1>2, <1>3, <1>4, <1>5 DEF Disturbance, Id

\* A command that recovery let through is refused for what doctor reports too.
LEMMA DiagnosisInstalls ==
  ASSUME DiagnosisInv, PromiseInv', NEW e \in Versions, InstallFails(e)
  PROVE  DiagnosisInv'
<1>1. UNCHANGED <<evidence, files>>
  BY DEF InstallFails
<1>2. CASE End("error")
  BY <1>1, <1>2, DiagnosisRefuses DEF DiagnosisInv
<1>3. CASE /\ End("refused") /\ pass.pc = "ready"
           /\ NeedsRecovery \/ bak.kind = "special" \/ Load(main) = {}
  <2>1. ASSUME NeedsRecovery, pass.calm
        PROVE  DoctorErrors
    <3>1. PICK b \in Buckets : Inspect[b] # {}
      BY <2>1 DEF NeedsRecovery
    <3>2. PICK x \in Id : InRoot(x) /\ Bucket(x) = b
      BY <3>1 DEF Inspect
    <3>3. b = "unknown"
      BY <1>3, <2>1, <3>2, TxRootAssumption DEF DiagnosisInv, Covered, Bucket, Buckets, Known, Id
    <3>4. x \in TransactionErrors
      BY <3>2, <3>3 DEF TransactionErrors
    <3> QED
      BY <3>4 DEF DoctorErrors
  <2> QED
    BY <1>1, <1>3, <2>1, UnreadableIsDiagnosed, DiagnosisRefuses DEF DiagnosisInv
<1> QED
  BY <1>2, <1>3 DEF InstallFails

LEMMA DiagnosisPreserved == DiagnosisInv /\ [Next]_vars => DiagnosisInv'
<1> SUFFICES ASSUME DiagnosisInv, [Next]_vars
             PROVE  DiagnosisInv'
  OBVIOUS
<1>1. PromiseInv' /\ pass \in Pass
  BY PromisePreserved DEF DiagnosisInv, PromiseInv, RootInv, RootTypeOK
<1>2. CASE UNCHANGED <<rootVars, files>>
  BY <1>1, <1>2, DoctorStays DEF rootVars, evidence, DiagnosisInv, Swept, Strangers, Here, Covered, ReadyOk,
     RefusalIsDiagnosed, Loop, Seen, IsValidQuarantineContainer, Holds, InRoot
<1>3. CASE UNCHANGED vars
  BY <1>2, <1>3 DEF vars
<1>4. CASE Acquire
  BY <1>1, <1>4, DiagnosisStarts DEF Acquire, DiagnosisInv
<1>5. CASE Recovering /\ UNCHANGED files
  BY <1>1, <1>5, DiagnosisTaking, DiagnosisLoops, DiagnosisCleans, DiagnosisMoves DEF Recovering, Buckets
<1>6. CASE Release /\ UNCHANGED files
  BY <1>1, <1>6, DiagnosisRefuses DEF Release, DiagnosisInv, ReadyOk
<1>7. CASE Disturbance \/ Tampering
  BY <1>1, <1>7, DiagnosisFaults
<1>8. CASE \E p \in plan : Apply(p)
  <2>1. PICK p \in plan : Apply(p)
    BY <1>8
  <2>2. CASE p.action = "recover"
    BY <1>1, <2>1, <2>2, DiagnosisStarts DEF Apply, DiagnosisInv
  <2>3. CASE p.action # "recover"
    <3>1. pass'.pc = "restore"
      BY <1>1, <2>1, <2>3 DEF Apply, Pass
    <3> QED
      BY <1>1, <3>1, DiagnosisStops
  <2> QED
    BY <2>2, <2>3
<1>9. CASE (\E p \in plan : RestoreBackup(p)) \/ (\E s \in saving : SaveManifest(s))
  <2>1. pass'.pc = "idle" /\ pass'.result = "ok"
    BY <1>1, <1>9, EndFacts DEF RestoreBackup, SaveManifest
  <2> QED
    BY <1>1, <2>1, DiagnosisStops
<1>10. CASE \E e \in Versions : SaveBackup(e)
  <2>1. pass'.pc = "save"
    BY <1>1, <1>10, GotoFacts DEF SaveBackup, Steps
  <2> QED
    BY <1>1, <2>1, DiagnosisStops
<1>11. CASE \E e \in Versions : InstallFails(e)
  BY <1>1, <1>11, DiagnosisInstalls
<1>12. CASE (\E a \in {"recover", "restore"} : BuildPlan(a)) \/ DropPlan \/ \E p \in plan : ApplyStale(p)
  BY <1>2, <1>12 DEF BuildPlan, DropPlan, ApplyStale
<1> QED
  BY <1>3, <1>4, <1>5, <1>6, <1>7, <1>8, <1>9, <1>10, <1>11, <1>12 DEF Next, Root, RootNext, Repairing, Installing

\* What makes a command, or a confirmed repair, refuse to run is an error in
\* doctor's report, so long as nothing happened in between.
THEOREM RefusalsAreDiagnosed == Spec => []RefusalIsDiagnosed
<1>1. Init => DiagnosisInv
  <2>1. Init => pass.pc = "idle" /\ pass.result = "none"
    BY DEF Init, RootInit
  <2>2. {"idle"} \cap (Taking \union Cleaning) = {}
    BY DEF Taking, Moving, Buckets, Known, Cleaning
  <2>3. Init => PromiseInv
    <3>1. Init => pass.mode = "command"
      BY DEF Init, RootInit
    <3> QED
      BY <2>1, <2>2, <3>1, RootInitial DEF PromiseInv, Sorted, Promising
  <2> QED
    BY <2>1, <2>2, <2>3 DEF DiagnosisInv, Swept, Strangers, Here, Covered, ReadyOk, RefusalIsDiagnosed
<1>2. DiagnosisInv => RefusalIsDiagnosed
  BY DEF DiagnosisInv
<1> QED
  BY <1>1, <1>2, DiagnosisPreserved, PTL DEF Spec

-----------------------------------------------------------------------------
(* Every pass ends *)

Journaled == Cardinality(pass.kept) + Cardinality(Kept("pending"))
SamePrefixes == \A x \in Entry : node'[x].prefix = node[x].prefix

LEMMA WorkIsSum == Work = 8 * Unseen + 2 * Journaled + Position
BY DEF Work, Journaled

LEMMA Sizes ==
  ASSUME pass \in Pass
  PROVE  /\ \A b \in Buckets : IsFiniteSet(pass.found[b]) /\ Cardinality(pass.found[b]) \in Nat
         /\ IsFiniteSet(pass.kept) /\ IsFiniteSet(Kept("pending"))
         /\ Unseen \in Nat /\ Journaled \in Nat
<1>1. IsFiniteSet(Id)
  BY TxRootAssumption, FS_Union DEF Id
<1>2. \A b \in Buckets : pass.found[b] \in SUBSET Id
  BY DEF Pass
<1>3. pass.kept \in SUBSET Id /\ Kept("pending") \in SUBSET Id
  BY DEF Pass, Kept
<1>4. \A S \in SUBSET Id : IsFiniteSet(S) /\ Cardinality(S) \in Nat
  BY <1>1, FS_Subset, FS_CardinalityType
<1>5. \A b \in Buckets : IsFiniteSet(pass.found[b]) /\ Cardinality(pass.found[b]) \in Nat
  BY <1>2, <1>4
<1>6. Unseen \in Nat
  BY <1>5 DEF Unseen, Buckets, Known
<1>7. Journaled \in Nat
  BY <1>3, <1>4 DEF Journaled
<1> QED
  BY <1>3, <1>4, <1>5, <1>6, <1>7

LEMMA Positions ==
  ASSUME pass \in Pass
  PROVE  /\ Position \in Nat /\ (Position = 0 <=> pass.pc = "idle")
         /\ pass.pc \in DOMAIN Stage => Position = Stage[pass.pc]
         /\ pass.pc \in Moving => Position = Stage[pass.back] + Substep[pass.pc]
<1>1. DOMAIN Stage = Steps \ Moving /\ DOMAIN Substep = Moving
  BY DEF Stage, Substep, Steps, Moving, Buckets, Known
<1>2. pass.pc \in Steps /\ pass.back \in Buckets \union {"idle"}
  BY DEF Pass, Steps
<1>3. \A s \in DOMAIN Stage : Stage[s] \in Nat /\ (Stage[s] = 0 <=> s = "idle")
  BY DEF Stage
<1>4. \A s \in Moving : Substep[s] \in Nat \ {0}
  BY DEF Substep, Moving
<1>5. pass.back \in DOMAIN Stage
  BY <1>2 DEF Stage, Buckets, Known
<1>6. CASE pass.pc \in Moving
  <2>1. Position = Stage[pass.back] + Substep[pass.pc] /\ pass.pc \notin DOMAIN Stage /\ pass.pc # "idle"
    BY <1>1, <1>6 DEF Position, Moving
  <2>2. Stage[pass.back] \in Nat /\ Substep[pass.pc] \in Nat \ {0}
    BY <1>3, <1>4, <1>5, <1>6
  <2> QED
    BY <1>6, <2>1, <2>2
<1>7. CASE pass.pc \notin Moving
  <2>1. Position = Stage[pass.pc] /\ pass.pc \in DOMAIN Stage
    BY <1>1, <1>2, <1>7 DEF Position
  <2> QED
    BY <1>3, <1>7, <2>1
<1> QED
  BY <1>6, <1>7

\* What Sizes and Positions say of a state they say of the next one.
PassCounted ==
  pass \in Pass =>
    /\ \A b \in Buckets : IsFiniteSet(pass.found[b]) /\ Cardinality(pass.found[b]) \in Nat
    /\ IsFiniteSet(pass.kept) /\ IsFiniteSet(Kept("pending"))
    /\ Unseen \in Nat /\ Journaled \in Nat
PassPlaced ==
  pass \in Pass =>
    /\ Position \in Nat /\ (Position = 0 <=> pass.pc = "idle")
    /\ pass.pc \in DOMAIN Stage => Position = Stage[pass.pc]
    /\ pass.pc \in Moving => Position = Stage[pass.back] + Substep[pass.pc]
WorkSummed == Work = 8 * Unseen + 2 * Journaled + Position

LEMMA Measures == PassCounted /\ PassPlaced /\ WorkSummed
<1>1. PassCounted
  BY Sizes DEF PassCounted
<1>2. PassPlaced
  BY Positions DEF PassPlaced
<1> QED
  BY <1>1, <1>2, WorkIsSum DEF WorkSummed

LEMMA MeasuresNext == PassCounted' /\ PassPlaced' /\ WorkSummed'
BY Measures, PTL

LEMMA WorkNext == Work' = 8 * Unseen' + 2 * Journaled' + Position'
BY MeasuresNext DEF WorkSummed

LEMMA SizesNext ==
  ASSUME pass' \in Pass
  PROVE  /\ \A b \in Buckets : IsFiniteSet(pass'.found[b]) /\ Cardinality(pass'.found[b]) \in Nat
         /\ IsFiniteSet(pass'.kept) /\ IsFiniteSet(Kept("pending")')
         /\ Unseen' \in Nat /\ Journaled' \in Nat
BY MeasuresNext DEF PassCounted

LEMMA PositionsNext ==
  ASSUME pass' \in Pass
  PROVE  /\ Position' \in Nat /\ (Position' = 0 <=> pass'.pc = "idle")
         /\ pass'.pc \in DOMAIN Stage => Position' = Stage[pass'.pc]
         /\ pass'.pc \in Moving => Position' = Stage[pass'.back] + Substep[pass'.pc]
BY MeasuresNext DEF PassPlaced

LEMMA OneMore ==
  ASSUME NEW S, IsFiniteSet(S), NEW x
  PROVE  IsFiniteSet(S \union {x}) /\ Cardinality(S \union {x}) <= Cardinality(S) + 1
<1>1. Cardinality(S) \in Nat
  BY FS_CardinalityType
<1>2. /\ IsFiniteSet(S \union {x})
      /\ Cardinality(S \union {x}) = IF x \in S THEN Cardinality(S) ELSE Cardinality(S) + 1
  BY FS_AddElement
<1> QED
  BY <1>1, <1>2

LEMMA SameJournals ==
  ASSUME pass'.kept = pass.kept, SamePrefixes
  PROVE  Journaled' = Journaled
<1>1. Kept("pending")' = Kept("pending")
  BY DEF Kept, SamePrefixes
<1> QED
  BY <1>1 DEF Journaled

\* A step that takes nothing up and goes on, or ends the pass.
LEMMA Advances ==
  ASSUME pass \in Pass, pass' \in Pass, pass'.found = pass.found, pass'.kept = pass.kept, SamePrefixes,
         Position' < Position
  PROVE  Work' < Work
<1>1. Unseen' = Unseen /\ Journaled' = Journaled
  BY SameJournals DEF Unseen
<1> QED
  BY <1>1, WorkIsSum, WorkNext, Sizes, SizesNext, Positions, PositionsNext

LEMMA Finishes ==
  ASSUME pass \in Pass, pass' \in Pass, pass.pc # "idle", pass'.pc = "idle",
         pass'.found = pass.found, pass'.kept = pass.kept, SamePrefixes
  PROVE  Work' < Work
<1>1. Position' = 0 /\ Position > 0
  BY Positions, PositionsNext
<1> QED
  BY <1>1, Advances

\* An entry that Inspect found is looked at.
LEMMA Looks ==
  ASSUME pass \in Pass, pass' \in Pass, NEW b \in Buckets, NEW x \in pass.found[b],
         pass'.found = Without(b, x)
  PROVE  Unseen' = Unseen - 1
<1>1. \A c \in Buckets : pass'.found[c] = IF c = b THEN pass.found[c] \ {x} ELSE pass.found[c]
  BY DEF Without, Pass
<1>2. Cardinality(pass'.found[b]) = Cardinality(pass.found[b]) - 1
  <2>1. IsFiniteSet(pass.found[b]) /\ pass'.found[b] = pass.found[b] \ {x}
    BY <1>1, Sizes
  <2> QED
    BY <2>1, FS_RemoveElement
<1>3. \A c \in Buckets : c # b => pass'.found[c] = pass.found[c]
  BY <1>1
<1> QED
  BY <1>2, <1>3, Sizes, SizesNext DEF Unseen, Buckets, Known

LEMMA LooksLess ==
  ASSUME pass \in Pass, pass' \in Pass, NEW b \in Buckets, NEW x \in pass.found[b],
         pass'.found = Without(b, x),
         2 * Journaled' + Position' < 2 * Journaled + Position + 8
  PROVE  Work' < Work
<1>1. Unseen' = Unseen - 1
  BY Looks
<1> QED
  BY <1>1, WorkIsSum, WorkNext, Sizes, SizesNext, Positions, PositionsNext

LEMMA TakingWorks ==
  ASSUME pass \in Pass, pass' \in Pass, UNCHANGED node, NEW b \in Buckets, NEW x \in Id,
         TakeGone(b, x) \/ TakeStray(b, x) \/ TakeJournal(b, x) \/ (b = "unknown" /\ TakeUnknown(x))
  PROVE  Work' < Work
<1>0. pass.pc = b /\ x \in pass.found[b] /\ b \notin Moving /\ b \in DOMAIN Stage /\ SamePrefixes
  BY DEF TakeGone, TakeStray, TakeJournal, TakeUnknown, At, Buckets, Known, Moving, Stage, SamePrefixes
<1>1. CASE TakeGone(b, x)
  <2>1. pass.pc # "idle" /\ End("error")
    BY <1>0, <1>1 DEF TakeGone, Buckets, Known
  <2> QED
    BY <1>0, <2>1, EndFacts, Finishes
<1>2. CASE TakeStray(b, x)
  <2>1. /\ pass'.found = Without(b, x) /\ pass'.kept = pass.kept
        /\ pass'.back = b /\ pass'.pc = "alloc"
    BY <1>2 DEF TakeStray, Pass
  <2>2. Position' = Stage[b] + 4 /\ Position = Stage[b]
    BY <1>0, <2>1, Positions, PositionsNext DEF Moving, Substep
  <2>3. Journaled' = Journaled
    BY <1>0, <2>1, SameJournals
  <2>4. Stage[b] \in Nat
    BY DEF Stage, Buckets, Known
  <2> QED
    BY <1>0, <2>1, <2>2, <2>3, <2>4, LooksLess, Sizes, SizesNext
<1>3. CASE TakeJournal(b, x)
  <2>1. pass'.found = Without(b, x) /\ pass'.kept = pass.kept \union {x} /\ pass'.pc = pass.pc
    BY <1>3 DEF TakeJournal, Pass
  <2>2. Position' = Position
    BY <1>0, <2>1, Positions, PositionsNext
  <2>3. Cardinality(pass'.kept) <= Cardinality(pass.kept) + 1
    BY <2>1, Sizes, OneMore
  <2>4. Cardinality(Kept("pending")') <= Cardinality(Kept("pending")) + 1
    <3>1. Kept("pending")' \in SUBSET (Kept("pending") \union {x})
      BY <1>0, <2>1 DEF Kept, SamePrefixes
    <3>2. /\ IsFiniteSet(Kept("pending") \union {x})
          /\ Cardinality(Kept("pending") \union {x}) <= Cardinality(Kept("pending")) + 1
      BY Sizes, OneMore
    <3>3. Cardinality(Kept("pending")') <= Cardinality(Kept("pending") \union {x})
      BY <3>1, <3>2, FS_Subset
    <3>4. /\ Cardinality(Kept("pending")') \in Nat /\ Cardinality(Kept("pending")) \in Nat
          /\ Cardinality(Kept("pending") \union {x}) \in Nat
      BY <3>2, Sizes, SizesNext, FS_CardinalityType
    <3> QED
      BY <3>2, <3>3, <3>4
  <2>5. Journaled' <= Journaled + 2
    <3>1. /\ Cardinality(pass.kept) \in Nat /\ Cardinality(Kept("pending")) \in Nat
          /\ Cardinality(pass'.kept) \in Nat /\ Cardinality(Kept("pending")') \in Nat
      BY Sizes, SizesNext, FS_CardinalityType
    <3> QED
      BY <2>3, <2>4, <3>1 DEF Journaled
  <2> QED
    BY <1>0, <2>1, <2>2, <2>5, LooksLess, Sizes, SizesNext, Positions, PositionsNext
<1>4. CASE b = "unknown" /\ TakeUnknown(x)
  <2>1. pass'.found = Without(b, x) /\ pass'.kept = pass.kept /\ pass'.pc = pass.pc
    BY <1>4 DEF TakeUnknown, Pass
  <2>2. Position' = Position /\ Journaled' = Journaled
    BY <1>0, <2>1, Positions, PositionsNext, SameJournals
  <2> QED
    BY <1>0, <2>1, <2>2, LooksLess, Sizes, SizesNext, Positions, PositionsNext
<1> QED
  BY <1>1, <1>2, <1>3, <1>4

LEMMA GoesForward ==
  ASSUME pass \in Pass, pass' \in Pass, NEW s \in Steps, Goto(s), UNCHANGED node,
         \/ pass.pc \in DOMAIN Stage /\ s \in DOMAIN Stage /\ Stage[s] < Stage[pass.pc]
         \/ pass.pc \in Moving /\ s \in Moving /\ Substep[s] < Substep[pass.pc]
  PROVE  Work' < Work
<1>1. /\ pass'.pc = s /\ pass'.back = pass.back /\ pass'.found = pass.found /\ pass'.kept = pass.kept
  BY GotoFacts
<1>2. Position' < Position
  <2>1. CASE pass.pc \in DOMAIN Stage /\ s \in DOMAIN Stage /\ Stage[s] < Stage[pass.pc]
    BY <1>1, <2>1, Positions, PositionsNext
  <2>2. CASE pass.pc \in Moving /\ s \in Moving /\ Substep[s] < Substep[pass.pc]
    <3>1. Stage[pass.back] \in Nat
      BY DEF Pass, Stage, Buckets, Known
    <3>2. Substep[s] \in Nat /\ Substep[pass.pc] \in Nat
      BY <2>2 DEF Substep, Moving
    <3> QED
      BY <1>1, <2>2, <3>1, <3>2, Positions, PositionsNext
  <2> QED
    BY <2>1, <2>2
<1> QED
  BY <1>1, <1>2, Advances DEF SamePrefixes

LEMMA JournalWorks ==
  ASSUME pass \in Pass, pass' \in Pass, node \in [Entry -> Node], NEW x \in Entry,
         CleanJournal(x) \/ LoadPending(x)
  PROVE  Work' < Work
<1>1. CASE \E r \in {"error", "refused"} : End(r) /\ UNCHANGED node /\ pass.pc # "idle"
  BY <1>1, EndFacts, Finishes DEF SamePrefixes
<1>2. CASE CleanJournal(x) /\ pass' = [pass EXCEPT !.kept = @ \ {x}]
  <2>1. x \in pass.kept /\ pass'.kept = pass.kept \ {x} /\ pass'.pc = pass.pc /\ pass'.found = pass.found
        /\ pass.pc = "clean" /\ SamePrefixes
    BY <1>2 DEF CleanJournal, Pass, Kept, SamePrefixes
  <2>2. Cardinality(pass'.kept) = Cardinality(pass.kept) - 1
    BY <2>1, Sizes, SizesNext, FS_RemoveElement
  <2>3. Cardinality(Kept("pending")') <= Cardinality(Kept("pending"))
    <3>1. Kept("pending")' \in SUBSET Kept("pending")
      BY <2>1 DEF Kept, SamePrefixes
    <3> QED
      BY <3>1, Sizes, SizesNext, FS_Subset
  <2>4. Journaled' < Journaled
    <3>1. /\ Cardinality(pass.kept) \in Nat /\ Cardinality(Kept("pending")) \in Nat
          /\ Cardinality(Kept("pending")') \in Nat
      BY Sizes, SizesNext, FS_CardinalityType
    <3> QED
      BY <2>2, <2>3, <3>1 DEF Journaled
  <2>5. Unseen' = Unseen /\ Position' = Position
    BY <2>1, Positions, PositionsNext DEF Unseen, Stage
  <2> QED
    BY <2>4, <2>5, WorkIsSum, WorkNext, Sizes, SizesNext, Positions, PositionsNext
<1>3. CASE LoadPending(x) /\ Goto("clean") /\ node' = [node EXCEPT ![x].prefix = "completed", ![x].loads = FALSE]
  <2>1. x \in Kept("pending") /\ pass.pc = "load"
    BY <1>3 DEF LoadPending
  <2>2. pass'.pc = "clean" /\ pass'.kept = pass.kept /\ pass'.found = pass.found
    BY <1>3, GotoFacts DEF Steps
  <2>3. Kept("pending")' = Kept("pending") \ {x}
    <3>1. \A y \in Entry : node'[y].prefix = IF y = x THEN "completed" ELSE node[y].prefix
      BY <1>3 DEF Node
    <3> QED
      BY <2>2, <3>1 DEF Kept
  <2>4. Cardinality(Kept("pending")') = Cardinality(Kept("pending")) - 1
    BY <2>1, <2>3, Sizes, SizesNext, FS_RemoveElement
  <2>5. Journaled' = Journaled - 1
    <3>1. Cardinality(pass.kept) \in Nat /\ Cardinality(Kept("pending")) \in Nat
      BY Sizes, SizesNext, FS_CardinalityType
    <3> QED
      BY <2>2, <2>4, <3>1 DEF Journaled
  <2>6. Unseen' = Unseen /\ Position' = 3 /\ Position = 2
    BY <2>1, <2>2, Positions, PositionsNext DEF Unseen, Stage
  <2> QED
    BY <2>5, <2>6, WorkIsSum, WorkNext, Sizes, SizesNext
<1> QED
  BY <1>1, <1>2, <1>3 DEF CleanJournal, LoadPending

LEMMA LoopWorks ==
  ASSUME pass \in Pass, pass' \in Pass, UNCHANGED node,
         (\E b \in Buckets : LoopDone(b)) \/ CountPending \/ CleanDone
  PROVE  Work' < Work
<1>1. CASE \E r \in {"refused", "error"} : End(r) /\ pass.pc # "idle"
  BY <1>1, EndFacts, Finishes DEF SamePrefixes
<1>2. ASSUME NEW b \in Buckets, pass.pc = b, Goto(Following[b])
      PROVE  Work' < Work
  <2>1. /\ Following[b] \in Steps /\ Following[b] \in DOMAIN Stage /\ b \in DOMAIN Stage
        /\ Stage[Following[b]] < Stage[b]
    BY DEF Following, Stage, Steps, Buckets, Known
  <2> QED
    BY <1>2, <2>1, GoesForward
<1>3. CASE pass.pc = "count" /\ Goto("clean")
  <2>1. "clean" \in Steps /\ {"count", "clean"} \subseteq DOMAIN Stage /\ Stage["clean"] < Stage["count"]
    BY DEF Stage, Steps
  <2> QED
    BY <1>3, <2>1, GoesForward
<1>4. CASE pass.pc = "clean" /\ Goto("load")
  <2>1. "load" \in Steps /\ {"clean", "load"} \subseteq DOMAIN Stage /\ Stage["load"] < Stage["clean"]
    BY DEF Stage, Steps
  <2> QED
    BY <1>4, <2>1, GoesForward
<1>5. CASE pass.pc = "clean" /\ pass' = [pass EXCEPT !.pc = "ready", !.result = "ok"]
  <2>1. pass'.pc = "ready" /\ pass'.found = pass.found /\ pass'.kept = pass.kept
    BY <1>5 DEF Pass
  <2>2. Position' = 2 /\ Position = 3
    BY <1>5, <2>1, Positions, PositionsNext DEF Stage
  <2> QED
    BY <2>1, <2>2, Advances DEF SamePrefixes
<1>6. CASE \E b \in Buckets : LoopDone(b)
  <2>1. PICK b \in Buckets : LoopDone(b)
    BY <1>6
  <2>2. pass.pc = b /\ b # "idle"
    BY <2>1 DEF LoopDone, Buckets, Known
  <2> QED
    BY <1>1, <1>2, <2>1, <2>2 DEF LoopDone
<1> QED
  BY <1>1, <1>3, <1>4, <1>5, <1>6 DEF CountPending, CleanDone

LEMMA QuarantineWorks ==
  ASSUME pass \in Pass, pass' \in Pass, UNCHANGED node,
         AllocateContainer \/ AllocateFails \/ WriteTemp \/ WriteMeta \/ MovePayload
  PROVE  Work' < Work
<1>1. CASE \E r \in {"refused", "error"} : End(r) /\ pass.pc # "idle"
  BY <1>1, EndFacts, Finishes DEF SamePrefixes
<1>2. CASE AllocateContainer
  <2>1. /\ pass.pc = "alloc" /\ pass'.pc = "temp" /\ pass'.back = pass.back
        /\ pass'.found = pass.found /\ pass'.kept = pass.kept
    BY <1>2 DEF AllocateContainer, Pass
  <2>2. Stage[pass.back] \in Nat
    BY DEF Pass, Stage, Buckets, Known
  <2>3. Position' = Stage[pass.back] + 3 /\ Position = Stage[pass.back] + 4
    BY <2>1, Positions, PositionsNext DEF Moving, Substep
  <2> QED
    BY <2>1, <2>2, <2>3, Advances DEF SamePrefixes
<1>3. CASE WriteTemp
  <2>1. "meta" \in Steps \cap Moving /\ "temp" \in Moving /\ Substep["meta"] < Substep["temp"]
    BY DEF Steps, Moving, Substep
  <2> QED
    BY <1>3, <2>1, GoesForward DEF WriteTemp
<1>4. CASE WriteMeta
  <2>1. "move" \in Steps \cap Moving /\ "meta" \in Moving /\ Substep["move"] < Substep["meta"]
    BY DEF Steps, Moving, Substep
  <2> QED
    BY <1>4, <2>1, GoesForward DEF WriteMeta
<1>5. CASE pass.pc = "move" /\ pass' = [pass EXCEPT !.pc = pass.back, !.cur = None, !.box = None]
  <2>1. pass'.pc = pass.back /\ pass'.found = pass.found /\ pass'.kept = pass.kept
    BY <1>5 DEF Pass
  <2>2. pass.back \in DOMAIN Stage /\ Stage[pass.back] \in Nat
    BY DEF Pass, Stage, Buckets, Known
  <2>3. Position' = Stage[pass.back] /\ Position = Stage[pass.back] + 1
    BY <1>5, <2>1, <2>2, Positions, PositionsNext DEF Moving, Substep
  <2> QED
    BY <2>1, <2>2, <2>3, Advances DEF SamePrefixes
<1> QED
  BY <1>1, <1>2, <1>3, <1>4, <1>5 DEF AllocateFails, MovePayload

\* What others do gives a pass nothing more to do.
LEMMA DisturbanceWorks ==
  ASSUME pass \in Pass, pass' \in Pass, Disturbed, SamePrefixes
  PROVE  Work' = Work
<1>1. /\ pass'.pc = pass.pc /\ pass'.back = pass.back
      /\ pass'.found = pass.found /\ pass'.kept = pass.kept
  BY DisturbedFacts
<1>2. Journaled' = Journaled /\ Unseen' = Unseen /\ Position' = Position
  BY <1>1, SameJournals DEF Unseen, Position
<1> QED
  BY <1>2, WorkIsSum, WorkNext

LEMMA RootWorks ==
  ASSUME RootInv, RootInv', RootNext, pass.pc # "idle"
  PROVE  Work' < Work \/ (Work' = Work /\ pass' = [pass EXCEPT !.calm = FALSE])
<1>0. pass \in Pass /\ pass' \in Pass /\ node \in [Entry -> Node]
  BY DEF RootInv, RootTypeOK
<1>1. CASE Recovering
  <2>1. CASE \E b \in Buckets, x \in Id : TakeGone(b, x) \/ TakeStray(b, x) \/ TakeJournal(b, x)
    <3>1. UNCHANGED node
      BY <2>1 DEF TakeGone, TakeStray, TakeJournal, evidence
    <3> QED
      BY <1>0, <2>1, <3>1, TakingWorks
  <2>2. CASE \E x \in Id : TakeUnknown(x)
    <3>1. UNCHANGED node /\ "unknown" \in Buckets
      BY <2>2 DEF TakeUnknown, evidence, Buckets
    <3> QED
      BY <1>0, <2>2, <3>1, TakingWorks
  <2>3. CASE (\E b \in Buckets : LoopDone(b)) \/ CountPending \/ CleanDone
    <3>1. UNCHANGED node
      BY <2>3 DEF LoopDone, CountPending, CleanDone, evidence
    <3> QED
      BY <1>0, <2>3, <3>1, LoopWorks
  <2>4. CASE \E x \in Entry : CleanJournal(x) \/ LoadPending(x)
    BY <1>0, <2>4, JournalWorks
  <2>5. CASE AllocateContainer \/ AllocateFails \/ WriteTemp \/ WriteMeta \/ MovePayload
    <3>1. UNCHANGED node
      BY <2>5 DEF AllocateContainer, AllocateFails, WriteTemp, WriteMeta, MovePayload, evidence
    <3> QED
      BY <1>0, <2>5, <3>1, QuarantineWorks
  <2> QED
    BY <1>1, <2>1, <2>2, <2>3, <2>4, <2>5 DEF Recovering
<1>2. CASE Release
  <2>1. pass.result \in {"none", "ok", "refused", "error"} /\ End(pass.result) /\ SamePrefixes
    BY <1>0, <1>2 DEF Release, Pass, evidence, SamePrefixes
  <2> QED
    BY <1>0, <2>1, EndFacts, Finishes
<1>3. CASE IOError \/ Crash
  <2>1. Stopped /\ SamePrefixes
    BY <1>3 DEF IOError, Crash, evidence, SamePrefixes
  <2>2. pass'.pc = "idle" /\ pass'.found = pass.found /\ pass'.kept = pass.kept
    BY <1>0, <2>1 DEF Stopped, Pass
  <2> QED
    BY <1>0, <2>1, <2>2, Finishes
<1>4. CASE (\E x \in Entry : Drop(x) \/ Drift(x)) \/ \E x \in Id : Take(x)
  <2>1. Disturbed
    BY <1>4 DEF Drop, Drift, Take
  <2>2. SamePrefixes
    <3>1. CASE UNCHANGED node
      BY <3>1 DEF SamePrefixes
    <3>2. CASE \E x \in Entry : Drift(x)
      BY <1>0, <3>2 DEF Drift, Node, SamePrefixes
    <3> QED
      BY <1>4, <3>1, <3>2 DEF Drop, Take
  <2> QED
    BY <1>0, <2>1, <2>2, DisturbanceWorks DEF Disturbed
<1>5. ~Acquire
  BY DEF Acquire
<1> QED
  BY <1>1, <1>2, <1>3, <1>4, <1>5 DEF RootNext, Disturbance

\* Recover always comes to an end: whatever other programs do, a pass takes at
\* most as many steps as what it found when it took the lock allows.
THEOREM PassesEnd == Spec => PassesAreBounded
<1>1. ASSUME RootInv, RootInv', Next, pass.pc # "idle"
      PROVE  Work' < Work \/ (Work' = Work /\ pass' \in {pass, [pass EXCEPT !.calm = FALSE]})
  <2>0. pass \in Pass /\ pass' \in Pass
    BY <1>1 DEF RootInv, RootTypeOK
  <2>1. CASE Root
    BY <1>1, <2>1, RootWorks DEF Root
  <2>2. CASE UNCHANGED rootVars
    <3>1. pass' = pass /\ Work' = Work
      BY <2>2 DEF rootVars, evidence, Work, Unseen, Kept, Position
    <3> QED
      BY <3>1
  <2>3. CASE Repairing
    <3>1. CASE \E p \in plan : RestoreBackup(p)
      BY <1>1, <2>0, <3>1, EndFacts, Finishes DEF RestoreBackup, evidence, SamePrefixes
    <3> QED
      BY <1>1, <2>2, <2>3, <3>1 DEF Repairing, BuildPlan, DropPlan, Apply, ApplyStale
  <2>4. CASE Installing
    <3>1. CASE \E e \in Versions : SaveBackup(e)
      <4>1. pass.pc = "ready" /\ Goto("save") /\ UNCHANGED node
        BY <3>1 DEF SaveBackup, evidence
      <4>2. "save" \in Steps /\ {"ready", "save"} \subseteq DOMAIN Stage /\ Stage["save"] < Stage["ready"]
        BY DEF Steps, Stage
      <4> QED
        BY <2>0, <4>1, <4>2, GoesForward
    <3>2. CASE (\E e \in Versions : InstallFails(e)) \/ \E s \in saving : SaveManifest(s)
      <4>1. (\E r \in {"refused", "error", "ok"} : End(r)) /\ SamePrefixes
        BY <3>2 DEF InstallFails, SaveManifest, evidence, SamePrefixes
      <4> QED
        BY <1>1, <2>0, <4>1, EndFacts, Finishes
    <3> QED
      BY <2>4, <3>1, <3>2 DEF Installing
  <2>5. CASE Tampering
    <3>1. Disturbed /\ SamePrefixes
      BY <2>5 DEF Tampering, Tamper, evidence, SamePrefixes
    <3> QED
      BY <2>0, <3>1, DisturbanceWorks DEF Disturbed
  <2> QED
    BY <1>1, <2>1, <2>3, <2>4, <2>5 DEF Next
<1>2. RootInv' => Work' \in Nat
  BY WorkNext, SizesNext, PositionsNext DEF RootInv, RootTypeOK
<1>3. RootInv /\ RootInv' /\ [Next]_vars =>
        [pass.pc # "idle" =>
           /\ Work' \in Nat
           /\ Work' < Work \/ (Work' = Work /\ pass' \in {pass, [pass EXCEPT !.calm = FALSE]})]_vars
  BY <1>1, <1>2
<1> QED
  BY <1>3, RootInvariant, PTL DEF Spec, PassesAreBounded
=============================================================================
