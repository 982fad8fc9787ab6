---------------------------- MODULE ToolsetProofs ----------------------------
(***************************************************************************)
(* Proofs about Toolset: the lock alone protects the manifest, so that no    *)
(* update is lost; no list makes hukou believe a version; and what an import *)
(* reports stays true.                                                       *)
(***************************************************************************)
EXTENDS Toolset, TLAPS

\* A process is a record, whatever it holds.
Shaped(r) ==
  r \in [pc : {r.pc}, command : {r.command}, todo : {r.todo}, report : {r.report},
         call : {r.call}, base : {r.base}, sha : {r.sha}]
Shapes == proc = [p \in Process |-> proc[p]] /\ \A p \in Process : Shaped(proc[p])
Others(p) == \A q \in Process : q # p => proc'[q] = proc[q]

\* Whoever writes holds the lock, nothing is left behind then, and what is
\* written starts from the manifest as it is.
Holding == {"inspect", "apply", "commit", "save"}
Locking ==
  \A p \in Process : proc[p].pc \in Holding =>
    /\ lock = p /\ pending = {}
    /\ proc[p].pc \in {"apply", "save"} => proc[p].base = manifest
    /\ proc[p].pc = "apply" => proc[p].call.name \notin Names(proc[p].base)

LockInv == Shapes /\ Locking

-----------------------------------------------------------------------------
(* Steps *)

\* One process at a time changes.
LEMMA Becomes ==
  ASSUME Shapes, NEW p \in Process, NEW r, Shaped(r), proc' = [proc EXCEPT ![p] = r]
  PROVE  Shapes' /\ Others(p) /\ proc'[p] = r
BY DEF Shapes, Shaped, Others

LEMMA EndFacts ==
  ASSUME Shapes, NEW p \in Process, NEW status, End(p, status)
  PROVE  /\ Shapes' /\ Others(p)
         /\ proc'[p].base = proc[p].base /\ proc'[p].call = proc[p].call
         /\ proc'[p].command = proc[p].command
         /\ proc[p].command.kind # "import" =>
              proc'[p].pc = "idle" /\ proc'[p].report = proc[p].report
         /\ proc[p].command.kind = "import" =>
              /\ proc'[p].pc = "tool" /\ proc'[p].todo = proc[p].todo \ {Tool(p)}
              /\ proc'[p].report = proc[p].report \union {[tool |-> Tool(p), status |-> status]}
<1>1. CASE proc[p].command.kind # "import"
  <2> DEFINE r == [proc[p] EXCEPT !.pc = "idle"]
  <2>1. Shaped(r) /\ proc' = [proc EXCEPT ![p] = r]
    BY <1>1 DEF Shapes, Shaped, End, Reported
  <2> QED
    BY <1>1, <2>1, Becomes DEF Shapes, Shaped
<1>2. CASE proc[p].command.kind = "import"
  <2> DEFINE r == [proc[p] EXCEPT !.pc = "tool", !.todo = @ \ {Tool(p)},
                                  !.report = @ \union {[tool |-> Tool(p), status |-> status]}]
  <2>1. Shaped(r) /\ proc' = [proc EXCEPT ![p] = r]
    BY <1>2 DEF Shapes, Shaped, End, Reported
  <2> QED
    BY <1>2, <2>1, Becomes DEF Shapes, Shaped
<1> QED
  BY <1>1, <1>2

\* It moves on, and may read the manifest.
LEMMA GoFacts ==
  ASSUME Shapes, NEW p \in Process, NEW s, NEW b, NEW h,
         proc' = [proc EXCEPT ![p].pc = s, ![p].base = b, ![p].sha = h]
  PROVE  /\ Shapes' /\ Others(p)
         /\ proc'[p] = [proc[p] EXCEPT !.pc = s, !.base = b, !.sha = h]
<1> DEFINE r == [proc[p] EXCEPT !.pc = s, !.base = b, !.sha = h]
<1>1. Shaped(r) /\ proc' = [proc EXCEPT ![p] = r]
  BY DEF Shapes, Shaped
<1> QED
  BY <1>1, Becomes

LEMMA LookFacts ==
  ASSUME Shapes, NEW p \in Process, Look(p)
  PROVE  /\ Shapes' /\ Others(p) /\ proc'[p].pc \notin Holding /\ proc'[p].base = proc[p].base
         /\ proc'[p].command = proc[p].command
         /\ proc'[p].pc = "adopt" =>
              /\ proc'[p].todo = proc[p].todo /\ proc'[p].report = proc[p].report
              /\ ~Tool(p).local /\ path[Tool(p).name] # None
              /\ proc'[p].call.name = Tool(p).name /\ ~proc'[p].call.local
              /\ proc'[p].call.tag = resolveImportTag(Tool(p), path[Tool(p).name])
              /\ proc'[p].call.options = Options(Tool(p))
         /\ proc'[p].pc # "adopt" =>
              \E status \in {"skipped", "error"} :
                /\ End(p, status)
                /\ status = "skipped" => Tool(p).local \/ Tool(p).name \in Names(manifest)
<1> DEFINE t == Tool(p)
           c == [name |-> t.name, local |-> FALSE, repo |-> TRUE, force |-> proc[p].command.force,
                 tag |-> resolveImportTag(t, path[t.name]), options |-> Options(t)]
<1>1. CASE End(p, "skipped") /\ (t.local \/ t.name \in Names(manifest))
  BY <1>1, EndFacts DEF Holding
<1>2. CASE End(p, "error")
  BY <1>2, EndFacts DEF Holding
<1>3. CASE proc' = [proc EXCEPT ![p].pc = "adopt", ![p].call = c] /\ ~t.local /\ path[t.name] # None
  <2>0. /\ c.name = t.name /\ ~c.local /\ c.tag = resolveImportTag(t, path[t.name])
        /\ c.options = Options(t)
    OBVIOUS
  <2> HIDE DEF c
  <2> DEFINE r == [proc[p] EXCEPT !.pc = "adopt", !.call = c]
  <2>1. Shaped(r) /\ proc' = [proc EXCEPT ![p] = r]
    BY <1>3 DEF Shapes, Shaped
  <2>2. /\ r.pc = "adopt" /\ r.call = c /\ r.base = proc[p].base /\ r.todo = proc[p].todo
        /\ r.report = proc[p].report /\ r.command = proc[p].command
    BY DEF Shapes, Shaped
  <2> HIDE DEF r
  <2> QED
    BY <1>3, <2>0, <2>1, <2>2, Becomes DEF Holding
<1> QED
  BY <1>1, <1>2, <1>3 DEF Look

LEMMA StartFacts ==
  ASSUME Shapes, NEW p \in Process, Start(p)
  PROVE  /\ Shapes' /\ Others(p) /\ proc[p].pc = "idle" /\ proc'[p].pc \in {"tool", "adopt", "policy"}
         /\ proc'[p].base = {} /\ proc'[p].report = {} /\ proc'[p].command \in Commands
         /\ IF proc'[p].pc = "tool"
            THEN proc'[p].command.kind = "import" /\ Valid(list) /\ proc'[p].todo \subseteq list
            ELSE proc'[p].command.kind = proc'[p].pc /\ proc'[p].call = proc'[p].command.call
<1>0. proc[p].pc = "idle"
  BY DEF Start
<1>1. PICK c \in Commands :
        IF c.kind = "import"
        THEN Valid(list) /\ proc' = [proc EXCEPT ![p] = [Idle EXCEPT !.pc = "tool", !.command = c, !.todo = Selected(c)]]
        ELSE proc' = [proc EXCEPT ![p] = [Idle EXCEPT !.pc = c.kind, !.command = c, !.call = c.call]]
  BY DEF Start
<1>2. CASE c.kind = "import"
  <2> DEFINE r == [Idle EXCEPT !.pc = "tool", !.command = c, !.todo = Selected(c)]
  <2>1. /\ Shaped(r) /\ r.pc = "tool" /\ r.command = c /\ r.todo = Selected(c)
        /\ r.base = {} /\ r.report = {}
    BY DEF Idle, Shaped
  <2>2. Selected(c) \subseteq list
    BY DEF Selected
  <2> HIDE DEF r
  <2> QED
    BY <1>0, <1>1, <1>2, <2>1, <2>2, Becomes DEF r
<1>3. CASE c.kind # "import"
  <2> DEFINE r == [Idle EXCEPT !.pc = c.kind, !.command = c, !.call = c.call]
  <2>1. /\ Shaped(r) /\ r.pc = c.kind /\ r.command = c /\ r.call = c.call
        /\ r.base = {} /\ r.report = {}
    BY DEF Idle, Shaped
  <2>2. c.kind \in {"adopt", "policy"}
    BY <1>3, InputAssumption
  <2> HIDE DEF r
  <2> QED
    BY <1>0, <1>1, <1>3, <2>1, <2>2, Becomes DEF r
<1> QED
  BY <1>2, <1>3

\* A command goes on from one step to the next.
LEMMA GoesFrom ==
  ASSUME Shapes, NEW p \in Process, NEW s,
         proc' = [proc EXCEPT ![p].pc = s]
  PROVE  Shapes' /\ Others(p) /\ proc'[p] = [proc[p] EXCEPT !.pc = s]
<1> DEFINE r == [proc[p] EXCEPT !.pc = s]
<1>1. Shaped(r) /\ proc' = [proc EXCEPT ![p] = r]
  BY DEF Shapes, Shaped
<1> QED
  BY <1>1, Becomes

LEMMA GoesWith ==
  ASSUME Shapes, NEW p \in Process, NEW s, NEW b,
         proc' = [proc EXCEPT ![p].pc = s, ![p].base = b]
  PROVE  Shapes' /\ Others(p) /\ proc'[p] = [proc[p] EXCEPT !.pc = s, !.base = b]
<1> DEFINE r == [proc[p] EXCEPT !.pc = s, !.base = b]
<1>1. Shaped(r) /\ proc' = [proc EXCEPT ![p] = r]
  BY DEF Shapes, Shaped
<1> QED
  BY <1>1, Becomes

-----------------------------------------------------------------------------
(* The lock *)

LEMMA OneHolds ==
  ASSUME Locking, NEW p \in Process, proc[p].pc \in Holding \/ lock = None
  PROVE  \A q \in Process : q # p \/ lock = None => proc[q].pc \notin Holding
BY ToolsetAssumption DEF Locking

LEMMA Quiet ==
  ASSUME Locking, Shapes', NEW p \in Process, Others(p), proc'[p].pc \notin Holding,
         UNCHANGED <<manifest, pending, lock>>
  PROVE  LockInv'
BY DEF LockInv, Locking, Others

LEMMA Writes ==
  ASSUME Locking, Shapes', NEW p \in Process, Others(p),
         proc[p].pc \in Holding \/ lock = None,
         proc'[p].pc \in Holding =>
           /\ lock' = p /\ pending' = {}
           /\ proc'[p].pc \in {"apply", "save"} => proc'[p].base = manifest'
           /\ proc'[p].pc = "apply" => proc'[p].call.name \notin Names(proc'[p].base)
  PROVE  LockInv'
BY OneHolds DEF LockInv, Locking, Others

LEMMA LockSteps ==
  ASSUME LockInv, NEW p \in Process, Step(p)
  PROVE  LockInv'
<1> USE DEF Holding
<1>0. Shapes /\ Locking
  BY DEF LockInv
<1>1. CASE Start(p)
  BY <1>0, <1>1, StartFacts, Quiet DEF Start, machine
<1>2. CASE Plan(p) \/ Look(p)
  <2>1. CASE Plan(p)
    <3>1. \E status : End(p, status)
      BY <2>1 DEF Plan
    <3>2. Shapes' /\ Others(p) /\ proc'[p].pc \notin Holding
      BY <1>0, <3>1, EndFacts
    <3> QED
      BY <1>0, <2>1, <3>2, Quiet DEF Plan, machine
  <2>2. CASE Look(p)
    BY <1>0, <2>2, LookFacts, Quiet DEF Look, machine
  <2> QED
    BY <1>2, <2>1, <2>2
<1>3. CASE Leave(p)
  BY <1>0, <1>3, GoesFrom, Quiet DEF Leave, machine, Shapes, Shaped
<1>4. CASE AdoptLock(p)
  <2>1. CASE End(p, "error") /\ UNCHANGED machine
    BY <1>0, <2>1, EndFacts, Quiet DEF machine
  <2>2. CASE ~Locked /\ lock' = p /\ pending' = {} /\ proc' = [proc EXCEPT ![p].pc = "inspect"]
    BY <1>0, <2>2, GoesFrom, Writes DEF Locked, Shapes, Shaped
  <2> QED
    BY <1>4, <2>1, <2>2 DEF AdoptLock
<1>5. CASE Inspect(p)
  <2>1. proc[p].pc = "inspect" /\ lock = p /\ pending = {} /\ UNCHANGED <<manifest, pending>>
    BY <1>0, <1>5 DEF Inspect, Locking
  <2>2. CASE End(p, "error")
    BY <1>0, <2>1, <2>2, EndFacts, Writes
  <2>3. CASE /\ proc[p].call.name \notin Names(manifest) /\ lock' = lock
             /\ proc' = [proc EXCEPT ![p].pc = "apply", ![p].sha = path[proc[p].call.name], ![p].base = manifest]
    <3> DEFINE r == [proc[p] EXCEPT !.pc = "apply", !.sha = path[proc[p].call.name], !.base = manifest]
    <3>1. Shaped(r) /\ proc' = [proc EXCEPT ![p] = r]
      BY <1>0, <2>3 DEF Shapes, Shaped
    <3>2. r.pc = "apply" /\ r.base = manifest /\ r.call = proc[p].call
      BY <1>0 DEF Shapes, Shaped
    <3> HIDE DEF r
    <3> QED
      BY <1>0, <2>1, <2>3, <3>1, <3>2, Becomes, Writes
  <2> QED
    BY <1>5, <2>2, <2>3 DEF Inspect
<1>6. CASE Apply(p)
  <2>1. proc[p].pc = "apply" /\ lock = p /\ pending = {} /\ UNCHANGED pending
    BY <1>0, <1>6 DEF Apply, Locking
  <2>2. CASE End(p, "error")
    BY <1>0, <2>1, <2>2, EndFacts, Writes
  <2>3. CASE proc' = [proc EXCEPT ![p].pc = "commit"] /\ lock' = lock
    BY <1>0, <2>1, <2>3, GoesFrom, Writes DEF Shapes, Shaped
  <2> QED
    BY <1>6, <2>2, <2>3 DEF Apply
<1>7. CASE Commit(p) \/ CommitFails(p)
  <2>1. proc[p].pc = "commit"
    BY <1>7 DEF Commit, CommitFails
  <2>2. CASE \E status : End(p, status)
    BY <1>0, <2>1, <2>2, EndFacts, Writes
  <2>3. CASE proc' = [proc EXCEPT ![p].pc = "policy"]
    BY <1>0, <2>1, <2>3, GoesFrom, Writes DEF Shapes, Shaped
  <2> QED
    BY <1>7, <2>2, <2>3 DEF Commit, CommitFails
<1>8. CASE PolicyLook(p)
  <2>1. CASE End(p, "error")
    BY <1>0, <1>8, <2>1, EndFacts, Quiet DEF PolicyLook, machine
  <2>2. CASE proc' = [proc EXCEPT ![p].pc = "lock", ![p].base = manifest]
    BY <1>0, <1>8, <2>2, GoesWith, Quiet DEF PolicyLook, machine, Shapes, Shaped
  <2> QED
    BY <1>8, <2>1, <2>2 DEF PolicyLook
<1>9. CASE PolicyLock(p)
  <2>1. CASE End(p, "error") /\ UNCHANGED lock
    BY <1>0, <1>9, <2>1, EndFacts, Quiet DEF PolicyLock
  <2>2. CASE /\ ~Locked /\ pending = {} /\ lock' = p
             /\ proc' = [proc EXCEPT ![p].pc = "save", ![p].base = manifest]
    BY <1>0, <1>9, <2>2, GoesWith, Writes DEF PolicyLock, Locked, Shapes, Shaped
  <2> QED
    BY <1>9, <2>1, <2>2 DEF PolicyLock
<1>10. CASE PolicySave(p) \/ SaveFails(p)
  <2>1. proc[p].pc = "save" /\ \E status : End(p, status)
    BY <1>10 DEF PolicySave, SaveFails
  <2> QED
    BY <1>0, <2>1, EndFacts, Writes
<1>11. CASE Crash(p)
  <2>1. Shaped(Idle) /\ Idle.pc = "idle"
    BY DEF Idle, Shaped
  <2>2. Shapes' /\ Others(p) /\ proc'[p].pc \notin Holding
    BY <1>0, <1>11, <2>1, Becomes DEF Crash
  <2>3. CASE proc[p].pc \in Holding
    BY <1>0, <2>2, <2>3, Writes
  <2>4. CASE proc[p].pc \notin Holding
    <3>1. UNCHANGED <<manifest, pending>> /\ lock' \in {lock, None} /\ (lock # p => lock' = lock)
      BY <1>11, <2>4 DEF Crash
    <3> QED
      BY <1>0, <2>2, <2>4, <3>1 DEF LockInv, Locking, Others
  <2> QED
    BY <2>3, <2>4
<1> QED
  BY <1>1, <1>2, <1>3, <1>4, <1>5, <1>6, <1>7, <1>8, <1>9, <1>10, <1>11 DEF Step

LEMMA LockInitial == Init => LockInv
<1> SUFFICES ASSUME Init
             PROVE  LockInv
  OBVIOUS
<1>1. proc = [p \in Process |-> Idle] /\ Shaped(Idle) /\ Idle.pc = "idle"
  BY DEF Init, Idle, Shaped
<1> QED
  BY <1>1 DEF LockInv, Shapes, Locking, Holding

LEMMA LockPreserved == LockInv /\ [Next]_vars => LockInv'
<1> SUFFICES ASSUME LockInv, [Next]_vars
             PROVE  LockInv'
  OBVIOUS
<1>1. CASE UNCHANGED <<proc, machine>>
  BY <1>1 DEF machine, LockInv, Shapes, Locking
<1>2. CASE \E p \in Process : Step(p)
  BY <1>2, LockSteps
<1> QED
  BY <1>1, <1>2 DEF Next, Install, vars

\* The lock is taken by one process at most that is between taking and
\* releasing it: no way out of a command and no crash leaves it behind, which
\* would make every later command give up, since none waits.
Held == lock # None => lock \in Process /\ proc[lock].pc \in Holding
LockIsHeld ==
  /\ Held
  /\ \A p, q \in Process : proc[p].pc \in Holding /\ proc[q].pc \in Holding => p = q

LEMMA HeldSteps ==
  ASSUME LockInv, Held, NEW p \in Process, Step(p)
  PROVE  Held'
<1> USE DEF Holding
<1>0. Shapes /\ Locking /\ None \notin Process
  BY ToolsetAssumption DEF LockInv
<1>1. CASE lock' = None
  BY <1>1 DEF Held
<1>2. ASSUME lock' = lock, Others(p), proc[p].pc \notin Holding \/ proc'[p].pc \in Holding
      PROVE  Held'
  BY <1>2 DEF Held, Others
<1>3. CASE lock' = p /\ proc'[p].pc \in Holding
  BY <1>0, <1>3 DEF Held
<1>4. ASSUME lock' = lock, proc[p].pc \notin Holding, Others(p)
      PROVE  Held'
  BY <1>2, <1>4
<1>5. ASSUME lock' = lock, proc[p].pc \notin Holding, NEW status, End(p, status)
      PROVE  Held'
  BY <1>0, <1>4, <1>5, EndFacts
<1>6. ASSUME NEW s, NEW b, lock' = lock, proc[p].pc \notin Holding,
             proc' = [proc EXCEPT ![p].pc = s] \/ proc' = [proc EXCEPT ![p].pc = s, ![p].base = b]
      PROVE  Held'
  BY <1>0, <1>4, <1>6, GoesFrom, GoesWith
<1>7. CASE Start(p)
  BY <1>0, <1>4, <1>7, StartFacts DEF Start, machine
<1>8. CASE Look(p)
  BY <1>0, <1>4, <1>8, LookFacts DEF Look, machine
<1>9. CASE Plan(p) \/ Leave(p) \/ PolicyLook(p)
  BY <1>5, <1>6, <1>9 DEF Plan, Leave, PolicyLook, machine
<1>10. CASE AdoptLock(p)
  <2>1. CASE Locked
    BY <1>5, <1>10, <2>1 DEF AdoptLock, machine
  <2>2. CASE ~Locked
    <3>1. lock' = p /\ proc' = [proc EXCEPT ![p].pc = "inspect"]
      BY <1>10, <2>2 DEF AdoptLock
    <3>2. proc'[p].pc = "inspect"
      BY <1>0, <3>1, GoesFrom DEF Shapes, Shaped
    <3> QED
      BY <1>3, <3>1, <3>2
  <2> QED
    BY <2>1, <2>2
<1>11. CASE Inspect(p)
  <2>1. CASE proc' = [proc EXCEPT ![p].pc = "apply", ![p].sha = path[proc[p].call.name], ![p].base = manifest]
             /\ lock' = lock
    <3> DEFINE r == [proc[p] EXCEPT !.pc = "apply", !.sha = path[proc[p].call.name], !.base = manifest]
    <3>1. Shaped(r) /\ proc' = [proc EXCEPT ![p] = r] /\ r.pc = "apply"
      BY <1>0, <2>1 DEF Shapes, Shaped
    <3>2. proc'[p].pc = "apply" /\ Others(p)
      BY <1>0, <3>1, Becomes
    <3> QED
      BY <1>2, <2>1, <3>2
  <2> QED
    BY <1>1, <1>11, <2>1 DEF Inspect
<1>12. CASE Apply(p)
  <2>1. CASE proc' = [proc EXCEPT ![p].pc = "commit"] /\ lock' = lock
    <3>1. proc'[p].pc = "commit" /\ Others(p)
      BY <1>0, <2>1, GoesFrom DEF Shapes, Shaped
    <3> QED
      BY <1>2, <2>1, <3>1
  <2> QED
    BY <1>1, <1>12, <2>1 DEF Apply
<1>13. CASE Commit(p) \/ CommitFails(p) \/ PolicySave(p) \/ SaveFails(p)
  BY <1>1, <1>13 DEF Commit, CommitFails, PolicySave, SaveFails
<1>14. CASE PolicyLock(p)
  <2>1. CASE End(p, "error") /\ lock' = lock
    BY <1>5, <1>14, <2>1 DEF PolicyLock
  <2>2. CASE lock' = p /\ proc' = [proc EXCEPT ![p].pc = "save", ![p].base = manifest]
    <3>1. proc'[p].pc = "save"
      <4>1. proc'[p] = [proc[p] EXCEPT !.pc = "save", !.base = manifest] /\ Shaped(proc[p])
        BY <1>0, <2>2, GoesWith DEF Shapes
      <4> QED
        BY <4>1 DEF Shaped
    <3> QED
      BY <1>3, <2>2, <3>1
  <2> QED
    BY <1>14, <2>1, <2>2 DEF PolicyLock
<1>15. CASE Crash(p)
  <2>1. Shaped(Idle) /\ proc' = [proc EXCEPT ![p] = Idle]
    BY <1>15 DEF Crash, Idle, Shaped
  <2>2. Others(p)
    BY <1>0, <2>1, Becomes
  <2>3. lock' = None \/ (lock' = lock /\ lock # p)
    BY <1>15 DEF Crash
  <2> QED
    BY <1>1, <2>2, <2>3 DEF Held, Others
<1> QED
  BY <1>7, <1>8, <1>9, <1>10, <1>11, <1>12, <1>13, <1>14, <1>15 DEF Step

\* One holder at a time, and no lock without a holder, whatever is killed.
THEOREM LocksAreHeld == Spec => []LockIsHeld
<1>1. Init => Held
  BY DEF Init, Held
<1>2. LockInv /\ Held /\ [Next]_vars => Held'
  <2> SUFFICES ASSUME LockInv, Held, [Next]_vars
               PROVE  Held'
    OBVIOUS
  <2>1. CASE UNCHANGED <<proc, lock>>
    BY <2>1 DEF Held
  <2>2. CASE \E p \in Process : Step(p)
    BY <2>2, HeldSteps
  <2> QED
    BY <2>1, <2>2 DEF Next, Install, vars, machine
<1>3. LockInv /\ Held => LockIsHeld
  BY DEF LockIsHeld, LockInv, Locking
<1> QED
  BY <1>1, <1>2, <1>3, LockInitial, LockPreserved, PTL DEF Spec

Changes(p, e) ==
  /\ PolicySave(p) /\ proc[p].call.name = e.name
  /\ manifest' = (manifest \ Get(manifest, e.name))
                    \union UNION {applyPolicySet(f, proc[p].call.options) : f \in Get(manifest, e.name)}
  /\ UNION {applyPolicySet(f, proc[p].call.options) : f \in Get(manifest, e.name)} # {}
  /\ tuned' = IF proc[p].command.kind = "import" THEN tuned ELSE tuned \union {e.name}

LEMMA SettledChanges ==
  ASSUME LockInv, [Next]_vars, NEW e \in Settled, e \notin manifest'
  PROVE  \E p \in Process : Changes(p, e)
<1>1. /\ e \in manifest /\ \A m \in pending : e \in m
      /\ \A p \in Process : proc[p].pc = "commit" => e \in proc[p].base
      /\ manifest' # manifest
  BY DEF Settled
<1>2. PICK p \in Process : AdoptLock(p) \/ Apply(p) \/ CommitFails(p) \/ PolicySave(p)
  BY <1>1 DEF Next, Step, vars, machine, Install, Start, Plan, Look, Leave, Inspect, Commit, PolicyLook, PolicyLock,
     SaveFails, Crash
<1>3. CASE AdoptLock(p)
  BY <1>1, <1>3 DEF AdoptLock, Recovered, machine
<1>4. CASE Apply(p)
  <2>1. e.name # proc[p].call.name /\ proc[p].base = manifest
    BY <1>1, <1>4 DEF Apply, LockInv, Locking, Holding, Names
  <2> QED
    BY <1>1, <1>4, <2>1 DEF Apply, Get
<1>5. CASE CommitFails(p)
  BY <1>1, <1>5 DEF CommitFails
<1>6. CASE PolicySave(p)
  <2>1. proc[p].pc = "save" /\ proc[p].base = manifest
    BY <1>6 DEF PolicySave, LockInv, Locking, Holding
  <2> DEFINE c == proc[p].call
             after == UNION {applyPolicySet(f, c.options) : f \in Get(manifest, c.name)}
  <2>2. /\ after # {} /\ manifest' = (manifest \ Get(manifest, c.name)) \union after
        /\ tuned' = IF proc[p].command.kind = "import" THEN tuned ELSE tuned \union {c.name}
    BY <1>1, <1>6, <2>1 DEF PolicySave
  <2>3. e.name = c.name
    BY <1>1, <2>2 DEF Get
  <2> QED
    BY <1>6, <2>2, <2>3 DEF Changes
<1> QED
  BY <1>2, <1>3, <1>4, <1>5, <1>6

\* No command undoes what another has settled: only a policy command for it
\* changes an entry, and it starts from the entry as it is.
THEOREM EntriesSurvive == Spec => EntriesAreKept
<1>1. LockInv /\ [Next]_vars =>
        [\A e \in Settled :
           \/ e \in manifest'
           \/ \E p \in Process : /\ proc[p].pc = "save" /\ proc[p].call.name = e.name
                                 /\ applyPolicySet(e, proc[p].call.options) \subseteq manifest']_vars
  <2> SUFFICES ASSUME LockInv, [Next]_vars, NEW e \in Settled, e \notin manifest'
               PROVE  \E p \in Process : /\ proc[p].pc = "save" /\ proc[p].call.name = e.name
                                         /\ applyPolicySet(e, proc[p].call.options) \subseteq manifest'
    OBVIOUS
  <2>1. PICK p \in Process : Changes(p, e)
    BY SettledChanges
  <2>2. e \in Get(manifest, e.name)
    BY DEF Settled, Get
  <2> QED
    BY <2>1, <2>2 DEF Changes, PolicySave
<1> QED
  BY <1>1, LockInitial, LockPreserved, PTL DEF Spec, EntriesAreKept

-----------------------------------------------------------------------------
(* Tags *)

LEMMA Single ==
  ASSUME NEW s, AtMostOne(s)
  PROVE  s = {} \/ \E t : s = {t}
<1> SUFFICES ASSUME NEW t \in s
             PROVE  s = {t}
  OBVIOUS
<1> QED
  BY DEF AtMostOne

\* An entry is a record whose tag, where it orders versions, somebody or some
\* executable told.
Written(e) ==
  /\ e \in [name : {e.name}, local : {e.local}, tag : {e.tag}, sha : {e.sha}, policy : {e.policy}]
  /\ IsSemanticTag(e.tag) => Told(e.name, e.tag)
Given(c) ==
  /\ c.name \in Name
  /\ c.tag = {} \/ \E t : c.tag = {t} /\ (IsSemanticTag(t) => Told(c.name, t))

Listed == \A t \in list :
  /\ t.name \in Name
  /\ t.policy = [mode |-> t.policy.mode, channel |-> t.policy.channel, pin |-> t.policy.pin]
Paths ==
  /\ path \in [Name -> Bin \union {None}] /\ seen \in [Name -> SUBSET Bin]
  /\ \A n \in Name : path[n] # None => path[n] \in seen[n]

Adopting == {"adopt", "inspect", "apply", "commit"}
InHand(r) ==
  /\ \A e \in r.base : Written(e)
  /\ r.pc = "tool" => r.command.kind = "import"
  /\ r.pc # "idle" /\ r.command.kind = "import" => r.todo \subseteq list
  /\ r.pc \in Adopting => Given(r.call)
  /\ r.pc = "apply" => r.sha \in seen[r.call.name]

TagInv ==
  /\ Shapes /\ Listed /\ Paths
  /\ \A e \in manifest : Written(e)
  /\ \A m \in pending : \A e \in m : Written(e)
  /\ \A p \in Process : InHand(proc[p])

LEMMA TagFrame ==
  ASSUME TagInv, NEW p \in Process, Shapes', Others(p), UNCHANGED <<list, path, seen>>,
         \A e \in manifest' : Written(e), \A m \in pending' : \A e \in m : Written(e),
         InHand(proc'[p])
  PROVE  TagInv'
<1>1. \A e : Written(e)' <=> Written(e)
  BY DEF Written, Told
<1>2. \A c : Given(c)' <=> Given(c)
  BY DEF Given, Told
<1>3. \A q \in Process : InHand(proc'[q])
  BY DEF TagInv, Others
<1>4. \A q \in Process : InHand(proc[q])'
  BY <1>1, <1>2, <1>3 DEF InHand
<1>5. Listed' /\ Paths'
  BY DEF TagInv, Listed, Paths
<1> QED
  BY <1>1, <1>4, <1>5 DEF TagInv

LEMMA EndTags ==
  ASSUME TagInv, NEW p \in Process, NEW status, End(p, status), proc[p].pc # "idle"
  PROVE  Shapes' /\ Others(p) /\ InHand(proc'[p])
<1>1. Shapes /\ InHand(proc[p])
  BY DEF TagInv
<1> QED
  BY <1>1, EndFacts DEF InHand, Adopting

\* The tools of a list are taken in the order of their names.
LEMMA ToolIsNext ==
  ASSUME Listed, NEW p \in Process, proc[p].todo \subseteq list, proc[p].todo # {}
  PROVE  Tool(p) \in proc[p].todo
<1> DEFINE ns == {t.name : t \in proc[p].todo}
<1>1. ns \subseteq Name /\ ns # {}
  BY DEF Listed
<1>2. PICK n \in ns : \A m \in ns : n <= m
  BY <1>1, ToolsetAssumption
<1>3. \E t \in proc[p].todo : \A u \in proc[p].todo : t.name <= u.name
  BY <1>2
<1> QED
  BY <1>3 DEF Tool

LEMMA ImportTagIsGiven ==
  ASSUME Paths, NEW t, t.name \in Name, path[t.name] # None
  PROVE  LET tag == resolveImportTag(t, path[t.name])
         IN \E v : tag = {v} /\ (IsSemanticTag(v) => Told(t.name, v))
<1>1. path[t.name] \in Bin /\ path[t.name] \in seen[t.name]
  BY DEF Paths
<1>2. CASE Version[path[t.name]] # {}
  <2>1. PICK v : Version[path[t.name]] = {v}
    BY <1>1, <1>2, InputAssumption DEF AtMostOne
  <2> QED
    BY <1>1, <1>2, <2>1 DEF resolveImportTag, Told
<1>3. CASE Version[path[t.name]] = {}
  BY <1>3, SentinelAssumption DEF resolveImportTag
<1> QED
  BY <1>2, <1>3

LEMMA TagSteps ==
  ASSUME TagInv, NEW p \in Process, Step(p)
  PROVE  TagInv'
<1>0. /\ Shapes /\ Listed /\ Paths /\ InHand(proc[p])
      /\ \A e \in manifest : Written(e)
      /\ \A m \in pending : \A e \in m : Written(e)
  BY DEF TagInv
<1>1. CASE Start(p)
  <2>1. ASSUME proc'[p].pc = "adopt"
        PROVE  Given(proc'[p].call)
    <3>1. proc'[p].command \in Commands /\ proc'[p].command.kind = "adopt" /\ proc'[p].call = proc'[p].command.call
      BY <1>0, <1>1, <2>1, StartFacts
    <3>2. proc'[p].call.tag = {} \/ \E t : proc'[p].call.tag = {t}
      <4>1. AtMostOne(proc'[p].command.call.tag)
        BY <3>1, InputAssumption
      <4> QED
        BY <3>1, <4>1, Single
    <3>3. proc'[p].call.name \in Name
      BY <3>1, InputAssumption
    <3> QED
      BY <3>1, <3>2, <3>3 DEF Given, Told
  <2>2. InHand(proc'[p]) /\ Shapes' /\ Others(p)
    BY <1>0, <1>1, <2>1, StartFacts DEF InHand, Adopting
  <2> QED
    BY <1>0, <1>1, <2>2, TagFrame DEF Start, machine, history
<1>2. CASE Plan(p)
  <2>1. proc[p].pc # "idle" /\ \E status : End(p, status)
    BY <1>2 DEF Plan
  <2> QED
    BY <1>0, <1>2, <2>1, EndTags, TagFrame DEF Plan, machine, history
<1>3. CASE Look(p)
  <2>1. /\ UNCHANGED <<list, path, manifest, pending, seen>> /\ proc[p].todo # {} /\ proc[p].pc = "tool"
    BY <1>3 DEF Look, machine, history
  <2>2. CASE proc'[p].pc # "adopt"
    <3>1. \E status : End(p, status)
      BY <1>0, <1>3, <2>2, LookFacts
    <3> QED
      BY <1>0, <2>1, <3>1, EndTags, TagFrame
  <2>3. CASE proc'[p].pc = "adopt"
    <3>1. /\ Shapes' /\ Others(p) /\ path[Tool(p).name] # None /\ proc'[p].base = proc[p].base
          /\ proc'[p].command = proc[p].command /\ proc'[p].todo = proc[p].todo
          /\ proc'[p].call.name = Tool(p).name
          /\ proc'[p].call.tag = resolveImportTag(Tool(p), path[Tool(p).name])
      BY <1>0, <1>3, <2>3, LookFacts
    <3>2. Tool(p).name \in Name
      BY <1>0, <2>1, ToolIsNext DEF InHand, Listed
    <3>3. Given(proc'[p].call)
      BY <1>0, <3>1, <3>2, ImportTagIsGiven DEF Given
    <3>4. InHand(proc'[p])
      BY <1>0, <2>1, <2>3, <3>1, <3>3 DEF InHand, Adopting
    <3> QED
      BY <1>0, <2>1, <3>1, <3>4, TagFrame
  <2> QED
    BY <2>2, <2>3
<1>4. CASE Leave(p)
  <2>1. Shapes' /\ Others(p) /\ proc'[p] = [proc[p] EXCEPT !.pc = "idle"]
    BY <1>0, <1>4, GoesFrom DEF Leave
  <2>2. proc'[p].pc = "idle" /\ proc'[p].base = proc[p].base
    BY <1>0, <2>1 DEF Shapes, Shaped
  <2> QED
    BY <1>0, <1>4, <2>1, <2>2, TagFrame DEF Leave, machine, history, InHand, Adopting
<1>5. CASE AdoptLock(p)
  <2>1. /\ UNCHANGED <<list, path, seen>> /\ proc[p].pc = "adopt"
        /\ \A e \in manifest' : Written(e)
        /\ \A m \in pending' : \A e \in m : Written(e)
    BY <1>0, <1>5 DEF AdoptLock, Recovered, machine
  <2>2. CASE End(p, "error")
    BY <2>1, <2>2, EndTags, TagFrame
  <2>3. CASE proc' = [proc EXCEPT ![p].pc = "inspect"]
    <3>1. Shapes' /\ Others(p) /\ proc'[p] = [proc[p] EXCEPT !.pc = "inspect"]
      BY <1>0, <2>3, GoesFrom
    <3>2. InHand(proc'[p])
      BY <1>0, <2>1, <3>1 DEF InHand, Adopting, Shapes, Shaped
    <3> QED
      BY <2>1, <3>1, <3>2, TagFrame
  <2> QED
    BY <1>5, <2>2, <2>3 DEF AdoptLock
<1>6. CASE Inspect(p)
  <2>1. /\ UNCHANGED <<list, path, manifest, pending, seen>> /\ proc[p].pc = "inspect"
    BY <1>6 DEF Inspect, history
  <2>2. CASE End(p, "error")
    BY <1>0, <2>1, <2>2, EndTags, TagFrame
  <2>3. CASE /\ path[proc[p].call.name] # None
             /\ proc' = [proc EXCEPT ![p].pc = "apply", ![p].sha = path[proc[p].call.name], ![p].base = manifest]
    <3> DEFINE r == [proc[p] EXCEPT !.pc = "apply", !.sha = path[proc[p].call.name], !.base = manifest]
    <3>1. Shaped(r) /\ proc' = [proc EXCEPT ![p] = r]
      BY <1>0, <2>3 DEF Shapes, Shaped
    <3>2. /\ r.pc = "apply" /\ r.base = manifest /\ r.call = proc[p].call /\ r.sha = path[proc[p].call.name]
          /\ r.command = proc[p].command /\ r.todo = proc[p].todo
      BY <1>0 DEF Shapes, Shaped
    <3> HIDE DEF r
    <3>3. Given(r.call) /\ r.sha \in seen[r.call.name]
      BY <1>0, <2>1, <2>3, <3>2 DEF InHand, Adopting, Given, Paths
    <3>4. InHand(r)
      BY <1>0, <2>1, <3>2, <3>3 DEF InHand, Adopting
    <3> QED
      BY <1>0, <2>1, <3>1, <3>4, Becomes, TagFrame
  <2> QED
    BY <1>6, <2>2, <2>3 DEF Inspect
<1>7. CASE Apply(p)
  <2>1. UNCHANGED <<list, path, pending, seen>> /\ proc[p].pc = "apply"
    BY <1>7 DEF Apply, history
  <2>2. CASE End(p, "error") /\ UNCHANGED manifest
    BY <1>0, <2>1, <2>2, EndTags, TagFrame
  <2>3. CASE /\ manifest' = (proc[p].base \ Get(proc[p].base, proc[p].call.name)) \union {Entry(p)}
             /\ proc' = [proc EXCEPT ![p].pc = "commit"]
    <3>1. Shapes' /\ Others(p) /\ proc'[p] = [proc[p] EXCEPT !.pc = "commit"]
      BY <1>0, <2>3, GoesFrom
    <3>2. InHand(proc'[p])
      BY <1>0, <2>1, <3>1 DEF InHand, Adopting, Shapes, Shaped
    <3>3. Written(Entry(p))
      <4> DEFINE c == proc[p].call
                 bin == proc[p].sha
      <4>1. Given(c) /\ bin \in seen[c.name] /\ bin \in Bin
        BY <1>0, <2>1 DEF InHand, Adopting, Given, Paths
      <4>2. \E t : EntryTag(c, bin) = {t} /\ (IsSemanticTag(t) => Told(c.name, t))
        <5>1. CASE c.tag # {}
          BY <4>1, <5>1 DEF Given, EntryTag
        <5>2. CASE c.tag = {} /\ (c.local \/ c.repo \/ Version[bin] = {})
          BY <5>2, SentinelAssumption DEF EntryTag
        <5>3. CASE c.tag = {} /\ ~c.local /\ ~c.repo /\ Version[bin] # {}
          BY <4>1, <5>3, InputAssumption DEF EntryTag, Told, AtMostOne
        <5> QED
          BY <5>1, <5>2, <5>3
      <4>3. Entry(p).tag = CHOOSE t \in EntryTag(c, bin) : TRUE
        BY DEF Entry
      <4>4. IsSemanticTag(Entry(p).tag) => Told(c.name, Entry(p).tag)
        BY <4>2, <4>3
      <4>5. Entry(p).name = c.name
        BY DEF Entry
      <4>6. /\ Entry(p) \in [name : {Entry(p).name}, local : {Entry(p).local}, tag : {Entry(p).tag},
                            sha : {Entry(p).sha}, policy : {Entry(p).policy}]
        BY DEF Entry
      <4> QED
        BY <4>4, <4>5, <4>6 DEF Written
    <3>4. \A e \in manifest' : Written(e)
      BY <1>0, <2>3, <3>3 DEF InHand
    <3> QED
      BY <1>0, <2>1, <3>1, <3>2, <3>4, TagFrame
  <2> QED
    BY <1>7, <2>2, <2>3 DEF Apply
<1>8. CASE Commit(p) \/ CommitFails(p)
  <2>1. /\ UNCHANGED <<list, path, pending, seen>> /\ proc[p].pc = "commit"
        /\ \A e \in manifest' : Written(e)
    BY <1>0, <1>8 DEF Commit, CommitFails, history, InHand
  <2>2. CASE \E status : End(p, status)
    BY <1>0, <2>1, <2>2, EndTags, TagFrame
  <2>3. CASE proc' = [proc EXCEPT ![p].pc = "policy"]
    <3>1. Shapes' /\ Others(p) /\ proc'[p] = [proc[p] EXCEPT !.pc = "policy"]
      BY <1>0, <2>3, GoesFrom
    <3>2. InHand(proc'[p])
      BY <1>0, <2>1, <3>1 DEF InHand, Adopting, Shapes, Shaped
    <3> QED
      BY <1>0, <2>1, <3>1, <3>2, TagFrame
  <2> QED
    BY <1>8, <2>2, <2>3 DEF Commit, CommitFails
<1>9. CASE PolicyLook(p) \/ PolicyLock(p)
  <2>1. /\ UNCHANGED <<list, path, manifest, pending, seen>> /\ proc[p].pc \in {"policy", "lock"}
    BY <1>9 DEF PolicyLook, PolicyLock, machine, history
  <2>2. CASE End(p, "error")
    BY <1>0, <2>1, <2>2, EndTags, TagFrame
  <2>3. CASE proc' = [proc EXCEPT ![p].pc = "lock", ![p].base = manifest]
    <3>1. Shapes' /\ Others(p) /\ proc'[p] = [proc[p] EXCEPT !.pc = "lock", !.base = manifest]
      BY <1>0, <2>3, GoesWith
    <3>2. InHand(proc'[p])
      BY <1>0, <2>1, <3>1 DEF InHand, Adopting, Shapes, Shaped
    <3> QED
      BY <1>0, <2>1, <3>1, <3>2, TagFrame
  <2>4. CASE proc' = [proc EXCEPT ![p].pc = "save", ![p].base = manifest]
    <3>1. Shapes' /\ Others(p) /\ proc'[p] = [proc[p] EXCEPT !.pc = "save", !.base = manifest]
      BY <1>0, <2>4, GoesWith
    <3>2. InHand(proc'[p])
      BY <1>0, <2>1, <3>1 DEF InHand, Adopting, Shapes, Shaped
    <3> QED
      BY <1>0, <2>1, <3>1, <3>2, TagFrame
  <2> QED
    BY <1>9, <2>2, <2>3, <2>4 DEF PolicyLook, PolicyLock
<1>10. CASE PolicySave(p)
  <2>1. proc[p].pc = "save" /\ UNCHANGED <<list, path, pending, seen>> /\ \E status : End(p, status)
    BY <1>10 DEF PolicySave
  <2> DEFINE after == UNION {applyPolicySet(f, proc[p].call.options) : f \in Get(proc[p].base, proc[p].call.name)}
  <2>2. manifest' = manifest \/ manifest' = (proc[p].base \ Get(proc[p].base, proc[p].call.name)) \union after
    BY <1>10 DEF PolicySave
  <2>3. ASSUME NEW e \in after
        PROVE  Written(e)
    <3>1. PICK f \in proc[p].base : e \in applyPolicySet(f, proc[p].call.options)
      BY DEF Get
    <3>2. Written(f) /\ \E q : e = [f EXCEPT !.policy = q]
      BY <1>0, <3>1 DEF InHand, applyPolicySet
    <3> QED
      BY <3>2 DEF Written
  <2>4. \A e \in manifest' : Written(e)
    BY <1>0, <2>2, <2>3 DEF InHand
  <2> QED
    BY <1>0, <2>1, <2>4, EndTags, TagFrame
<1>11. CASE SaveFails(p)
  BY <1>0, <1>11, EndTags, TagFrame DEF SaveFails, history
<1>12. CASE Crash(p)
  <2>1. /\ Shaped(Idle) /\ Idle.pc = "idle" /\ Idle.base = {}
    BY DEF Idle, Shaped
  <2>2. InHand(Idle)
    BY <2>1 DEF InHand, Adopting
  <2>3. UNCHANGED <<list, path, manifest, seen>> /\ pending' \in {pending, {proc[p].base}, {manifest}}
    BY <1>12 DEF Crash, history
  <2>4. \A m \in pending' : \A e \in m : Written(e)
    BY <1>0, <2>3 DEF InHand
  <2>5. Shapes' /\ Others(p) /\ proc'[p] = Idle
    <3>1. proc' = [proc EXCEPT ![p] = Idle]
      BY <1>12 DEF Crash
    <3> QED
      BY <1>0, <2>1, <3>1, Becomes
  <2> QED
    BY <1>0, <2>2, <2>3, <2>4, <2>5, TagFrame
<1> QED
  BY <1>1, <1>2, <1>3, <1>4, <1>5, <1>6, <1>7, <1>8, <1>9, <1>10, <1>11, <1>12 DEF Step

LEMMA TagInitial == Init => TagInv
<1> SUFFICES ASSUME Init
             PROVE  TagInv
  OBVIOUS
<1>1. proc = [p \in Process |-> Idle] /\ Shaped(Idle) /\ Idle.pc = "idle" /\ Idle.base = {}
  BY DEF Init, Idle, Shaped
<1>2. Listed
  <2>1. CASE list \in Edited
    BY <2>1, InputAssumption DEF Listed
  <2>2. CASE \E home \in Homes : list = {Exported(e) : e \in home}
    <3>1. PICK home \in Homes : list = {Exported(e) : e \in home}
      BY <2>2
    <3>2. \A t \in list : \E e \in home : t.name = e.name /\ t.policy = e.policy
      BY <3>1 DEF Exported
    <3> QED
      BY <3>2, InputAssumption DEF Listed
  <2> QED
    BY <2>1, <2>2 DEF Init
<1>3. Paths
  BY ToolsetAssumption DEF Init, Paths
<1>4. manifest = {} /\ pending = {}
  BY DEF Init
<1> QED
  BY <1>1, <1>2, <1>3, <1>4 DEF TagInv, Shapes, InHand, Adopting

\* What has been on PATH is only ever added to.
LEMMA TagInstalls ==
  ASSUME TagInv, NEW n \in Name, NEW b \in Bin \union {None}, Install(n, b)
  PROVE  TagInv'
<1>1. /\ UNCHANGED <<list, manifest, pending, proc>>
      /\ path' = [path EXCEPT ![n] = b] /\ seen' = [seen EXCEPT ![n] = @ \union ({b} \ {None})]
  BY DEF Install, machine
<1>2. Paths' /\ \A m \in Name : seen[m] \subseteq seen'[m]
  BY <1>1 DEF TagInv, Paths
<1>3. \A m : seen[m] \subseteq seen'[m]
  BY <1>1, <1>2 DEF TagInv, Paths
<1>4. \A m, t : Told(m, t) => Told(m, t)'
  BY <1>3 DEF Told
<1>5. (\A e : Written(e) => Written(e)') /\ (\A c : Given(c) => Given(c)')
  BY <1>4 DEF Written, Given
<1>6. \A p \in Process : InHand(proc[p])'
  BY <1>1, <1>3, <1>5 DEF TagInv, InHand
<1> QED
  BY <1>1, <1>2, <1>5, <1>6 DEF TagInv, Shapes, Listed

LEMMA TagPreserved == TagInv /\ [Next]_vars => TagInv'
<1> SUFFICES ASSUME TagInv, [Next]_vars
             PROVE  TagInv'
  OBVIOUS
<1>1. CASE UNCHANGED vars
  <2>1. UNCHANGED <<list, path, manifest, pending, proc, seen>>
    BY <1>1 DEF vars, machine, history
  <2>2. /\ \A e : Written(e)' <=> Written(e)
        /\ \A c : Given(c)' <=> Given(c)
    BY <2>1 DEF Written, Given, Told
  <2>3. \A p \in Process : InHand(proc[p])'
    BY <2>1, <2>2 DEF TagInv, InHand
  <2> QED
    BY <2>1, <2>2, <2>3 DEF TagInv, Shapes, Listed, Paths
<1> QED
  BY <1>1, TagSteps, TagInstalls DEF Next

\* No list makes hukou record a version that neither an executable nor a user
\* told, whatever its tags and digests are.
THEOREM TagsAreHonest == Spec => []TagIsHonest
<1>1. TagInv => TagIsHonest
  BY DEF TagInv, TagIsHonest, Written
<1> QED
  BY <1>1, TagInitial, TagPreserved, PTL DEF Spec

-----------------------------------------------------------------------------
(* What an import reports *)

\* The policy of the list, or one that a user has set since; a list without a
\* mode or a channel leaves that part as it is.
Applied(t, e) ==
  /\ e.name = t.name
  /\ \/ e.name \in tuned
     \/ {t.policy.mode, t.policy.channel} \intersect {""} # {}
     \/ e.policy = t.policy
Explained(e) == e.name \in tuned \/ e.policy = DefaultPolicy \/ \E t \in list : Applied(t, e)

\* In any manifest a name stands for one entry, whose policy has an origin.
Sane(m) ==
  /\ \A e, f \in m : e.name = f.name => e = f
  /\ \A e \in m : Explained(e)
Origins ==
  /\ Sane(manifest) /\ \A m \in pending : Sane(m)
  /\ \A p \in Process : Sane(proc[p].base)

\* An import works on one tool of its list until it reports it.
Working(p) ==
  proc[p].pc # "idle" /\ proc[p].command.kind = "import" =>
    /\ Valid(list)
    /\ proc[p].pc # "tool" =>
         /\ proc[p].todo # {}
         /\ proc[p].call.name = Tool(p).name /\ proc[p].call.options = Options(Tool(p))
Doing ==
  \A p \in Process :
    /\ \A r \in proc[p].report : r.tool \in list
    /\ Working(p)
    /\ proc[p].pc = "commit" => Entry(p) \in manifest

ReportInv == LockInv /\ TagInv /\ Origins /\ Doing /\ ReportIsTrue

LEMMA PolicyApplies ==
  ASSUME Valid(list), Listed, NEW t \in list, NEW e, Written(e), Explained(e), e.name = t.name,
         NEW f \in applyPolicySet(e, Options(t))
  PROVE  f.name = e.name /\ Applied(t, f)
<1>1. CASE {t.policy.mode, t.policy.channel} \intersect {""} # {}
  <2>1. f.name = e.name
    BY DEF applyPolicySet, Written
  <2> QED
    BY <1>1, <2>1 DEF Applied
<1>2. CASE {t.policy.mode, t.policy.channel} \intersect {""} = {}
  <2>1. f = [e EXCEPT !.policy = [mode |-> t.policy.mode, channel |-> t.policy.channel,
                                  pin |-> IF t.policy.pin = {} THEN e.policy.pin ELSE t.policy.pin]]
    BY <1>2 DEF applyPolicySet, Options
  <2>2. f.name = e.name
    BY <2>1 DEF Written
  <2>3. f.policy = [mode |-> t.policy.mode, channel |-> t.policy.channel,
                    pin |-> IF t.policy.pin = {} THEN e.policy.pin ELSE t.policy.pin]
    BY <2>1 DEF Written
  <2>4. e.name \in tuned \/ t.policy.pin # {} \/ e.policy.pin = {}
    <3>1. CASE e.policy = DefaultPolicy
      BY <3>1 DEF DefaultPolicy
    <3>2. ASSUME NEW u \in list, Applied(u, e)
          PROVE  e.name \in tuned \/ t.policy.pin # {} \/ e.policy.pin = {}
      <4>1. u = t
        BY <3>2 DEF Applied, Valid
      <4> QED
        BY <1>2, <3>2, <4>1 DEF Applied
    <3> QED
      BY <3>1, <3>2 DEF Explained
  <2>5. e.name \in tuned \/ f.policy = t.policy
    BY <2>3, <2>4 DEF Listed
  <2> QED
    BY <2>2, <2>5 DEF Applied
<1> QED
  BY <1>1, <1>2

\* What a step makes of the names, the policies that users set, and the list.
LEMMA Grows ==
  ASSUME NEW p \in Process, Step(p)
  PROVE  list' = list /\ tuned \subseteq tuned' /\ undone \subseteq undone'
BY DEF Step, Start, Plan, Look, Leave, AdoptLock, Inspect, Apply, Commit, CommitFails, PolicyLook, PolicyLock,
   PolicySave, SaveFails, Crash, history

LEMMA Lasting ==
  ASSUME list' = list, tuned \subseteq tuned'
  PROVE  /\ \A t, e : Applied(t, e) => Applied(t, e)'
         /\ \A e : Explained(e) => Explained(e)'
<1>1. \A t, e : Applied(t, e) => Applied(t, e)'
  BY DEF Applied
<1>2. \A e : Explained(e) => Explained(e)'
  BY <1>1 DEF Explained
<1> QED
  BY <1>1, <1>2

LEMMA SaneGrows ==
  ASSUME list' = list, tuned \subseteq tuned'
  PROVE  \A m : Sane(m) => Sane(m)'
BY Lasting DEF Sane

LEMMA OneOutcome ==
  ASSUME NEW e, NEW o, NEW f \in applyPolicySet(e, o), NEW g \in applyPolicySet(e, o)
  PROVE  f = g
<1>1. applyPolicySet(e, o) = {} \/ \E x : applyPolicySet(e, o) = {x}
  BY Zenon DEF applyPolicySet
<1> QED
  BY <1>1

LEMMA BaseSteps ==
  ASSUME LockInv, NEW p \in Process, Step(p)
  PROVE  Others(p) /\ proc'[p].base \in {proc[p].base, manifest, {}}
<1>0. Shapes
  BY DEF LockInv
<1>1. CASE \E status : End(p, status)
  BY <1>0, <1>1, EndFacts
<1>2. CASE \E s : proc' = [proc EXCEPT ![p].pc = s]
  <2>1. PICK s : proc' = [proc EXCEPT ![p].pc = s]
    BY <1>2
  <2>2. Others(p) /\ proc'[p] = [proc[p] EXCEPT !.pc = s]
    BY <1>0, <2>1, GoesFrom
  <2> QED
    BY <1>0, <2>2 DEF Shapes, Shaped
<1>3. CASE \E s : proc' = [proc EXCEPT ![p].pc = s, ![p].base = manifest]
  BY <1>0, <1>3, GoesWith DEF Shapes, Shaped
<1>4. CASE proc' = [proc EXCEPT ![p].pc = "apply", ![p].sha = path[proc[p].call.name], ![p].base = manifest]
  <2> DEFINE r == [proc[p] EXCEPT !.pc = "apply", !.sha = path[proc[p].call.name], !.base = manifest]
  <2>1. Shaped(r) /\ proc' = [proc EXCEPT ![p] = r] /\ r.base = manifest
    BY <1>0, <1>4 DEF Shapes, Shaped
  <2> QED
    BY <1>0, <2>1, Becomes
<1>5. CASE Crash(p)
  <2>1. Shaped(Idle) /\ Idle.base = {} /\ proc' = [proc EXCEPT ![p] = Idle]
    BY <1>5 DEF Crash, Idle, Shaped
  <2> QED
    BY <1>0, <2>1, Becomes
<1>6. CASE Start(p) \/ Look(p)
  BY <1>0, <1>6, StartFacts, LookFacts
<1> QED
  BY <1>1, <1>2, <1>3, <1>4, <1>5, <1>6 DEF Step, Plan, Leave, AdoptLock, Inspect, Apply, Commit, CommitFails,
     PolicyLook, PolicyLock, PolicySave, SaveFails

\* The entries that a policy command leaves.
LEMMA SavesSane ==
  ASSUME ReportInv, NEW p \in Process, PolicySave(p)
  PROVE  Sane(manifest)'
<1> DEFINE c == proc[p].call
           base == proc[p].base
           after == UNION {applyPolicySet(f, c.options) : f \in Get(base, c.name)}
<1>1. /\ proc[p].pc = "save" /\ Sane(base) /\ list' = list /\ tuned \subseteq tuned'
      /\ \A e \in base : Written(e)
  BY Grows DEF PolicySave, ReportInv, Origins, TagInv, InHand
<1>2. CASE UNCHANGED manifest
  BY <1>1, <1>2, SaneGrows DEF ReportInv, Origins
<1>3. CASE /\ manifest' = (base \ Get(base, c.name)) \union after
           /\ tuned' = IF proc[p].command.kind = "import" THEN tuned ELSE tuned \union {c.name}
  <2>1. ASSUME NEW f \in after
        PROVE  f.name = c.name /\ Explained(f)' /\ \E e \in base : e.name = c.name /\ f \in applyPolicySet(e, c.options)
    <3>1. PICK e \in base : e.name = c.name /\ f \in applyPolicySet(e, c.options)
      BY DEF Get
    <3>2. f.name = c.name
      BY <1>1, <3>1 DEF applyPolicySet, Written
    <3>3. CASE proc[p].command.kind # "import"
      BY <1>3, <3>1, <3>2, <3>3 DEF Explained
    <3>4. CASE proc[p].command.kind = "import"
      <4>1. /\ Valid(list) /\ Listed /\ c.name = Tool(p).name /\ c.options = Options(Tool(p))
            /\ Tool(p) \in list
        BY <1>1, <3>4, ToolIsNext DEF ReportInv, Doing, Working, TagInv, InHand
      <4>2. Applied(Tool(p), f)
        BY <1>1, <3>1, <4>1, PolicyApplies DEF Sane
      <4>3. Explained(f)
        BY <4>1, <4>2 DEF Explained
      <4> QED
        BY <1>1, <3>1, <3>2, <4>3, Lasting
    <3> QED
      BY <3>1, <3>2, <3>3, <3>4
  <2>2. ASSUME NEW f \in after, NEW g \in after
        PROVE  f = g
    <3>1. PICK e \in base : e.name = c.name /\ f \in applyPolicySet(e, c.options)
      BY <2>1
    <3>2. PICK d \in base : d.name = c.name /\ g \in applyPolicySet(d, c.options)
      BY <2>1
    <3>3. d = e
      BY <1>1, <3>1, <3>2 DEF Sane
    <3> QED
      BY <3>1, <3>2, <3>3, OneOutcome
  <2>3. \A e \in base : Explained(e)'
    BY <1>1, SaneGrows DEF Sane
  <2> QED
    BY <1>1, <1>3, <2>1, <2>2, <2>3 DEF Sane, Get
<1> QED
  BY <1>2, <1>3 DEF PolicySave

LEMMA OriginSteps ==
  ASSUME ReportInv, NEW p \in Process, Step(p)
  PROVE  Origins'
<1>1. /\ list' = list /\ tuned \subseteq tuned' /\ Others(p)
      /\ proc'[p].base \in {proc[p].base, manifest, {}}
  BY Grows, BaseSteps DEF ReportInv
<1>2. /\ Sane(manifest) /\ \A m \in pending : Sane(m)
      /\ \A q \in Process : Sane(proc[q].base)
  BY DEF ReportInv, Origins
<1>3. Sane(manifest)'
  <2>1. CASE UNCHANGED manifest
    BY <1>1, <1>2, <2>1, SaneGrows
  <2>2. CASE AdoptLock(p)
    <3>1. manifest' = manifest \/ manifest' \in pending
      BY <2>2 DEF AdoptLock, Recovered, machine
    <3> QED
      BY <1>1, <1>2, <3>1, SaneGrows
  <2>3. CASE Apply(p) /\ manifest' # manifest
    <3>1. /\ proc[p].pc = "apply"
          /\ manifest' = (proc[p].base \ Get(proc[p].base, proc[p].call.name)) \union {Entry(p)}
      BY <2>3 DEF Apply
    <3>2. Entry(p).name = proc[p].call.name /\ Entry(p).policy = DefaultPolicy
      BY DEF Entry
    <3>3. \A e \in proc[p].base : Explained(e)'
      BY <1>1, <1>2, SaneGrows DEF Sane
    <3>4. Explained(Entry(p))
      BY <3>2 DEF Explained
    <3>5. ASSUME NEW e, Explained(e)
          PROVE  Explained(e)'
      BY <1>1, <3>5 DEF Explained, Applied
    <3> QED
      BY <1>2, <3>1, <3>2, <3>3, <3>4, <3>5 DEF Sane, Get
  <2>4. CASE CommitFails(p)
    BY <1>1, <1>2, <2>4, SaneGrows DEF CommitFails
  <2>5. CASE PolicySave(p)
    BY <2>5, SavesSane
  <2> QED
    BY <2>1, <2>2, <2>3, <2>4, <2>5 DEF Step, Start, Plan, Look, Leave, Inspect, Commit, PolicyLook, PolicyLock,
       SaveFails, Crash, machine
<1>4. \A m \in pending' : m \in pending \/ m \in {manifest, proc[p].base}
  BY DEF Step, Start, Plan, Look, Leave, AdoptLock, Inspect, Apply, Commit, CommitFails, PolicyLook, PolicyLock,
     PolicySave, SaveFails, Crash, machine
<1>5. \A m \in pending' : Sane(m)'
  BY <1>1, <1>2, <1>4, SaneGrows
<1>6. \A q \in Process : Sane(proc'[q].base)
  <2>1. Sane({})
    BY DEF Sane
  <2> QED
    BY <1>1, <1>2, <2>1 DEF Others
<1>7. \A q \in Process : Sane(proc[q].base)'
  BY <1>1, <1>6 DEF Sane, Explained, Applied
<1> QED
  BY <1>3, <1>5, <1>7 DEF Origins

\* Only the holder of the lock changes the manifest under an adoption.
LEMMA OnlyTheHolder ==
  ASSUME LockInv, NEW p \in Process, NEW q \in Process, q # p, proc[q].pc = "commit", Step(p)
  PROVE  UNCHANGED <<manifest, pending>>
<1>1. /\ lock = q /\ pending = {} /\ lock # None
      /\ proc[p].pc \notin Holding
  BY ToolsetAssumption DEF LockInv, Locking, Holding
<1>2. CASE AdoptLock(p)
  BY <1>1, <1>2 DEF AdoptLock, Locked, machine
<1>3. CASE Crash(p)
  BY <1>1, <1>3 DEF Crash, Holding
<1> QED
  BY <1>1, <1>2, <1>3 DEF Step, Start, Plan, Look, Leave, Inspect, Apply, Commit, CommitFails, PolicyLook,
     PolicyLock, PolicySave, SaveFails, Holding, machine

\* What Doing says of one process.
Does(p) ==
  /\ \A r \in proc[p].report : r.tool \in list
  /\ Working(p)
  /\ proc[p].pc = "commit" => Entry(p) \in manifest

LEMMA EndDoes ==
  ASSUME ReportInv, NEW p \in Process, NEW status, End(p, status), list' = list,
         proc[p].pc # "idle", proc[p].pc = "tool" => proc[p].todo # {}
  PROVE  Does(p)'
<1>1. Shapes /\ Listed /\ InHand(proc[p]) /\ Does(p)
  BY DEF ReportInv, TagInv, Doing, Does
<1>2. CASE proc[p].command.kind # "import"
  <2>1. proc'[p].pc = "idle" /\ proc'[p].report = proc[p].report
    BY <1>1, <1>2, EndFacts
  <2> QED
    BY <1>1, <2>1 DEF Does, Working
<1>3. CASE proc[p].command.kind = "import"
  <2>1. /\ proc'[p].pc = "tool"
        /\ proc'[p].report = proc[p].report \union {[tool |-> Tool(p), status |-> status]}
    BY <1>1, <1>3, EndFacts
  <2>2. Tool(p) \in list
    BY <1>1, <1>3, ToolIsNext DEF Does, Working, InHand
  <2>3. Valid(list)'
    BY <1>1, <1>3 DEF Does, Working, Valid
  <2> QED
    BY <1>1, <2>1, <2>2, <2>3 DEF Does, Working
<1> QED
  BY <1>2, <1>3

\* From one step of a command to the next.
LEMMA MoveDoes ==
  ASSUME ReportInv, NEW p \in Process, list' = list,
         proc[p].pc \notin {"idle", "tool"} \/ proc'[p].pc = "idle",
         proc'[p].todo = proc[p].todo, proc'[p].report = proc[p].report,
         proc'[p].call = proc[p].call, proc'[p].command = proc[p].command
  PROVE  /\ \A r \in proc'[p].report : r.tool \in list'
         /\ Working(p)'
<1>1. Does(p)
  BY DEF ReportInv, Doing, Does
<1>2. Tool(p)' = Tool(p)
  BY DEF Tool
<1>3. Options(Tool(p))' = Options(Tool(p)) /\ Valid(list)' = Valid(list)
  BY <1>2 DEF Options, Valid
<1> QED
  BY <1>1, <1>2, <1>3 DEF Does, Working

LEMMA DoingSteps ==
  ASSUME ReportInv, NEW p \in Process, Step(p)
  PROVE  Doing'
<1>0. /\ Shapes /\ Listed /\ InHand(proc[p]) /\ Does(p) /\ LockInv /\ list' = list
      /\ Others(p)
  BY Grows, BaseSteps DEF ReportInv, TagInv, Doing, Does
<1>1. ASSUME NEW q \in Process, q # p
      PROVE  Does(q)'
  <2>1. proc'[q] = proc[q] /\ Does(q)
    BY <1>0, <1>1 DEF Others, ReportInv, Doing, Does
  <2>2. Tool(q)' = Tool(q) /\ Entry(q)' = Entry(q)
    BY <2>1 DEF Tool, Entry
  <2>3. Options(Tool(q))' = Options(Tool(q)) /\ Valid(list)' = Valid(list)
    BY <1>0, <2>2 DEF Options, Valid
  <2>4. proc[q].pc = "commit" => manifest' = manifest
    BY <1>0, <1>1, OnlyTheHolder
  <2> QED
    BY <1>0, <2>1, <2>2, <2>3, <2>4 DEF Does, Working
<1>2. CASE \E status : End(p, status) /\ proc[p].pc # "idle" /\ (proc[p].pc = "tool" => proc[p].todo # {})
  BY <1>0, <1>1, <1>2, EndDoes DEF Doing, Does
<1>3. SUFFICES ASSUME ~\E status : End(p, status) /\ proc[p].pc # "idle" /\ (proc[p].pc = "tool" => proc[p].todo # {})
               PROVE  Does(p)'
  BY <1>1, <1>2 DEF Doing, Does
<1>4. CASE Start(p)
  <2>1. /\ proc'[p].report = {} /\ proc'[p].pc # "commit"
        /\ IF proc'[p].pc = "tool" THEN Valid(list) ELSE proc'[p].command.kind = proc'[p].pc /\ proc'[p].pc # "import"
    BY <1>0, <1>4, StartFacts
  <2>2. Valid(list)' = Valid(list)
    BY <1>0 DEF Valid
  <2> QED
    BY <2>1, <2>2 DEF Does, Working
<1>5. CASE Look(p)
  <2>1. proc[p].pc = "tool" /\ proc[p].todo # {}
    BY <1>5 DEF Look
  <2>2. proc'[p].pc = "adopt"
    BY <1>0, <1>3, <1>5, <2>1, LookFacts
  <2>3. /\ proc'[p].todo = proc[p].todo /\ proc'[p].report = proc[p].report /\ proc'[p].command = proc[p].command
        /\ proc'[p].call.name = Tool(p).name
        /\ proc'[p].call.options = Options(Tool(p))
    BY <1>0, <1>5, <2>2, LookFacts DEF Options
  <2>4. Tool(p)' = Tool(p)
    BY <2>3 DEF Tool
  <2>5. Options(Tool(p))' = Options(Tool(p)) /\ Valid(list)' = Valid(list)
    BY <1>0, <2>4 DEF Options, Valid
  <2> QED
    BY <1>0, <2>1, <2>2, <2>3, <2>4, <2>5 DEF Does, Working
<1>6. CASE \E s \in {"idle", "inspect", "policy"} :
             /\ proc' = [proc EXCEPT ![p].pc = s]
             /\ proc[p].pc \notin {"idle", "tool"} \/ s = "idle"
  <2>1. PICK s \in {"idle", "inspect", "policy"} :
          /\ proc' = [proc EXCEPT ![p].pc = s]
          /\ proc[p].pc \notin {"idle", "tool"} \/ s = "idle"
    BY <1>6
  <2>2. proc'[p] = [proc[p] EXCEPT !.pc = s]
    BY <1>0, <2>1, GoesFrom
  <2>3. /\ proc'[p].todo = proc[p].todo /\ proc'[p].report = proc[p].report /\ proc'[p].pc = s
        /\ proc'[p].call = proc[p].call /\ proc'[p].command = proc[p].command
    BY <1>0, <2>2 DEF Shapes, Shaped
  <2> QED
    BY <1>0, <2>1, <2>3, MoveDoes DEF Does
<1>7. CASE Apply(p)
  <2>1. /\ proc' = [proc EXCEPT ![p].pc = "commit"] /\ Entry(p) \in manifest' /\ proc[p].pc = "apply"
    BY <1>3, <1>7 DEF Apply
  <2>2. proc'[p] = [proc[p] EXCEPT !.pc = "commit"]
    BY <1>0, <2>1, GoesFrom
  <2>3. /\ proc'[p].todo = proc[p].todo /\ proc'[p].report = proc[p].report /\ proc'[p].sha = proc[p].sha
        /\ proc'[p].call = proc[p].call /\ proc'[p].command = proc[p].command
    BY <1>0, <2>2 DEF Shapes, Shaped
  <2>4. Entry(p)' = Entry(p)
    BY <2>3 DEF Entry
  <2> QED
    BY <1>0, <2>1, <2>3, <2>4, MoveDoes DEF Does
<1>8. CASE Inspect(p)
  <2>1. /\ proc[p].pc = "inspect"
        /\ proc' = [proc EXCEPT ![p].pc = "apply", ![p].sha = path[proc[p].call.name], ![p].base = manifest]
    BY <1>3, <1>8 DEF Inspect
  <2> DEFINE r == [proc[p] EXCEPT !.pc = "apply", !.sha = path[proc[p].call.name], !.base = manifest]
  <2>2. Shaped(r) /\ proc' = [proc EXCEPT ![p] = r]
    BY <1>0, <2>1 DEF Shapes, Shaped
  <2>3. /\ r.todo = proc[p].todo /\ r.report = proc[p].report /\ r.pc = "apply"
        /\ r.call = proc[p].call /\ r.command = proc[p].command
    BY <1>0 DEF Shapes, Shaped
  <2> HIDE DEF r
  <2>4. proc'[p] = r
    BY <1>0, <2>2, Becomes
  <2> QED
    BY <1>0, <2>1, <2>3, <2>4, MoveDoes DEF Does
<1>9. CASE PolicyLook(p) \/ PolicyLock(p)
  <2>1. /\ proc[p].pc \in {"policy", "lock"}
        /\ \/ proc' = [proc EXCEPT ![p].pc = "lock", ![p].base = manifest]
           \/ proc' = [proc EXCEPT ![p].pc = "save", ![p].base = manifest]
    BY <1>3, <1>9 DEF PolicyLook, PolicyLock
  <2>2. CASE proc' = [proc EXCEPT ![p].pc = "lock", ![p].base = manifest]
    <3>1. Shapes' /\ Others(p) /\ proc'[p] = [proc[p] EXCEPT !.pc = "lock", !.base = manifest]
      <4>1. Shapes
        BY <1>0
      <4> QED
        BY <2>2, <4>1, GoesWith
    <3>2. /\ proc'[p].todo = proc[p].todo /\ proc'[p].report = proc[p].report /\ proc'[p].pc = "lock"
          /\ proc'[p].call = proc[p].call /\ proc'[p].command = proc[p].command
      BY <1>0, <3>1 DEF Shapes, Shaped
    <3> QED
      BY <1>0, <2>1, <3>2, MoveDoes DEF Does
  <2>3. CASE proc' = [proc EXCEPT ![p].pc = "save", ![p].base = manifest]
    <3>1. Shapes' /\ Others(p) /\ proc'[p] = [proc[p] EXCEPT !.pc = "save", !.base = manifest]
      <4>1. Shapes
        BY <1>0
      <4> QED
        BY <2>3, <4>1, GoesWith
    <3>2. /\ proc'[p].todo = proc[p].todo /\ proc'[p].report = proc[p].report /\ proc'[p].pc = "save"
          /\ proc'[p].call = proc[p].call /\ proc'[p].command = proc[p].command
      BY <1>0, <3>1 DEF Shapes, Shaped
    <3> QED
      BY <1>0, <2>1, <3>2, MoveDoes DEF Does
  <2> QED
    BY <2>1, <2>2, <2>3
<1>10. CASE Crash(p)
  <2>1. Shaped(Idle) /\ Idle.pc = "idle" /\ Idle.report = {} /\ proc' = [proc EXCEPT ![p] = Idle]
    BY <1>10 DEF Crash, Idle, Shaped
  <2>2. proc'[p] = Idle
    BY <1>0, <2>1, Becomes
  <2> QED
    BY <2>1, <2>2 DEF Does, Working
<1>11. CASE Plan(p) \/ CommitFails(p) \/ PolicySave(p) \/ SaveFails(p)
  BY <1>3, <1>11 DEF Plan, CommitFails, PolicySave, SaveFails
<1>12. CASE Leave(p) \/ AdoptLock(p) \/ Commit(p)
  BY <1>3, <1>6, <1>12 DEF Leave, AdoptLock, Commit
<1> QED
  BY <1>4, <1>5, <1>7, <1>8, <1>9, <1>10, <1>11, <1>12 DEF Step

-----------------------------------------------------------------------------
(* Rows *)

\* A name that is in the manifest stays, or its adoption is undone.
LEMMA NamesStay ==
  ASSUME LockInv, NEW p \in Process, Step(p), \A e \in proc[p].base : Written(e)
  PROVE  Names(manifest) \union undone \subseteq Names(manifest') \union undone'
<1>1. CASE UNCHANGED manifest
  BY <1>1, Grows
<1>2. CASE AdoptLock(p) \/ CommitFails(p)
  <2>1. CASE AdoptLock(p)
    <3>1. CASE manifest' = Recovered /\ undone' = undone \union (Names(manifest) \ Names(Recovered))
      BY <3>1
    <3> QED
      BY <1>1, <2>1, <3>1 DEF AdoptLock, machine
  <2> QED
    BY <1>2, <2>1 DEF CommitFails
<1>3. CASE Apply(p) /\ manifest' # manifest
  <2>1. /\ proc[p].base = manifest /\ Entry(p).name = proc[p].call.name
        /\ manifest' = (proc[p].base \ Get(proc[p].base, proc[p].call.name)) \union {Entry(p)}
    BY <1>3 DEF Apply, LockInv, Locking, Holding, Entry
  <2> QED
    BY <2>1, Grows DEF Names, Get
<1>4. CASE PolicySave(p) /\ manifest' # manifest
  <2> DEFINE c == proc[p].call
             after == UNION {applyPolicySet(f, c.options) : f \in Get(manifest, c.name)}
  <2>1. /\ after # {} /\ manifest' = (manifest \ Get(manifest, c.name)) \union after
        /\ \A e \in manifest : Written(e)
    BY <1>4 DEF PolicySave, LockInv, Locking, Holding
  <2>2. PICK f \in after : f.name = c.name
    <3>1. PICK e \in manifest : e.name = c.name /\ applyPolicySet(e, c.options) # {}
      BY <2>1 DEF Get
    <3>2. PICK f \in applyPolicySet(e, c.options) : TRUE
      BY <3>1
    <3>3. f.name = c.name
      BY <2>1, <3>1, <3>2 DEF applyPolicySet, Written
    <3> QED
      BY <3>1, <3>2, <3>3 DEF Get
  <2> QED
    BY <2>1, <2>2, Grows DEF Names, Get
<1> QED
  BY <1>1, <1>2, <1>3, <1>4 DEF Step, Start, Plan, Look, Leave, Inspect, Commit, PolicyLook, PolicyLock,
     SaveFails, Crash, machine

\* With the lock held by a command that ends, all there is is settled.
LEMMA AllSettle ==
  ASSUME LockInv, NEW p \in Process, proc[p].pc \in Holding, Others(p), proc'[p].pc # "commit",
         pending' = pending
  PROVE  Settled' = manifest'
<1>1. pending = {} /\ \A q \in Process : q # p => proc'[q].pc \notin Holding
  BY OneHolds DEF LockInv, Locking, Others
<1> QED
  BY <1>1 DEF Settled, Holding

\* An entry stays settled while it stays.
LEMMA StaysSettled ==
  ASSUME LockInv, NEW p \in Process, Step(p), NEW e \in Settled, e \in manifest'
  PROVE  e \in Settled'
<1>1. Others(p) /\ proc'[p].base \in {proc[p].base, manifest, {}}
  BY BaseSteps
<1>2. \A m \in pending' : e \in m
  <2>1. CASE Crash(p)
    BY <2>1 DEF Crash, Settled, LockInv, Locking, Holding
  <2> QED
    BY <2>1 DEF Step, Start, Plan, Look, Leave, AdoptLock, Inspect, Apply, Commit, CommitFails, PolicyLook,
       PolicyLock, PolicySave, SaveFails, machine, Settled
<1>3. ASSUME proc'[p].pc = "commit"
      PROVE  e \in proc'[p].base
  <2>0. Shapes
    BY DEF LockInv
  <2>1. CASE \E status : End(p, status)
    BY <1>3, <2>0, <2>1, EndFacts
  <2>2. CASE Apply(p)
    <3>1. CASE proc' = [proc EXCEPT ![p].pc = "commit"]
      <4>1. proc'[p] = [proc[p] EXCEPT !.pc = "commit"]
        BY <2>0, <3>1, GoesFrom
      <4>2. proc'[p].base = proc[p].base /\ proc[p].base = manifest
        BY <2>0, <2>2, <4>1 DEF Apply, LockInv, Locking, Holding, Shapes, Shaped
      <4> QED
        BY <4>2 DEF Settled
    <3> QED
      BY <2>1, <2>2, <3>1 DEF Apply
  <2>3. CASE Start(p) \/ Look(p)
    BY <1>3, <2>0, <2>3, StartFacts, LookFacts DEF Holding
  <2>4. CASE proc' = [proc EXCEPT ![p].pc = "idle"]
    BY <1>3, <2>0, <2>4, GoesFrom DEF Shapes, Shaped
  <2>5. CASE proc' = [proc EXCEPT ![p].pc = "inspect"]
    BY <1>3, <2>0, <2>5, GoesFrom DEF Shapes, Shaped
  <2>6. CASE proc' = [proc EXCEPT ![p].pc = "policy"]
    BY <1>3, <2>0, <2>6, GoesFrom DEF Shapes, Shaped
  <2>7. CASE proc' = [proc EXCEPT ![p].pc = "lock", ![p].base = manifest]
    BY <1>3, <2>7 DEF LockInv, Shapes, Shaped
  <2>8. CASE proc' = [proc EXCEPT ![p].pc = "save", ![p].base = manifest]
    BY <1>3, <2>8 DEF LockInv, Shapes, Shaped
  <2>9. CASE proc' = [proc EXCEPT ![p].pc = "apply", ![p].sha = path[proc[p].call.name], ![p].base = manifest]
    BY <2>9 DEF Settled, LockInv, Shapes, Shaped
  <2>10. CASE proc' = [proc EXCEPT ![p] = Idle]
    BY <1>3, <2>10 DEF Idle, LockInv, Shapes
  <2> QED
    BY <2>1, <2>2, <2>3, <2>4, <2>5, <2>6, <2>7, <2>8, <2>9, <2>10 DEF Step, Plan, Leave, AdoptLock, Inspect, Commit,
       CommitFails, PolicyLook, PolicyLock, PolicySave, SaveFails, Crash
<1> QED
  BY <1>1, <1>2, <1>3 DEF Settled, Others

\* What an import's policy command leaves has the policy of the tool.
LEMMA SaveApplies ==
  ASSUME ReportInv, NEW p \in Process, PolicySave(p), NEW e \in manifest, e.name = proc[p].call.name,
         NEW f \in applyPolicySet(e, proc[p].call.options), proc[p].command.kind = "import",
         NEW t, t = Tool(p)
  PROVE  t \in list /\ e.name = t.name /\ Applied(t, f)'
<1>1. /\ Valid(list) /\ Listed /\ proc[p].call.name = Tool(p).name /\ proc[p].call.options = Options(Tool(p))
      /\ Tool(p) \in list /\ proc[p].pc = "save"
  BY ToolIsNext DEF PolicySave, ReportInv, Doing, Working, TagInv, InHand
<1>2. Written(e) /\ Explained(e)
  BY DEF ReportInv, TagInv, Origins, Sane
<1>3. Applied(t, f)
  BY <1>1, <1>2, PolicyApplies
<1>4. list' = list /\ tuned \subseteq tuned'
  BY Grows DEF Step
<1> QED
  BY <1>1, <1>3, <1>4, Lasting

\* What a settled entry says of a tool, the entry or its successor goes on to say.
LEMMA ChangeStays ==
  ASSUME ReportInv, NEW p \in Process, NEW t \in list, NEW e \in Settled, Applied(t, e), Changes(p, e)
  PROVE  \E f \in Settled' : Applied(t, f)'
<1> DEFINE c == proc[p].call
<1>1. /\ PolicySave(p) /\ c.name = e.name /\ proc[p].pc = "save" /\ e \in manifest /\ pending' = pending
      /\ Step(p) /\ LockInv /\ Shapes /\ e.name = t.name
  BY DEF Changes, PolicySave, Step, Settled, ReportInv, LockInv, Applied
<1>2. PICK f : f \in manifest' /\ f \in applyPolicySet(e, c.options)
  <2>1. PICK d \in Get(manifest, e.name) : applyPolicySet(d, c.options) # {}
    BY DEF Changes
  <2>2. d = e
    BY <1>1, <2>1 DEF Get, ReportInv, Origins, Sane
  <2>3. PICK f \in applyPolicySet(e, c.options) : TRUE
    BY <2>1, <2>2
  <2> QED
    BY <2>1, <2>2, <2>3 DEF Changes
<1>3. f.name = e.name
  BY <1>1, <1>2 DEF applyPolicySet, Written, ReportInv, TagInv
<1>4. Settled' = manifest'
  <2>1. Others(p)
    BY <1>1, BaseSteps
  <2>2. proc'[p].pc # "commit"
    BY <1>1, EndFacts DEF PolicySave
  <2> QED
    BY <1>1, <2>1, <2>2, AllSettle DEF Holding
<1>5. Applied(t, f)'
  <2>1. CASE proc[p].command.kind = "import"
    <3>1. PICK u : u = Tool(p)
      OBVIOUS
    <3>2. u \in list /\ e.name = u.name /\ Applied(u, f)'
      BY <1>1, <1>2, <2>1, <3>1, SaveApplies
    <3>3. Valid(list)
      BY <1>1, <2>1 DEF ReportInv, Doing, Working
    <3>4. u = t
      BY <1>1, <3>2, <3>3 DEF Valid
    <3> QED
      BY <3>2, <3>4
  <2>2. CASE proc[p].command.kind # "import"
    BY <1>1, <1>3, <2>2 DEF Changes, Applied
  <2> QED
    BY <2>1, <2>2
<1> QED
  BY <1>2, <1>4, <1>5

LEMMA SettledStays ==
  ASSUME ReportInv, NEW p \in Process, Step(p), NEW t \in list, NEW e \in Settled, Applied(t, e)
  PROVE  \E f \in Settled' : Applied(t, f)'
<1>0. LockInv /\ list' = list /\ tuned \subseteq tuned'
  BY Grows DEF ReportInv
<1>1. CASE e \in manifest'
  BY <1>0, <1>1, StaysSettled, Lasting
<1>2. CASE e \notin manifest'
  <2>1. [Next]_vars
    BY DEF Next
  <2>2. PICK q \in Process : Changes(q, e)
    BY <1>0, <1>2, <2>1, SettledChanges
  <2> QED
    BY <2>2, ChangeStays
<1> QED
  BY <1>1, <1>2

LEMMA EndRow ==
  ASSUME Shapes, NEW p \in Process, NEW status, End(p, status),
         NEW r \in proc'[p].report, r \notin proc[p].report, NEW t, t = Tool(p)
  PROVE  r = [tool |-> t, status |-> status] /\ proc[p].command.kind = "import"
BY EndFacts

\* How a row comes into a report.
LEMMA NewRow ==
  ASSUME ReportInv, NEW p \in Process, Step(p),
         NEW r \in proc'[p].report, r \notin proc[p].report, NEW t, t = Tool(p)
  PROVE  /\ r.tool = t /\ proc[p].command.kind = "import" /\ proc[p].pc # "idle"
         /\ proc[p].pc = "tool" => proc[p].todo # {}
         /\ r.status = "ok" =>
              \/ Commit(p) /\ ~policyNeedsApply(t.policy)
              \/ PolicySave(p) /\ \E e \in Get(proc[p].base, proc[p].call.name) :
                                    applyPolicySet(e, proc[p].call.options) # {}
         /\ r.status = "skipped" => t.local \/ t.name \in Names(manifest)
<1>0. Shapes
  BY DEF ReportInv, LockInv
<1>1. CASE End(p, "error") /\ proc[p].pc # "idle" /\ (proc[p].pc = "tool" => proc[p].todo # {})
  <2>1. r = [tool |-> t, status |-> "error"] /\ proc[p].command.kind = "import"
    BY <1>0, <1>1, EndRow
  <2> QED
    BY <1>1, <2>1
<1>2. CASE End(p, "would") /\ proc[p].pc = "tool" /\ proc[p].todo # {}
  <2>1. r = [tool |-> t, status |-> "would"] /\ proc[p].command.kind = "import"
    BY <1>0, <1>2, EndRow
  <2> QED
    BY <1>2, <2>1
<1>3. CASE /\ End(p, "skipped") /\ proc[p].pc = "tool" /\ proc[p].todo # {}
           /\ t.local \/ t.name \in Names(manifest)
  <2>1. r = [tool |-> t, status |-> "skipped"] /\ proc[p].command.kind = "import"
    BY <1>0, <1>3, EndRow
  <2> QED
    BY <1>3, <2>1
<1>4. CASE Commit(p) /\ End(p, "ok")
  <2>1. r = [tool |-> t, status |-> "ok"] /\ proc[p].command.kind = "import"
    BY <1>0, <1>4, EndRow
  <2>2. ~policyNeedsApply(t.policy) \/ proc' = [proc EXCEPT ![p].pc = "policy"]
    BY <1>4, <2>1 DEF Commit
  <2>3. proc' = [proc EXCEPT ![p].pc = "policy"] => proc'[p].report = proc[p].report
    BY <1>0 DEF Shapes, Shaped
  <2> QED
    BY <1>4, <2>1, <2>2, <2>3 DEF Commit
<1>5. CASE /\ PolicySave(p) /\ End(p, "ok")
           /\ UNION {applyPolicySet(e, proc[p].call.options) : e \in Get(proc[p].base, proc[p].call.name)} # {}
  <2>1. r = [tool |-> t, status |-> "ok"] /\ proc[p].command.kind = "import"
    BY <1>0, <1>5, EndRow
  <2> QED
    BY <1>5, <2>1 DEF PolicySave
<1>6. CASE Start(p)
  BY <1>0, <1>6, StartFacts
<1>7. CASE Look(p)
  <2>1. proc[p].pc = "tool" /\ proc[p].todo # {}
    BY <1>7 DEF Look
  <2>2. CASE proc'[p].pc = "adopt"
    BY <1>0, <1>7, <2>2, LookFacts
  <2>3. CASE proc'[p].pc # "adopt"
    <3>1. (End(p, "skipped") /\ (t.local \/ t.name \in Names(manifest))) \/ End(p, "error")
      BY <1>0, <1>7, <2>3, LookFacts
    <3> QED
      BY <1>1, <1>3, <2>1, <3>1
  <2> QED
    BY <2>2, <2>3
<1>8. CASE Plan(p)
  BY <1>1, <1>2, <1>3, <1>8 DEF Plan
<1>9. CASE \E s : proc' = [proc EXCEPT ![p].pc = s]
  BY <1>0, <1>9 DEF Shapes, Shaped
<1>10. CASE \E s : proc' = [proc EXCEPT ![p].pc = s, ![p].base = manifest]
  BY <1>0, <1>10 DEF Shapes, Shaped
<1>11. CASE proc' = [proc EXCEPT ![p].pc = "apply", ![p].sha = path[proc[p].call.name], ![p].base = manifest]
  BY <1>0, <1>11 DEF Shapes, Shaped
<1>12. CASE proc' = [proc EXCEPT ![p] = Idle]
  BY <1>0, <1>12 DEF Shapes, Idle
<1>13. CASE Leave(p) \/ AdoptLock(p) \/ Inspect(p) \/ Apply(p)
  BY <1>1, <1>9, <1>11, <1>13 DEF Leave, AdoptLock, Inspect, Apply
<1>14. CASE Commit(p) \/ CommitFails(p)
  BY <1>1, <1>4, <1>9, <1>14 DEF Commit, CommitFails
<1>15. CASE PolicyLook(p) \/ PolicyLock(p)
  BY <1>1, <1>10, <1>15 DEF PolicyLook, PolicyLock
<1>16. CASE PolicySave(p) \/ SaveFails(p)
  BY <1>1, <1>5, <1>16 DEF PolicySave, SaveFails
<1> QED
  BY <1>6, <1>7, <1>8, <1>12, <1>13, <1>14, <1>15, <1>16 DEF Step, Crash

Backed(r) ==
  /\ r.status = "ok" => \E e \in Settled : Applied(r.tool, e)
  /\ r.status = "skipped" => r.tool.local \/ r.tool.name \in Names(manifest) \union undone

LEMMA BackedReports == ReportIsTrue <=> \A p \in Process : \A r \in proc[p].report : Backed(r)
BY DEF ReportIsTrue, Backed, Applied

\* A tool that comes to be reported as imported is registered with its policy.
LEMMA OkIsBacked ==
  ASSUME ReportInv, NEW p \in Process, NEW t \in list, t = Tool(p), proc[p].command.kind = "import",
         \/ Commit(p) /\ ~policyNeedsApply(t.policy)
         \/ PolicySave(p) /\ \E e \in Get(proc[p].base, proc[p].call.name) :
                               applyPolicySet(e, proc[p].call.options) # {}
  PROVE  \E e \in Settled' : Applied(t, e)'
<1>0. /\ Shapes /\ LockInv /\ Step(p) /\ list' = list /\ tuned \subseteq tuned' /\ Others(p)
      /\ proc[p].call.name = t.name
  BY Grows, BaseSteps DEF Commit, PolicySave, Step, ReportInv, LockInv, Doing, Working
<1>1. CASE Commit(p) /\ ~policyNeedsApply(t.policy)
  <2>1. /\ proc[p].pc = "commit" /\ UNCHANGED <<manifest, pending>> /\ End(p, "ok")
    BY <1>1 DEF Commit
  <2>2. Settled' = manifest'
    BY <1>0, <2>1, EndFacts, AllSettle DEF Holding
  <2>3. PICK e \in manifest : e = Entry(p)
    BY <2>1 DEF ReportInv, Doing
  <2>4. e.name = t.name /\ e.policy = DefaultPolicy
    BY <1>0, <2>3 DEF Entry
  <2>5. Applied(t, e)
    BY <1>1, <2>4 DEF Applied, policyNeedsApply
  <2> QED
    BY <1>0, <2>1, <2>2, <2>5, Lasting
<1>2. CASE PolicySave(p) /\ \E e \in Get(proc[p].base, proc[p].call.name) :
                              applyPolicySet(e, proc[p].call.options) # {}
  <2> DEFINE c == proc[p].call
             after == UNION {applyPolicySet(e, c.options) : e \in Get(proc[p].base, c.name)}
  <2>1. proc[p].pc = "save" /\ pending' = pending /\ proc[p].base = manifest
    BY <1>2 DEF PolicySave, LockInv, Locking, Holding, ReportInv
  <2>2. PICK e \in Get(proc[p].base, c.name) : applyPolicySet(e, c.options) # {}
    BY <1>2
  <2>3. PICK f \in applyPolicySet(e, c.options) : TRUE
    BY <2>2
  <2>4. e \in manifest /\ e.name = c.name
    BY <2>1, <2>2 DEF Get
  <2>5. after # {} /\ f \in after
    BY <2>2, <2>3
  <2>6. f \in manifest'
    BY <1>2, <2>5 DEF PolicySave
  <2>7. Settled' = manifest'
    <3>1. \E status : End(p, status)
      BY <1>2 DEF PolicySave
    <3> QED
      BY <1>0, <2>1, <3>1, EndFacts, AllSettle DEF Holding
  <2>8. Applied(t, f)'
    BY <1>2, <2>3, <2>4, SaveApplies
  <2> QED
    BY <2>6, <2>7, <2>8
<1> QED
  BY <1>1, <1>2

LEMMA RowSteps ==
  ASSUME ReportInv, NEW p \in Process, Step(p)
  PROVE  ReportIsTrue'
<1>0. /\ LockInv /\ TagInv /\ Doing /\ list' = list /\ Others(p)
      /\ Names(manifest) \union undone \subseteq Names(manifest') \union undone'
  BY Grows, BaseSteps, NamesStay DEF ReportInv, TagInv, InHand
<1>1. ASSUME NEW r, Backed(r), r.tool \in list
      PROVE  Backed(r)'
  <2>1. r.status = "ok" => \E e \in Settled' : Applied(r.tool, e)'
    BY <1>1, SettledStays DEF Backed
  <2> QED
    BY <1>0, <1>1, <2>1 DEF Backed
<1>2. ASSUME NEW r \in proc'[p].report, r \notin proc[p].report
      PROVE  Backed(r)'
  <2>1. PICK t : t = Tool(p)
    OBVIOUS
  <2>2. /\ r.tool = t /\ proc[p].command.kind = "import" /\ proc[p].pc # "idle"
        /\ proc[p].pc = "tool" => proc[p].todo # {}
        /\ r.status = "ok" =>
             \/ Commit(p) /\ ~policyNeedsApply(t.policy)
             \/ PolicySave(p) /\ \E e \in Get(proc[p].base, proc[p].call.name) :
                                   applyPolicySet(e, proc[p].call.options) # {}
        /\ r.status = "skipped" => t.local \/ t.name \in Names(manifest)
    BY <1>2, <2>1, NewRow
  <2>3. t \in list
    BY <1>0, <2>1, <2>2, ToolIsNext DEF TagInv, InHand, Doing, Working
  <2>4. r.status = "ok" => \E e \in Settled' : Applied(r.tool, e)'
    BY <2>1, <2>2, <2>3, OkIsBacked
  <2> QED
    BY <1>0, <2>2, <2>4 DEF Backed
<1>3. ASSUME NEW q \in Process, NEW r \in proc'[q].report
      PROVE  Backed(r)'
  <2>1. CASE r \in proc[q].report
    <3>1. Backed(r) /\ r.tool \in list
      BY <2>1, BackedReports DEF ReportInv, Doing
    <3> QED
      BY <1>1, <3>1
  <2>2. CASE r \notin proc[q].report
    BY <1>0, <1>2, <1>3, <2>2 DEF Others
  <2> QED
    BY <2>1, <2>2
<1>4. \A q \in Process : \A r \in proc'[q].report : Backed(r)'
  BY <1>3
<1> QED
  BY <1>4 DEF ReportIsTrue, Backed, Applied

LEMMA ReportInitial == Init => ReportInv
<1> SUFFICES ASSUME Init
             PROVE  ReportInv
  OBVIOUS
<1>1. \A p \in Process : proc[p] = Idle
  BY DEF Init
<1>2. Idle.pc = "idle" /\ Idle.base = {} /\ Idle.report = {}
  BY DEF Idle
<1>3. Origins
  BY <1>1, <1>2 DEF Init, Origins, Sane
<1>4. Doing
  BY <1>1, <1>2 DEF Doing, Working
<1>5. ReportIsTrue
  BY <1>1, <1>2 DEF ReportIsTrue
<1> QED
  BY <1>3, <1>4, <1>5, LockInitial, TagInitial DEF ReportInv

LEMMA ReportStands ==
  ASSUME UNCHANGED <<list, manifest, pending, proc, undone, tuned>>
  PROVE  /\ Origins => Origins'
         /\ Doing => Doing'
         /\ ReportIsTrue => ReportIsTrue'
<1>1. Origins => Origins'
  BY DEF Origins, Sane, Explained, Applied
<1>2. Doing => Doing'
  <2>1. ASSUME NEW p \in Process, Does(p)
        PROVE  Does(p)'
    <3>1. Tool(p)' = Tool(p) /\ Entry(p)' = Entry(p)
      BY DEF Tool, Entry
    <3>2. Options(Tool(p))' = Options(Tool(p)) /\ Valid(list)' = Valid(list)
      BY <3>1 DEF Options, Valid
    <3> QED
      BY <2>1, <3>1, <3>2 DEF Does, Working
  <2> QED
    BY <2>1 DEF Doing, Does
<1>3. ReportIsTrue => ReportIsTrue'
  <2>1. Settled' = Settled
    BY DEF Settled
  <2> QED
    BY <2>1 DEF ReportIsTrue
<1> QED
  BY <1>1, <1>2, <1>3

LEMMA ReportPreserved == ReportInv /\ [Next]_vars => ReportInv'
<1> SUFFICES ASSUME ReportInv, [Next]_vars
             PROVE  ReportInv'
  OBVIOUS
<1>1. LockInv' /\ TagInv'
  BY LockPreserved, TagPreserved DEF ReportInv
<1>2. CASE \E p \in Process : Step(p)
  BY <1>1, <1>2, OriginSteps, DoingSteps, RowSteps DEF ReportInv
<1>3. CASE UNCHANGED <<list, manifest, pending, proc, undone, tuned>>
  BY <1>1, <1>3, ReportStands DEF ReportInv
<1> QED
  BY <1>2, <1>3 DEF Next, Install, vars, machine, history

\* Whatever other commands, crashes and users do meanwhile, what an import has
\* reported of a tool stays true.
THEOREM ReportsAreTrue == Spec => []ReportIsTrue
<1>1. ReportInv => ReportIsTrue
  BY DEF ReportInv
<1> QED
  BY <1>1, ReportInitial, ReportPreserved, PTL DEF Spec

-----------------------------------------------------------------------------
(* The registry *)

\* A transaction adds one entry to what there was, or what is left behind of it
\* decides for no more than can be seen; and what a policy command is given
\* comes from a command or from a list.
Lists == Edited \union {{Exported(e) : e \in home} : home \in Homes}
Deciding ==
  /\ AtMostOne(pending) /\ \A m \in pending : m \subseteq manifest
  /\ \A p \in Process : proc[p].pc = "commit" =>
       /\ manifest = proc[p].base \union {Entry(p)}
       /\ \A e \in proc[p].base : e.name # Entry(p).name
Tuning == {"policy", "lock", "save"}
Asking == list \in Lists /\ \A p \in Process : proc[p].pc \in Tuning => proc[p].call.options \in Asked

RegistryInv == ReportInv /\ Deciding /\ Asking

\* What a step does to what is registered.
Stays(p) == UNCHANGED <<manifest, pending>> /\ proc[p].pc # "commit" /\ proc'[p].pc # "commit"
Recovers(p) ==
  /\ lock = None /\ manifest' = Recovered /\ pending' = {} /\ proc'[p].pc = "inspect"
Registers(p) ==
  /\ proc[p].pc = "apply" /\ pending' = pending
  /\ manifest' = (proc[p].base \ Get(proc[p].base, proc[p].call.name)) \union {Entry(p)}
  /\ proc'[p] = [proc[p] EXCEPT !.pc = "commit"]
Decides(p) ==
  /\ proc[p].pc = "commit" /\ proc'[p].pc # "commit"
  /\ \E m \in {proc[p].base, manifest} :
       \/ manifest' = m /\ pending' = pending
       \/ manifest' = manifest /\ pending' = {m}
Saves(p) ==
  LET base == proc[p].base
      c == proc[p].call
      after == UNION {applyPolicySet(e, c.options) : e \in Get(base, c.name)}
  IN /\ proc[p].pc = "save" /\ proc'[p].pc # "commit" /\ pending' = pending
     /\ after # {} /\ manifest' = (base \ Get(base, c.name)) \union after
Abandons(p) ==
  /\ proc[p].pc = "apply" /\ proc'[p].pc = "idle" /\ manifest' = manifest /\ pending' = {proc[p].base}

LEMMA Effects ==
  ASSUME LockInv, NEW p \in Process, Step(p)
  PROVE  Stays(p) \/ Recovers(p) \/ Registers(p) \/ Decides(p) \/ Saves(p) \/ Abandons(p)
<1>0. Shapes
  BY DEF LockInv
<1>1. CASE Start(p) \/ Look(p)
  <2>1. proc[p].pc # "commit" /\ proc'[p].pc # "commit"
    BY <1>0, <1>1, StartFacts, LookFacts DEF Start, Look, Holding
  <2> QED
    BY <1>1, <2>1 DEF Stays, Start, Look, machine
<1>2. CASE \E status : End(p, status) /\ UNCHANGED <<manifest, pending>> /\ proc[p].pc # "commit"
  BY <1>0, <1>2, EndFacts DEF Stays
<1>3. CASE /\ \E s \in {"idle", "inspect"} : proc' = [proc EXCEPT ![p].pc = s]
           /\ UNCHANGED <<manifest, pending>> /\ proc[p].pc # "commit"
  BY <1>0, <1>3, GoesFrom DEF Stays, Shapes, Shaped
<1>4. CASE Plan(p) \/ Leave(p) \/ SaveFails(p)
  BY <1>2, <1>3, <1>4 DEF Plan, Leave, SaveFails, machine
<1>5. CASE AdoptLock(p)
  <2>1. CASE Locked
    BY <1>2, <1>5, <2>1 DEF AdoptLock, machine
  <2>2. CASE ~Locked
    <3>1. proc' = [proc EXCEPT ![p].pc = "inspect"] /\ manifest' = Recovered /\ pending' = {} /\ lock = None
      BY <1>5, <2>2 DEF AdoptLock, Locked
    <3>2. proc'[p].pc = "inspect"
      BY <1>0, <3>1, GoesFrom DEF Shapes, Shaped
    <3> QED
      BY <3>1, <3>2 DEF Recovers
  <2> QED
    BY <2>1, <2>2
<1>6. CASE Inspect(p)
  <2>1. UNCHANGED <<manifest, pending>> /\ proc[p].pc = "inspect"
    BY <1>6 DEF Inspect
  <2>2. CASE proc' = [proc EXCEPT ![p].pc = "apply", ![p].sha = path[proc[p].call.name], ![p].base = manifest]
    <3> DEFINE r == [proc[p] EXCEPT !.pc = "apply", !.sha = path[proc[p].call.name], !.base = manifest]
    <3>1. Shaped(r) /\ proc' = [proc EXCEPT ![p] = r] /\ r.pc = "apply"
      BY <1>0, <2>2 DEF Shapes, Shaped
    <3>2. proc'[p].pc = "apply"
      BY <1>0, <3>1, Becomes
    <3> QED
      BY <2>1, <3>2 DEF Stays
  <2> QED
    BY <1>2, <1>6, <2>1, <2>2 DEF Inspect
<1>7. CASE Apply(p)
  <2>1. proc[p].pc = "apply" /\ pending' = pending
    BY <1>7 DEF Apply
  <2>2. CASE path[proc[p].call.name] # proc[p].sha \/ manifest # proc[p].base
    <3>1. End(p, "error") /\ manifest' = manifest
      BY <1>7, <2>2 DEF Apply
    <3> QED
      BY <1>2, <2>1, <3>1
  <2>3. CASE ~(path[proc[p].call.name] # proc[p].sha \/ manifest # proc[p].base)
    <3>1. /\ manifest' = (proc[p].base \ Get(proc[p].base, proc[p].call.name)) \union {Entry(p)}
          /\ proc' = [proc EXCEPT ![p].pc = "commit"]
      BY <1>7, <2>3 DEF Apply
    <3>2. proc'[p] = [proc[p] EXCEPT !.pc = "commit"]
      BY <1>0, <3>1, GoesFrom
    <3> QED
      BY <2>1, <3>1, <3>2 DEF Registers
  <2> QED
    BY <2>2, <2>3
<1>8. CASE Commit(p) \/ CommitFails(p)
  <2>1. proc'[p].pc # "commit"
    <3>1. CASE \E status : End(p, status)
      BY <1>0, <3>1, EndFacts
    <3>2. CASE proc' = [proc EXCEPT ![p].pc = "policy"]
      BY <1>0, <3>2, GoesFrom DEF Shapes, Shaped
    <3> QED
      BY <1>8, <3>1, <3>2 DEF Commit, CommitFails
  <2>2. proc[p].pc = "commit" /\ pending' = pending /\ manifest' \in {manifest, proc[p].base}
    <3>1. CASE Commit(p)
      BY <3>1 DEF Commit
    <3>2. CASE CommitFails(p)
      BY <3>2 DEF CommitFails
    <3> QED
      BY <1>8, <3>1, <3>2
  <2>3. \E m \in {proc[p].base, manifest} : manifest' = m /\ pending' = pending
    BY <2>2
  <2> QED
    BY <2>1, <2>2, <2>3 DEF Decides
<1>9. CASE PolicyLook(p) \/ PolicyLock(p)
  <2>1. UNCHANGED <<manifest, pending>> /\ proc[p].pc # "commit"
    BY <1>9 DEF PolicyLook, PolicyLock, machine
  <2>2. CASE \E s \in {"lock", "save"} : proc' = [proc EXCEPT ![p].pc = s, ![p].base = manifest]
    BY <1>0, <2>1, <2>2, GoesWith DEF Stays, Shapes, Shaped
  <2> QED
    BY <1>2, <1>9, <2>1, <2>2 DEF PolicyLook, PolicyLock
<1>10. CASE PolicySave(p)
  <2> DEFINE base == proc[p].base
             c == proc[p].call
             after == UNION {applyPolicySet(e, c.options) : e \in Get(base, c.name)}
  <2>1. proc[p].pc = "save" /\ pending' = pending
    BY <1>10 DEF PolicySave
  <2>2. CASE after = {}
    BY <1>2, <1>10, <2>1, <2>2 DEF PolicySave
  <2>3. CASE after # {}
    <3>1. manifest' = (base \ Get(base, c.name)) \union after /\ End(p, "ok")
      BY <1>10, <2>3 DEF PolicySave
    <3>2. proc'[p].pc # "commit"
      BY <1>0, <3>1, EndFacts
    <3> QED
      BY <2>1, <2>3, <3>1, <3>2 DEF Saves
  <2> QED
    BY <2>2, <2>3
<1>11. CASE Crash(p)
  <2>1. proc'[p].pc = "idle" /\ manifest' = manifest
    BY <1>0, <1>11 DEF Crash, Idle, Shapes
  <2> QED
    BY <1>11, <2>1 DEF Crash, Stays, Decides, Abandons
<1> QED
  BY <1>1, <1>4, <1>5, <1>6, <1>7, <1>8, <1>9, <1>10, <1>11 DEF Step

\* Nobody is at the decision but the one that holds the lock.
LEMMA Alone ==
  ASSUME LockInv, NEW p \in Process, proc[p].pc \in Holding \/ lock = None
  PROVE  \A q \in Process : q # p \/ lock = None => proc[q].pc # "commit"
BY OneHolds DEF LockInv, Holding

LEMMA RecoveredIsSettled ==
  ASSUME Deciding, \A q \in Process : proc[q].pc # "commit"
  PROVE  Settled = Recovered /\ Recovered \subseteq manifest
<1>1. CASE pending = {}
  BY <1>1 DEF Settled, Recovered
<1>2. CASE pending # {}
  <2>1. PICK m \in pending : TRUE
    BY <1>2
  <2>2. pending = {m} /\ m \subseteq manifest
    BY <2>1 DEF Deciding, AtMostOne
  <2> QED
    BY <2>2 DEF Settled, Recovered
<1> QED
  BY <1>1, <1>2

LEMMA DecidingSteps ==
  ASSUME RegistryInv, NEW p \in Process, Step(p)
  PROVE  Deciding'
<1>0. Deciding /\ LockInv /\ Shapes /\ Locking /\ Others(p)
  BY BaseSteps DEF RegistryInv, ReportInv, LockInv
<1>1. ASSUME NEW q \in Process, q # p
      PROVE  proc'[q] = proc[q] /\ Entry(q)' = Entry(q)
  BY <1>0, <1>1 DEF Others, Entry
<1>2. CASE Stays(p)
  BY <1>0, <1>1, <1>2 DEF Stays, Deciding
<1>3. CASE Recovers(p)
  <2>1. \A q \in Process : proc[q].pc # "commit"
    BY <1>0, <1>3, Alone DEF Recovers
  <2> QED
    BY <1>1, <1>3, <2>1 DEF Recovers, Deciding, AtMostOne
<1>4. CASE Registers(p)
  <2>1. /\ proc[p].base = manifest /\ pending = {} /\ proc[p].call.name \notin Names(proc[p].base)
        /\ \A q \in Process : q # p => proc[q].pc # "commit"
    BY <1>0, <1>4, Alone DEF Registers, Locking, Holding
  <2>2. Entry(p).name = proc[p].call.name
    BY DEF Entry
  <2>3. proc'[p].base = proc[p].base /\ proc'[p].call = proc[p].call /\ proc'[p].sha = proc[p].sha
    BY <1>0, <1>4 DEF Registers, Shapes, Shaped
  <2>4. Entry(p)' = Entry(p)
    BY <2>3 DEF Entry
  <2>5. manifest' = proc[p].base \union {Entry(p)} /\ \A e \in proc[p].base : e.name # Entry(p).name
    BY <1>4, <2>1, <2>2 DEF Registers, Get, Names
  <2> QED
    BY <1>1, <1>4, <2>1, <2>3, <2>4, <2>5 DEF Registers, Deciding, AtMostOne
<1>5. CASE Decides(p)
  <2>1. /\ pending = {} /\ manifest = proc[p].base \union {Entry(p)}
        /\ \A q \in Process : q # p => proc[q].pc # "commit"
    BY <1>0, <1>5, Alone DEF Decides, Locking, Holding, Deciding
  <2>2. \A q \in Process : proc'[q].pc # "commit"
    BY <1>1, <1>5, <2>1 DEF Decides
  <2> QED
    BY <1>5, <2>1, <2>2 DEF Decides, Deciding, AtMostOne
<1>6. CASE Saves(p) \/ Abandons(p)
  <2>1. /\ pending = {} /\ \A q \in Process : q # p => proc[q].pc # "commit"
        /\ proc[p].base = manifest
    BY <1>0, <1>6, Alone DEF Saves, Abandons, Locking, Holding
  <2>2. \A q \in Process : proc'[q].pc # "commit"
    BY <1>1, <1>6, <2>1 DEF Saves, Abandons
  <2> QED
    BY <1>6, <2>1, <2>2 DEF Saves, Abandons, Deciding, AtMostOne
<1> QED
  BY <1>0, <1>2, <1>3, <1>4, <1>5, <1>6, Effects

LEMMA AskingSteps ==
  ASSUME RegistryInv, NEW p \in Process, Step(p)
  PROVE  Asking'
<1>0. Asking /\ LockInv /\ Shapes /\ Others(p) /\ list' = list /\ Doing /\ TagInv
  BY BaseSteps, Grows DEF RegistryInv, ReportInv, LockInv
<1>1. SUFFICES ASSUME proc'[p].pc \in Tuning
               PROVE  proc'[p].call.options \in Asked
  BY <1>0 DEF Asking, Others
<1>2. CASE Start(p)
  <2>1. proc'[p].command \in Commands /\ proc'[p].pc = "policy"
        /\ proc'[p].command.kind = "policy" /\ proc'[p].call = proc'[p].command.call
    BY <1>0, <1>1, <1>2, StartFacts DEF Tuning
  <2> QED
    BY <2>1 DEF Asked
<1>3. CASE Look(p)
  <2>1. CASE \E status : End(p, status)
    <3>1. proc'[p].pc \in {"idle", "tool"}
      BY <1>0, <2>1, EndFacts
    <3> QED
      BY <1>1, <3>1 DEF Tuning
  <2>2. CASE proc'[p].pc = "adopt"
    BY <1>1, <2>2 DEF Tuning
  <2> QED
    BY <1>0, <1>3, <2>1, <2>2, LookFacts
<1>4. CASE Commit(p) /\ proc[p].command.kind = "import"
  <2>1. proc[p].call.options = Options(Tool(p)) /\ Tool(p) \in list
    BY <1>0, <1>4, ToolIsNext DEF Commit, Doing, Working, TagInv, InHand
  <2>2. Options(Tool(p)) \in Asked
    BY <1>0, <2>1 DEF Asking, Lists, Asked
  <2>3. proc'[p].call = proc[p].call
    <3>1. CASE End(p, "ok")
      BY <1>0, <3>1, EndFacts
    <3>2. CASE proc' = [proc EXCEPT ![p].pc = "policy"]
      BY <1>0, <3>2, GoesFrom DEF Shapes, Shaped
    <3> QED
      BY <1>4, <3>1, <3>2 DEF Commit
  <2> QED
    BY <2>1, <2>2, <2>3
<1>5. CASE \E status : End(p, status)
  BY <1>0, <1>1, <1>5, EndFacts DEF Tuning
<1>6. CASE PolicyLook(p) \/ PolicyLock(p)
  <2>1. CASE \E s \in {"lock", "save"} : proc' = [proc EXCEPT ![p].pc = s, ![p].base = manifest]
    <3>1. PICK s \in {"lock", "save"} : proc' = [proc EXCEPT ![p].pc = s, ![p].base = manifest]
      BY <2>1
    <3>2. proc'[p].call = proc[p].call
      <4>1. proc'[p] = [proc[p] EXCEPT !.pc = s, !.base = manifest] /\ Shaped(proc[p])
        BY <1>0, <3>1, GoesWith DEF Shapes
      <4> QED
        BY <4>1 DEF Shaped
    <3>3. proc[p].pc \in Tuning
      BY <1>6 DEF PolicyLook, PolicyLock, Tuning
    <3> QED
      BY <1>0, <3>2, <3>3 DEF Asking
  <2> QED
    BY <1>5, <1>6, <2>1 DEF PolicyLook, PolicyLock
<1>7. CASE \E s \in {"idle", "inspect", "commit"} : proc' = [proc EXCEPT ![p].pc = s]
  BY <1>0, <1>1, <1>7, GoesFrom DEF Tuning, Shapes, Shaped
<1>8. CASE proc' = [proc EXCEPT ![p].pc = "apply", ![p].sha = path[proc[p].call.name], ![p].base = manifest]
  <2> DEFINE r == [proc[p] EXCEPT !.pc = "apply", !.sha = path[proc[p].call.name], !.base = manifest]
  <2>1. Shaped(r) /\ proc' = [proc EXCEPT ![p] = r] /\ r.pc = "apply"
    BY <1>0, <1>8 DEF Shapes, Shaped
  <2> QED
    BY <1>0, <1>1, <2>1, Becomes DEF Tuning
<1>9. CASE Crash(p)
  BY <1>0, <1>1, <1>9 DEF Crash, Idle, Shapes, Tuning
<1> QED
  BY <1>2, <1>3, <1>4, <1>5, <1>6, <1>7, <1>8, <1>9 DEF Step, Plan, Leave, AdoptLock, Inspect, Apply, Commit, CommitFails,
     PolicySave, SaveFails

\* Every step registers one entry, sets one policy, or leaves what is settled.
LEMMA RegistrySteps ==
  ASSUME RegistryInv, NEW p \in Process, Step(p)
  PROVE  Promise!Next \/ UNCHANGED Settled
<1>0. Deciding /\ LockInv /\ Shapes /\ Locking /\ Others(p) /\ Asking /\ Sane(manifest) /\ \A e \in manifest : Written(e)
  BY BaseSteps DEF RegistryInv, ReportInv, LockInv, Origins, TagInv
<1>1. \A q \in Process : q # p => proc'[q] = proc[q]
  BY <1>0 DEF Others
<1>2. CASE Stays(p)
  BY <1>1, <1>2 DEF Stays, Settled
<1>3. CASE Recovers(p)
  <2>1. \A q \in Process : proc[q].pc # "commit"
    BY <1>0, <1>3, Alone DEF Recovers
  <2>2. Settled = Recovered
    BY <1>0, <2>1, RecoveredIsSettled
  <2>3. Settled' = manifest'
    BY <1>1, <1>3, <2>1 DEF Recovers, Settled
  <2> QED
    BY <1>3, <2>2, <2>3 DEF Recovers
<1>4. CASE Registers(p)
  <2>1. /\ proc[p].base = manifest /\ pending = {} /\ proc[p].call.name \notin Names(proc[p].base)
        /\ \A q \in Process : proc[q].pc # "commit"
    BY <1>0, <1>4, Alone DEF Registers, Locking, Holding
  <2>2. proc'[p].base = proc[p].base /\ proc'[p].pc = "commit"
    BY <1>0, <1>4 DEF Registers, Shapes, Shaped
  <2>3. manifest \subseteq manifest'
    BY <1>4, <2>1 DEF Registers, Get, Names
  <2>4. Settled = manifest
    BY <2>1 DEF Settled
  <2>5. Settled' = manifest
    BY <1>1, <1>4, <2>1, <2>2, <2>3 DEF Registers, Settled
  <2> QED
    BY <2>4, <2>5
<1>5. CASE Decides(p)
  <2> DEFINE base == proc[p].base
  <2>1. /\ pending = {} /\ manifest = base \union {Entry(p)} /\ \A e \in base : e.name # Entry(p).name
        /\ \A q \in Process : q # p => proc[q].pc # "commit"
    BY <1>0, <1>5, Alone DEF Decides, Locking, Holding, Deciding
  <2>2. \A q \in Process : proc'[q].pc # "commit"
    BY <1>1, <1>5, <2>1 DEF Decides
  <2>3. Settled = base
    BY <1>5, <2>1 DEF Settled, Decides
  <2>4. Settled' = base \/ Settled' = manifest
    <3>1. PICK m \in {base, manifest} :
            \/ manifest' = m /\ pending' = pending
            \/ manifest' = manifest /\ pending' = {m}
      BY <1>5 DEF Decides
    <3>2. m \subseteq manifest
      BY <2>1, <3>1
    <3>3. Settled' = m
      BY <2>1, <2>2, <3>1, <3>2 DEF Settled
    <3> QED
      BY <3>1, <3>3
  <2>5. Entry(p).policy = DefaultPolicy
    BY DEF Entry
  <2>6. Settled' = manifest => Promise!Register(Entry(p)) /\ Entry(p) \in Settled'
    BY <2>1, <2>3, <2>5 DEF Promise!Register
  <2> QED
    BY <2>3, <2>4, <2>6 DEF Promise!Next
<1>6. CASE Saves(p)
  <2> DEFINE base == proc[p].base
             c == proc[p].call
             o == c.options
             after == UNION {applyPolicySet(e, o) : e \in Get(base, c.name)}
  <2>1. /\ base = manifest /\ pending = {} /\ \A q \in Process : proc[q].pc # "commit"
    BY <1>0, <1>6, Alone DEF Saves, Locking, Holding
  <2>2. Settled = manifest /\ Settled' = manifest'
    BY <1>1, <1>6, <2>1 DEF Settled, Saves
  <2>3. after # {} /\ manifest' = (base \ Get(base, c.name)) \union after
    BY <1>6 DEF Saves
  <2>4. PICK d \in Get(base, c.name) : applyPolicySet(d, o) # {}
    BY <2>3
  <2>5. Get(base, c.name) = {d} /\ d \in manifest /\ Written(d)
    BY <1>0, <2>1, <2>4 DEF Get, Sane
  <2>6. PICK f : f \in applyPolicySet(d, o)
    BY <2>4
  <2>7. after = {f}
    BY <2>5, <2>6, OneOutcome
  <2>8. Settled' = (Settled \ {d}) \union {f}
    BY <2>1, <2>2, <2>3, <2>5, <2>7
  <2>9. f = [d EXCEPT !.policy =
              [mode |-> IF o.mode = {} THEN d.policy.mode ELSE CHOOSE x \in o.mode : TRUE,
               channel |-> IF o.channel = {} THEN d.policy.channel ELSE CHOOSE x \in o.channel : TRUE,
               pin |-> IF o.unpin THEN {} ELSE IF o.pin = {} THEN d.policy.pin ELSE o.pin]]
    BY <2>5, <2>6 DEF applyPolicySet
  <2>10. /\ f.policy.mode \in Promise!Kept(o.mode, d.policy.mode)
         /\ f.policy.channel \in Promise!Kept(o.channel, d.policy.channel)
         /\ f.policy.pin = IF o.unpin THEN {} ELSE IF o.pin = {} THEN d.policy.pin ELSE o.pin
         /\ f = [d EXCEPT !.policy = f.policy]
    <3> DEFINE mode == IF o.mode = {} THEN d.policy.mode ELSE CHOOSE x \in o.mode : TRUE
               channel == IF o.channel = {} THEN d.policy.channel ELSE CHOOSE x \in o.channel : TRUE
               pin == IF o.unpin THEN {} ELSE IF o.pin = {} THEN d.policy.pin ELSE o.pin
    <3>1. mode \in Promise!Kept(o.mode, d.policy.mode) /\ channel \in Promise!Kept(o.channel, d.policy.channel)
      BY DEF Promise!Kept
    <3>2. f = [d EXCEPT !.policy = [mode |-> mode, channel |-> channel, pin |-> pin]]
      BY <2>9
    <3> HIDE DEF mode, channel, pin
    <3>3. f.policy = [mode |-> mode, channel |-> channel, pin |-> pin]
      BY <2>5, <3>2 DEF Written
    <3>4. f.policy.mode = mode /\ f.policy.channel = channel /\ f.policy.pin = pin
      BY <3>3
    <3>5. f = [d EXCEPT !.policy = f.policy]
      BY <3>2, <3>3
    <3> QED
      BY <3>1, <3>4, <3>5 DEF pin
  <2>11. o \in Asked
    BY <1>0, <1>6 DEF Asking, Tuning, Saves
  <2>12. Promise!Tune(d, f, o)
    BY <2>8, <2>10 DEF Promise!Tune
  <2> QED
    BY <2>2, <2>5, <2>8, <2>11, <2>12 DEF Promise!Next
<1>7. CASE Abandons(p)
  <2>1. proc[p].base = manifest /\ pending = {} /\ \A q \in Process : proc[q].pc # "commit"
    BY <1>0, <1>7, Alone DEF Abandons, Locking, Holding
  <2> QED
    BY <1>1, <1>7, <2>1 DEF Abandons, Settled
<1> QED
  BY <1>0, <1>2, <1>3, <1>4, <1>5, <1>6, <1>7, Effects

\* Commands that look before they lock, wait for nobody and may be killed
\* anywhere do to the registered tools what one command at a time would do.
THEOREM CommandsAreARegistry == Spec => RegistrySpec
<1>1. Init => RegistryInv /\ Promise!Init
  <2> SUFFICES ASSUME Init
               PROVE  RegistryInv /\ Promise!Init
    OBVIOUS
  <2>1. manifest = {} /\ pending = {} /\ list \in Lists /\ \A p \in Process : proc[p].pc = "idle"
    BY DEF Init, Lists, Idle
  <2> QED
    BY <2>1, ReportInitial DEF RegistryInv, Deciding, AtMostOne, Asking, Tuning, Promise!Init, Settled
<1>2. RegistryInv /\ [Next]_vars => RegistryInv' /\ [Promise!Next]_Settled
  <2> SUFFICES ASSUME RegistryInv, [Next]_vars
               PROVE  RegistryInv' /\ [Promise!Next]_Settled
    OBVIOUS
  <2>1. ReportInv'
    BY ReportPreserved DEF RegistryInv
  <2>2. CASE \E p \in Process : Step(p)
    BY <2>1, <2>2, DecidingSteps, AskingSteps, RegistrySteps DEF RegistryInv
  <2>3. CASE UNCHANGED <<list, manifest, pending, proc>>
    <3>1. \A p \in Process : Entry(p)' = Entry(p)
      BY <2>3 DEF Entry
    <3>2. Deciding' /\ Asking' /\ Settled' = Settled
      BY <2>3, <3>1 DEF RegistryInv, Deciding, Asking, Settled
    <3> QED
      BY <2>1, <3>2 DEF RegistryInv
  <2> QED
    BY <2>2, <2>3 DEF Next, Install, vars, machine
<1> QED
  BY <1>1, <1>2, PTL DEF Spec, RegistrySpec, Promise!Spec
=============================================================================
