--------------------------- MODULE ProcGroupProofs --------------------------
(***************************************************************************)
(* Proofs about ProcGroup, for any number of descendants: no writer of the  *)
(* group is left behind a terminated command, and a command that came back  *)
(* within the grace period is not followed by SIGKILL.                      *)
(***************************************************************************)
EXTENDS ProcGroup, TLAPS

\* Where the escalation can be, given the watcher and Wait: only the watcher
\* sets it, and only a command that came back spares the group.
Escalation ==
  /\ timer # "off" => watcher \in {"waiting", "killing", "gone"}
  /\ timer = "spared" => wait = "closed"

\* Our side of the pipes is closed after the grace period only: by then the
\* group was killed, or its termination never began.
Drained == drained => timer = "fired" \/ (timer = "off" /\ watcher \in {"waiting", "killing", "gone"})

\* SIGKILL leaves nobody in the group, and nobody can join it.
Emptied == timer = "fired" => Members = {}

\* Wait returns when the group or the writers are gone.
Quiet ==
  wait \in {"returned", "closed"} /\ timer # "off" =>
    Members = {} \/ alive \intersect pipes = {}

\* Only processes that were born are in the group or hold the output.
Born == unborn \intersect group = {} /\ unborn \intersect pipes = {}

IInv == TypeOK /\ Born /\ Escalation /\ Drained /\ Emptied /\ Quiet

\* A step of the control alone, or one by which processes only disappear,
\* leaves an empty group and an absence of writers as they are.
LEMMA FewerProcesses ==
  ASSUME alive' \subseteq alive, UNCHANGED <<group, pipes>>
  PROVE  /\ Members = {} => Members' = {}
         /\ alive \intersect pipes = {} => alive' \intersect pipes' = {}
BY DEF Members

LEMMA Initially == Init => IInv
BY ProcGroupAssumption DEF Init, IInv, TypeOK, Born, Escalation, Drained, Emptied, Quiet, Proc

\* A newborn is in the group, or holds the output, only with its parent.
LEMMA SpawnStep ==
  ASSUME IInv, NEW p \in Proc, NEW k \in Kids, Spawn(p, k)
  PROVE  IInv'
PROOF
<1>1. /\ p \in alive /\ k \in unborn /\ k \notin group /\ k \notin pipes
      /\ unborn' = unborn \ {k} /\ alive' = alive \union {k}
      /\ group' = group \/ (p \in group /\ group' = group \union {k})
      /\ pipes' = pipes \/ (p \in pipes /\ pipes' = pipes \union {k})
      /\ stubborn' \in {stubborn, stubborn \union {k}}
      /\ UNCHANGED <<reaped, stranger, hits, ctxDone, wait, watcher, timer, drained>>
  BY DEF Spawn, IInv, Born, number, control
<1>2. TypeOK' /\ Born'
  BY <1>1 DEF IInv, TypeOK, Born, Proc
<1>3. Members = {} => Members' = {}
  BY <1>1 DEF Members
<1>4. alive \intersect pipes = {} => alive' \intersect pipes' = {}
  BY <1>1
<1>5. Escalation' /\ Drained' /\ Emptied' /\ Quiet'
  BY <1>1, <1>3, <1>4 DEF IInv, Escalation, Drained, Emptied, Quiet
<1> QED BY <1>2, <1>5 DEF IInv

LEMMA ProcessStep ==
  ASSUME IInv, Reuse \/ ContextDone \/ \E p \in Proc : Exits(p)
  PROVE  IInv'
PROOF
<1>1. /\ alive' \subseteq alive
      /\ UNCHANGED <<unborn, group, pipes, stubborn, reaped, wait, watcher, timer, drained, hits>>
      /\ stranger' \in {stranger, TRUE} /\ ctxDone' \in {ctxDone, TRUE}
  BY DEF Reuse, ContextDone, Exits, processes, number, control
<1>2. TypeOK' /\ Born'
  BY <1>1 DEF IInv, TypeOK, Born
<1>3. Escalation' /\ Drained' /\ Emptied' /\ Quiet'
  BY <1>1, FewerProcesses DEF IInv, Escalation, Drained, Emptied, Quiet
<1> QED BY <1>2, <1>3 DEF IInv

LEMMA SignalStep ==
  ASSUME IInv, Terminate \/ TerminateFails \/ Escalate \/ Kill
  PROVE  IInv'
PROOF
<1>1. /\ alive' \subseteq alive
      /\ UNCHANGED <<unborn, group, pipes, stubborn, reaped, stranger, ctxDone, wait, drained>>
      /\ hits' \in {hits, hits \union {"TERM"}, hits \union {"KILL"}}
  BY DEF Terminate, TerminateFails, Escalate, Kill, Signal, processes, number
<1>2. \/ watcher = "canceling" /\ watcher' = "waiting" /\ timer' = "set"
      \/ watcher = "canceling" /\ reaped /\ watcher' = "waiting" /\ UNCHANGED <<timer, alive>>
      \/ /\ timer = "set" /\ UNCHANGED <<watcher, alive>>
         /\ timer' = IF wait = "closed" THEN "spared" ELSE "checked"
      \/ /\ timer = "checked" /\ UNCHANGED watcher /\ timer' = "fired"
         /\ alive' = alive \ (Members \intersect Proc)
  BY DEF Terminate, TerminateFails, Escalate, Kill, Signal, processes
<1>3. TypeOK' /\ Born'
  BY <1>1, <1>2 DEF IInv, TypeOK, Born
<1>4. Escalation' /\ Drained'
  BY <1>1, <1>2 DEF IInv, TypeOK, Escalation, Drained
<1>5. Emptied'
  BY <1>1, <1>2 DEF IInv, TypeOK, Emptied, Members
<1>6. Quiet'
  BY <1>1, <1>2, FewerProcesses DEF IInv, TypeOK, Escalation, Quiet
<1> QED BY <1>3, <1>4, <1>5, <1>6 DEF IInv

LEMMA ExecStep ==
  ASSUME IInv, WatcherCancels \/ Reap \/ HandOver \/ ForceKill \/ WaitPipes \/ CloseWaitDone
  PROVE  IInv'
PROOF
<1>1. /\ alive' \subseteq alive
      /\ UNCHANGED <<unborn, group, pipes, stubborn, number, ctxDone, timer>>
  BY DEF WatcherCancels, Reap, HandOver, ForceKill, WaitPipes, CloseWaitDone, processes
<1>2. TypeOK' /\ Born'
  <2>1. Born' /\ alive' \subseteq Proc \ unborn'
    BY <1>1 DEF IInv, TypeOK, Born
  <2>2. CASE Reap
    BY <1>1, <2>1, <2>2 DEF Reap, number, IInv, TypeOK
  <2>3. CASE HandOver
    <3>1. /\ UNCHANGED <<reaped, stranger, hits, drained>> /\ wait' = "pipes" /\ watcher' = "gone"
          /\ wait # "process"
      BY <2>3 DEF HandOver, processes, number
    <3> QED BY <1>1, <2>1, <3>1 DEF number, IInv, TypeOK
  <2>6. CASE ForceKill
    <3>1. /\ UNCHANGED <<reaped, stranger, hits, wait>> /\ drained' = TRUE
          /\ watcher = "waiting" /\ watcher' = "killing"
      BY <2>6 DEF ForceKill, number
    <3> QED BY <1>1, <2>1, <3>1 DEF number, IInv, TypeOK
  <2>4. CASE WaitPipes \/ CloseWaitDone
    BY <1>1, <2>1, <2>4 DEF WaitPipes, CloseWaitDone, processes, number, IInv, TypeOK
  <2>5. CASE WatcherCancels
    BY <1>1, <2>1, <2>5 DEF WatcherCancels, processes, number, IInv, TypeOK
  <2> QED BY <2>2, <2>3, <2>4, <2>5, <2>6
<1>3. Escalation'
  BY <1>1 DEF WatcherCancels, Reap, HandOver, ForceKill, WaitPipes, CloseWaitDone, IInv, TypeOK,
     Escalation
<1>4. Drained'
  BY <1>1 DEF WatcherCancels, Reap, HandOver, ForceKill, WaitPipes, CloseWaitDone, IInv, TypeOK,
     Escalation, Drained, GraceIsOver
<1>5. Emptied'
  BY <1>1, FewerProcesses DEF IInv, Emptied
<1>6. Quiet'
  <2>1. CASE WaitPipes
    <3>1. timer # "off" => timer = "fired" \/ alive \intersect pipes = {}
      BY <2>1 DEF WaitPipes, IInv, TypeOK, Escalation, Drained, GraceIsOver
    <3> QED BY <1>1, <2>1, <3>1, FewerProcesses DEF IInv, Emptied, Quiet
  <2>2. CASE CloseWaitDone
    BY <1>1, <2>2, FewerProcesses DEF CloseWaitDone, IInv, Quiet
  <2>3. CASE WatcherCancels \/ Reap \/ HandOver \/ ForceKill
    BY <1>1, <2>3, FewerProcesses DEF WatcherCancels, Reap, HandOver, ForceKill, IInv, Quiet
  <2> QED BY <2>1, <2>2, <2>3
<1> QED BY <1>2, <1>3, <1>4, <1>5, <1>6 DEF IInv

LEMMA Inductive == Spec => []IInv
PROOF
<1>1. Init => IInv
  BY Initially
<1>2. IInv /\ [Next]_vars => IInv'
  <2> SUFFICES ASSUME IInv, [Next]_vars PROVE IInv'
    OBVIOUS
  <2>1. CASE Hukou
    BY <2>1, SignalStep, ExecStep DEF Hukou
  <2>2. CASE ContextDone \/ Reuse \/ \E p \in Proc : Exits(p)
    BY <2>2, ProcessStep
  <2>3. CASE \E p \in Proc : \E k \in Kids : Spawn(p, k)
    BY <2>3, SpawnStep
  <2>4. CASE UNCHANGED vars
    BY <2>4 DEF vars, processes, number, control, IInv, TypeOK, Born, Escalation, Drained, Emptied,
       Quiet, Members
  <2> QED BY <2>1, <2>2, <2>3, <2>4 DEF Next
<1> QED BY <1>1, <1>2, PTL DEF Spec

\* The watcher, Wait and the timer of a command stay in step.
THEOREM GroupTypeCorrect == Spec => []TypeOK
PROOF
<1>1. IInv => TypeOK
  BY DEF IInv
<1> QED BY <1>1, Inductive, PTL

\* When runOne comes back from a command it terminated, no process of the
\* group can write to the output of the next manager.
THEOREM WritersAreGone == Spec => []NoWriterLeft
PROOF
<1>1. IInv => NoWriterLeft
  BY DEF IInv, Quiet, NoWriterLeft, Members
<1> QED BY <1>1, Inductive, PTL

\* The escalation timer's look at waitDone spares the number of a command that
\* came back within the grace period, for ever.
THEOREM PromptReturnsAreSpared == Spec => PromptReturnIsSpared
PROOF
<1> DEFINE Back == wait = "closed" /\ timer \in {"set", "spared"}
<1>1. timer = "set" /\ wait = "closed" => Back
  OBVIOUS
<1>2. Back => timer # "fired"
  OBVIOUS
<1>3. Back /\ [Next]_vars => Back'
  BY DEF Next, Hukou, ContextDone, Reuse, Exits, Spawn, WatcherCancels, Terminate, TerminateFails, Escalate, Kill,
     Reap, HandOver, ForceKill, WaitPipes, CloseWaitDone, vars, control
<1> HIDE DEF Back
<1> QED BY <1>1, <1>2, <1>3, PTL DEF Spec, PromptReturnIsSpared
=============================================================================
