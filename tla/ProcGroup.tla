----------------------------- MODULE ProcGroup -----------------------------
(***************************************************************************)
(* One manager command and the processes it spawns                          *)
(* (internal/orchestrate/executor: runOne and procgroup_unix.go): what      *)
(* becomes of them when the context is done.  Two goroutines of os/exec take *)
(* part, Wait in the caller and the watcher of the context, and a timer of  *)
(* hukou's own that escalates from SIGTERM to SIGKILL.  Signals go to the    *)
(* process group by number, and the kernel may give a number away again.    *)
(***************************************************************************)
EXTENDS Naturals, FiniteSets

CONSTANTS
  Leader,  \* the command; its pid is the number of the group
  Kids     \* the processes it or its descendants may spawn

ASSUME ProcGroupAssumption == Leader \notin Kids

Proc == Kids \union {Leader}

VARIABLES
  unborn,    \* kids not spawned yet
  alive,     \* processes that run
  group,     \* processes in the leader's group; the others left it
  pipes,     \* processes that hold the output pipes
  stubborn,  \* processes that survive SIGTERM
  reaped,    \* the leader's exit status was collected
  stranger,  \* the group's number belongs to an unrelated group now
  hits,      \* signals that reached the stranger
  ctxDone,   \* the context is canceled or past its deadline
  wait,      \* where Cmd.Wait is: process, result, pipes, returned, closed
  watcher,   \* where the watcher is: armed, canceling, waiting, killing, gone
  timer,     \* the escalation: off, set, checked, fired, spared
  drained    \* WaitDelay is over and the pipes are closed on our side

processes == <<unborn, alive, group, pipes, stubborn, reaped>>
number == <<stranger, hits>>
control == <<ctxDone, wait, watcher, timer, drained>>
vars == <<processes, number, control>>

Init ==
  /\ unborn = Kids /\ alive = {Leader} /\ group = {Leader} /\ pipes = {Leader}
  /\ stubborn \in SUBSET {Leader}
  /\ reaped = FALSE /\ stranger = FALSE /\ hits = {}
  /\ ctxDone = FALSE
  /\ wait = "process" /\ watcher = "armed" /\ timer = "off" /\ drained = FALSE

-----------------------------------------------------------------------------
(* The processes *)

Members == alive \intersect group

\* A child inherits the pipes unless it closes them, and the group unless it
\* leaves it.
Spawn(parent, kid) ==
  /\ parent \in alive /\ kid \in unborn
  /\ unborn' = unborn \ {kid} /\ alive' = alive \union {kid}
  /\ \/ group' = group
     \/ parent \in group /\ group' = group \union {kid}
  /\ \/ pipes' = pipes
     \/ parent \in pipes /\ pipes' = pipes \union {kid}
  /\ stubborn' \in {stubborn, stubborn \union {kid}}
  /\ UNCHANGED <<reaped, number, control>>

Exits(p) ==
  /\ p \in alive
  /\ alive' = alive \ {p}
  /\ UNCHANGED <<unborn, group, pipes, stubborn, reaped, number, control>>

\* No process of the group is left, not even a zombie: its number is free.
Reuse ==
  /\ Members = {} /\ reaped /\ ~stranger
  /\ stranger' = TRUE
  /\ UNCHANGED <<processes, hits, control>>

-----------------------------------------------------------------------------
(* Signals to the group *)

\* kill(-pid, signal): whoever has the number gets it; nobody is ESRCH.
Signal(signal, victims) ==
  /\ alive' = alive \ (Members \intersect victims)
  /\ hits' = IF stranger THEN hits \union {signal} ELSE hits
  /\ UNCHANGED <<unborn, group, pipes, stubborn, reaped, stranger>>

\* terminateProcGroup, called as Cancel: SIGTERM now, SIGKILL later.
Terminate ==
  /\ watcher = "canceling"
  /\ Signal("TERM", Proc \ stubborn)
  /\ watcher' = "waiting" /\ timer' = "set"
  /\ UNCHANGED <<ctxDone, wait, drained>>

\* No process of the group may be signaled (EPERM): the leader, which may be, was
\* reaped.  Nothing is escalated; WaitDelay runs all the same.
TerminateFails ==
  /\ watcher = "canceling" /\ reaped
  /\ watcher' = "waiting"
  /\ UNCHANGED <<processes, number, ctxDone, wait, timer, drained>>

\* termKillGrace is over: the timer looks at waitDone, ...
\* Mutant: it does not look.
EscalateBug ==
  /\ timer = "set"
  /\ timer' = "checked"
  /\ UNCHANGED <<processes, number, ctxDone, wait, watcher, drained>>

Escalate ==
  /\ timer = "set"
  /\ timer' = IF wait = "closed" THEN "spared" ELSE "checked"
  /\ UNCHANGED <<processes, number, ctxDone, wait, watcher, drained>>

\* ... then kills.
\* Mutant: only the leader is killed.
KillBug ==
  /\ timer = "checked"
  /\ Signal("KILL", {Leader})
  /\ timer' = "fired"
  /\ UNCHANGED <<ctxDone, wait, watcher, drained>>

Kill ==
  /\ timer = "checked"
  /\ Signal("KILL", Proc)
  /\ timer' = "fired"
  /\ UNCHANGED <<ctxDone, wait, watcher, drained>>

-----------------------------------------------------------------------------
(* os/exec *)

ContextDone ==
  /\ ~ctxDone /\ ctxDone' = TRUE
  /\ UNCHANGED <<processes, number, wait, watcher, timer, drained>>

\* The watcher takes the context's end; it may do so after the leader was
\* reaped, until Wait asks for its result.
WatcherCancels ==
  /\ watcher = "armed" /\ ctxDone
  /\ watcher' = "canceling"
  /\ UNCHANGED <<processes, number, ctxDone, wait, timer, drained>>

Reap ==
  /\ wait = "process" /\ Leader \notin alive
  /\ reaped' = TRUE /\ wait' = "result"
  /\ UNCHANGED <<unborn, alive, group, pipes, stubborn, number, ctxDone, watcher, timer, drained>>

HandOver ==
  /\ wait = "result" /\ watcher \in {"armed", "waiting", "killing"}
  /\ wait' = "pipes" /\ watcher' = "gone"
  /\ UNCHANGED <<processes, number, ctxDone, timer, drained>>

\* WaitDelay is five times the grace period: when it is over the escalation is.
GraceIsOver == timer \notin {"set", "checked"}

\* WaitDelay ends while the leader still runs: it is killed, the pipes close.
ForceKill ==
  /\ watcher = "waiting" /\ GraceIsOver
  /\ alive' = alive \ {Leader} /\ watcher' = "killing" /\ drained' = TRUE
  /\ UNCHANGED <<unborn, group, pipes, stubborn, reaped, number, ctxDone, wait, timer>>

\* The output was copied to its end, or WaitDelay ended the copying.
\* Mutant: without WaitDelay.
WaitPipesBug ==
  /\ wait = "pipes"
  /\ drained \/ alive \intersect pipes = {}
  /\ wait' = "returned"
  /\ UNCHANGED <<processes, number, ctxDone, watcher, timer, drained>>

WaitPipes ==
  /\ wait = "pipes"
  /\ \/ (drained \/ alive \intersect pipes = {}) /\ UNCHANGED drained
     \/ GraceIsOver /\ drained' = TRUE
  /\ wait' = "returned"
  /\ UNCHANGED <<processes, number, ctxDone, watcher, timer>>

\* Mutant: waitDone is closed before Wait returns.
CloseWaitDoneBug ==
  /\ wait \in {"process", "returned"} /\ wait' = "closed"
  /\ UNCHANGED <<processes, number, ctxDone, watcher, timer, drained>>

CloseWaitDone ==
  /\ wait = "returned" /\ wait' = "closed"
  /\ UNCHANGED <<processes, number, ctxDone, watcher, timer, drained>>

Hukou ==
  \/ WatcherCancels \/ Terminate \/ TerminateFails \/ Escalate \/ Kill
  \/ Reap \/ HandOver \/ ForceKill \/ WaitPipes \/ CloseWaitDone

Next ==
  \/ Hukou \/ ContextDone \/ Reuse
  \/ \E p \in Proc : Exits(p) \/ \E k \in Kids : Spawn(p, k)

Spec == Init /\ [][Next]_vars

\* Goroutines run and timers fire; processes owe nothing.
FairSpec ==
  /\ Spec
  /\ WF_vars(WatcherCancels) /\ WF_vars(Terminate \/ TerminateFails) /\ WF_vars(Escalate) /\ WF_vars(Kill)
  /\ WF_vars(Reap) /\ WF_vars(HandOver) /\ WF_vars(ForceKill)
  /\ WF_vars(WaitPipes) /\ WF_vars(CloseWaitDone)
-----------------------------------------------------------------------------
(* Properties *)

\* Every variable holds a value of its type; Wait is past the leader's end when
\* it was reaped, and past the watcher when that is gone.
TypeOK ==
  /\ unborn \subseteq Kids /\ alive \subseteq Proc \ unborn
  /\ group \subseteq Proc /\ pipes \subseteq Proc /\ stubborn \subseteq Proc
  /\ reaped \in BOOLEAN /\ stranger \in BOOLEAN /\ hits \subseteq {"TERM", "KILL"}
  /\ ctxDone \in BOOLEAN /\ drained \in BOOLEAN
  /\ wait \in {"process", "result", "pipes", "returned", "closed"}
  /\ watcher \in {"armed", "canceling", "waiting", "killing", "gone"}
  /\ timer \in {"off", "set", "checked", "fired", "spared"}
  /\ reaped <=> wait # "process"
  /\ watcher = "gone" <=> wait \in {"pipes", "returned", "closed"}

\* After a command whose group was terminated, no process of the group is left
\* that could still write to the output of the next manager.
NoWriterLeft ==
  wait = "closed" /\ timer # "off" => Members \intersect pipes = {}

\* A command that came back within the grace period is never followed by
\* SIGKILL: its number may be a stranger's.
PromptReturnIsSpared == [](timer = "set" /\ wait = "closed" => [](timer # "fired"))

\* A command whose context is done comes back, and so does one whose leader
\* exited, whatever its descendants do.
Returns == ctxDone \/ Leader \notin alive ~> wait = "closed"

=============================================================================
