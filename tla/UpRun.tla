------------------------------- MODULE UpRun -------------------------------
(***************************************************************************)
(* One real run of "hukou up" (cmd/up_exec.go): the package managers of the *)
(* registry one after the other, each under its own budget and with retries *)
(* (internal/orchestrate/executor), then hukou's own upgrade batch          *)
(* (cmd/upgrade.go), then the second inventory, the snapshot and the exit   *)
(* status.  An interrupt may arrive and a budget may expire at any moment,  *)
(* between any two looks the code takes at its contexts.                    *)
(***************************************************************************)
EXTENDS Naturals, Sequences

CONSTANTS
  Externals,  \* number of external managers in the registry
  Commands,   \* [1..Externals -> number of commands]
  Retries,    \* --retry
  MaxTools    \* bound on the number of adopted tools

ASSUME UpRunAssumption ==
  /\ Externals \in Nat /\ Retries \in Nat /\ MaxTools \in Nat
  /\ Commands \in [1..Externals -> Nat \ {0}]

VARIABLES
  chosen,      \* the managers that --only, --skip and detection leave
  tools,       \* the number of targets of the internal batch
  pc,          \* where the run is
  m,           \* the manager it is at
  signal,      \* "never", or what an interrupt came upon: "work" left or none, "late"
  cause,       \* why the manager's context is done, or "live"; "none" without a manager
  attempt,     \* retries made for the manager
  exits,       \* how its commands, or the batch's tools, ended so far
  status,      \* the manager's result
  results,     \* what is reported
  trouble,     \* what other than a manager failed
  exit         \* the exit status, or "none"

choice == <<chosen, tools>>
manager == <<m, cause, attempt, exits, status>>
outcome == <<results, trouble, exit>>
vars == <<choice, pc, manager, outcome, signal>>

\* The run context is canceled.
interrupted == signal # "never"

\* The internal step is the last row of the registry.
Internal == Externals + 1
Managers == 1..Internal

Init ==
  /\ chosen \in SUBSET Managers /\ tools \in 0..MaxTools
  /\ pc = "begin" /\ m = 1
  /\ signal = "never"
  /\ cause = "none" /\ attempt = 0 /\ exits = <<>> /\ status = "none"
  /\ results = <<>> /\ trouble = {} /\ exit = "none"

Goto(s) == pc' = s

\* The run ends before it has anything to report.
Abort(t) == pc' = "end" /\ trouble' = trouble \union {t} /\ exit' = "nonzero" /\ UNCHANGED results

-----------------------------------------------------------------------------
(* Before the managers *)

\* The lock of the run, then the signal handler.
Begin ==
  /\ pc = "begin"
  /\ \/ Goto("pre") /\ UNCHANGED outcome
     \/ Abort("lock")
  /\ UNCHANGED <<choice, manager, signal>>

PreInventory ==
  /\ pc = "pre"
  /\ \/ Goto("loop") /\ UNCHANGED outcome
     \/ Abort("inventory")
  /\ UNCHANGED <<choice, manager, signal>>

-----------------------------------------------------------------------------
(* The loop over the managers *)

Skip ==
  /\ pc = "loop" /\ m \in Managers \ chosen
  /\ m' = m + 1
  /\ UNCHANGED <<choice, pc, cause, attempt, exits, status, outcome, signal>>

\* Mutant: the manager the run stopped at is not listed.
LoopCheckBug ==
  /\ pc = "loop" /\ m \in chosen
  /\ IF interrupted THEN Goto("post") ELSE Goto("start")
  /\ UNCHANGED <<choice, manager, outcome, signal>>

LoopCheck ==
  /\ pc = "loop" /\ m \in chosen
  /\ IF interrupted
     THEN Goto("post") /\ results' = Append(results, [manager |-> m, status |-> "canceled"])
     ELSE Goto("start") /\ UNCHANGED results
  /\ UNCHANGED <<choice, manager, trouble, exit, signal>>

LoopEnd ==
  /\ pc = "loop" /\ m > Internal
  /\ Goto("post")
  /\ UNCHANGED <<choice, manager, outcome, signal>>

\* The manager's context: canceled with the run's, dead at the deadline.
NewContext ==
  /\ cause' = IF interrupted THEN "canceled" ELSE "live"
  /\ attempt' = 0 /\ exits' = <<>> /\ status' = "none"

Record ==
  /\ pc = "record"
  /\ results' = Append(results, [manager |-> m, status |-> status])
  /\ m' = m + 1 /\ cause' = "none" /\ attempt' = 0 /\ exits' = <<>> /\ status' = "none"
  /\ Goto("loop")
  /\ UNCHANGED <<choice, trouble, exit, signal>>

-----------------------------------------------------------------------------
(* An external manager: RunManager and runOne *)

StartManager ==
  /\ pc = "start" /\ m # Internal
  /\ NewContext /\ Goto("command")
  /\ UNCHANGED <<choice, m, outcome, signal>>

Decided(s) == status' = s /\ Goto("decide")

\* Before each command the context is looked at; after the last one it is not.
NextCommand ==
  /\ pc = "command"
  /\ \/ Len(exits) = Commands[m] /\ Decided("ok")
     \/ Len(exits) < Commands[m] /\ cause # "live" /\ Goto("classify") /\ UNCHANGED status
     \/ Len(exits) < Commands[m] /\ cause = "live" /\ Goto("launch") /\ UNCHANGED status
  /\ UNCHANGED <<choice, m, cause, attempt, exits, outcome, signal>>

\* Start looks at the context again, and may fail.
\* Mutant: it does not look.
LaunchBug ==
  /\ pc = "launch"
  /\ \/ Goto("running") /\ UNCHANGED exits
     \/ Goto("classify") /\ exits' = Append(exits, "failed")
  /\ UNCHANGED <<choice, m, cause, attempt, status, outcome, signal>>

Launch ==
  /\ pc = "launch"
  /\ \/ cause = "live" /\ Goto("running") /\ UNCHANGED exits
     \/ cause = "live" /\ Goto("classify") /\ exits' = Append(exits, "failed")
     \/ cause # "live" /\ Goto("classify") /\ UNCHANGED exits
  /\ UNCHANGED <<choice, m, cause, attempt, status, outcome, signal>>

\* The process exits, of itself or on SIGTERM, with either status.
Exit(code) ==
  /\ pc = "running"
  /\ exits' = Append(exits, code) /\ Goto("waited")
  /\ UNCHANGED <<choice, m, cause, attempt, status, outcome, signal>>

\* A done context ends the process group, and Wait with it.
\* Mutant: only an interrupt does, not the deadline.
KilledBug ==
  /\ cause = "canceled"
  /\ Exit("failed")

Killed ==
  /\ cause \in {"canceled", "deadline"}
  /\ Exit("failed")

\* A done context counts more than the exit status.
Waited ==
  /\ pc = "waited"
  /\ IF cause = "live" /\ exits[Len(exits)] = "ok" THEN Goto("command") ELSE Goto("classify")
  /\ UNCHANGED <<choice, manager, outcome, signal>>

\* classifyCtx, looked up after a command failed.
\* Mutant: the deadline is not told from an interrupt.
ClassifyBug ==
  /\ pc = "classify"
  /\ Decided(IF cause = "live" THEN "failed" ELSE "canceled")
  /\ UNCHANGED <<choice, m, cause, attempt, exits, outcome, signal>>

Classify ==
  /\ pc = "classify"
  /\ \/ cause = "live" /\ Decided("failed")
     \/ cause = "canceled" /\ Decided("canceled")
     \/ cause = "deadline" /\ Decided("timeout")
  /\ UNCHANGED <<choice, m, cause, attempt, exits, outcome, signal>>

\* A retry starts the commands again, not the clock.
\* Mutants: one retry less; one more.
RetryBug ==
  /\ pc = "decide"
  /\ IF status \notin {"ok", "timeout"} /\ cause = "live" /\ attempt + 1 < Retries
     THEN attempt' = attempt + 1 /\ exits' = <<>> /\ status' = "none" /\ Goto("command")
     ELSE Goto("record") /\ UNCHANGED <<attempt, exits, status>>
  /\ UNCHANGED <<choice, m, cause, outcome, signal>>

RetryMoreBug ==
  /\ pc = "decide"
  /\ IF status \notin {"ok", "timeout"} /\ cause = "live" /\ attempt <= Retries
     THEN attempt' = attempt + 1 /\ exits' = <<>> /\ status' = "none" /\ Goto("command")
     ELSE Goto("record") /\ UNCHANGED <<attempt, exits, status>>
  /\ UNCHANGED <<choice, m, cause, outcome, signal>>

Retry ==
  /\ pc = "decide"
  /\ IF status \notin {"ok", "timeout"} /\ cause = "live" /\ attempt < Retries
     THEN attempt' = attempt + 1 /\ exits' = <<>> /\ status' = "none" /\ Goto("command")
     ELSE Goto("record") /\ UNCHANGED <<attempt, exits, status>>
  /\ UNCHANGED <<choice, m, cause, outcome, signal>>

-----------------------------------------------------------------------------
(* The internal step: doUpgradeCtx under runInternalHukou *)

\* The batch locks the state, recovers its journal and loads the manifest, or
\* fails doing so.
StartStep ==
  /\ pc = "start" /\ m = Internal
  /\ cause' = IF interrupted THEN "canceled" ELSE "live"
  /\ attempt' = 0 /\ status' = "none"
  /\ \/ exits' = <<>> /\ Goto("tool")
     \/ exits' = <<"refused">> /\ Goto("returned")
  /\ UNCHANGED <<choice, m, outcome, signal>>

\* The context is looked at between tools only.
\* Mutant: the tools that are left are not reported.
NextToolBug ==
  /\ pc = "tool"
  /\ IF Len(exits) = tools \/ cause # "live" THEN Goto("returned") ELSE Goto("upgrading")
  /\ UNCHANGED <<choice, manager, outcome, signal>>

NextTool ==
  /\ pc = "tool"
  /\ \/ Len(exits) = tools /\ Goto("returned") /\ UNCHANGED exits
     \/ Len(exits) < tools /\ cause = "live" /\ Goto("upgrading") /\ UNCHANGED exits
     \/ Len(exits) < tools /\ cause # "live" /\ exits' = Append(exits, "skipped") /\ UNCHANGED pc
  /\ UNCHANGED <<choice, m, cause, attempt, status, outcome, signal>>

\* A failure that leaves the journal in doubt ends the batch.
UpgradeTool(end) ==
  /\ pc = "upgrading"
  /\ exits' = Append(exits, end)
  /\ Goto(IF end = "unresolved" THEN "returned" ELSE "tool")
  /\ UNCHANGED <<choice, m, cause, attempt, status, outcome, signal>>

StepFailed == \E i \in DOMAIN exits : exits[i] \in {"failed", "unresolved", "refused"}

\* runInternalHukou looks at the step's context, ...
StepReturns ==
  /\ pc = "returned"
  /\ status' = IF StepFailed THEN "failed" ELSE IF cause # "live" THEN "canceled" ELSE "ok"
  /\ Goto("reclassify")
  /\ UNCHANGED <<choice, m, cause, attempt, exits, outcome, signal>>

\* ... and doUpExecute at the run's.
\* Mutant: it does not, and an interrupt after the first look is lost.
ReclassifyBug ==
  /\ pc = "reclassify"
  /\ Goto("record")
  /\ UNCHANGED <<choice, manager, outcome, signal>>

Reclassify ==
  /\ pc = "reclassify"
  /\ status' = IF interrupted /\ status = "ok" THEN "canceled" ELSE status
  /\ Goto("record")
  /\ UNCHANGED <<choice, m, cause, attempt, exits, outcome, signal>>

-----------------------------------------------------------------------------
(* After the managers *)

PostInventory ==
  /\ pc = "post"
  /\ \/ Goto("persist") /\ UNCHANGED outcome
     \/ Abort("inventory")
  /\ UNCHANGED <<choice, manager, signal>>

Persist ==
  /\ pc = "persist"
  /\ Goto("report") /\ trouble' \in {{}, {"snapshot"}}
  /\ UNCHANGED <<choice, manager, results, exit, signal>>

AllOK == \A i \in DOMAIN results : results[i].status = "ok"

\* The report, and aggregateExit.
\* Mutant: only failures count.
ReportBug ==
  /\ pc = "report"
  /\ Goto("end")
  /\ exit' = IF trouble # {} \/ \E i \in DOMAIN results : results[i].status \in {"failed", "timeout"}
             THEN "nonzero" ELSE "zero"
  /\ UNCHANGED <<choice, manager, results, trouble, signal>>

Report ==
  /\ pc = "report"
  /\ \/ /\ Goto("end") /\ UNCHANGED <<results, trouble>>
        /\ exit' = IF trouble # {} \/ ~AllOK THEN "nonzero" ELSE "zero"
     \/ Abort("report")
  /\ UNCHANGED <<choice, manager, signal>>

-----------------------------------------------------------------------------
(* The environment *)

\* The manager at m has nothing left to do that counts.
WorkDone ==
  pc \in {"decide", "record"} \/ (pc = "command" /\ Len(exits) = Commands[m])

WorkLeft == \E x \in chosen : x > m \/ (x = m /\ ~WorkDone)

\* SIGINT or SIGTERM; the first one cancels the run context, and later ones
\* change nothing.
Interrupt ==
  /\ pc \notin {"begin", "end"} /\ ~interrupted
  /\ signal' = IF WorkLeft THEN "work" ELSE "late"
  /\ cause' = IF cause = "live" THEN "canceled" ELSE cause
  /\ UNCHANGED <<choice, pc, m, attempt, exits, status, outcome>>

\* The manager's budget runs out.
Expire ==
  /\ cause = "live"
  /\ cause' = "deadline"
  /\ UNCHANGED <<choice, pc, m, attempt, exits, status, outcome, signal>>

\* What the run does of itself; an upgrade of a tool ends, its requests have
\* timeouts of their own.
Hukou ==
  \/ Begin \/ PreInventory \/ Skip \/ LoopCheck \/ LoopEnd \/ Record
  \/ StartManager \/ NextCommand \/ Launch \/ Waited \/ Classify \/ Retry
  \/ StartStep \/ NextTool \/ StepReturns \/ Reclassify
  \/ \E end \in {"ok", "failed", "unresolved"} : UpgradeTool(end)
  \/ PostInventory \/ Persist \/ Report

Next ==
  \/ Hukou \/ Interrupt \/ Expire \/ Killed
  \/ \E code \in {"ok", "failed"} : Exit(code)

Spec == Init /\ [][Next]_vars

\* The process runs, the clock advances, and the kernel delivers the kill.
\* A manager's command owes nothing: it may hang.
FairSpec == Spec /\ WF_vars(Hukou) /\ WF_vars(Expire) /\ WF_vars(Killed)
-----------------------------------------------------------------------------
(* Properties *)

Statuses == {"ok", "failed", "timeout", "canceled"}
Ends == {"ok", "failed", "unresolved", "refused", "skipped"}
Places ==
  {"begin", "pre", "loop", "start", "command", "launch", "running", "waited", "classify",
   "decide", "record", "tool", "upgrading", "returned", "reclassify", "post", "persist",
   "report", "end"}

\* Every variable holds a value of its type.
TypeOK ==
  /\ chosen \subseteq Managers /\ tools \in 0..MaxTools
  /\ pc \in Places /\ m \in 1..(Internal + 1)
  /\ signal \in {"never", "work", "late"}
  /\ cause \in {"none", "live", "canceled", "deadline"}
  /\ attempt \in 0..Retries /\ exits \in Seq(Ends)
  /\ status \in Statuses \union {"none"}
  /\ results \in Seq([manager : Managers, status : Statuses])
  /\ trouble \subseteq {"lock", "inventory", "snapshot", "report"}
  /\ exit \in {"none", "zero", "nonzero"}

All(end) == \A i \in DOMAIN exits : exits[i] = end

\* A manager's result says what happened to it: "ok" that every command exited
\* zero or every tool was dealt with, "failed" that one did not and had all its
\* retries, unless its context ended first, "timeout" that its budget ran out, "canceled" that the run was interrupted; of the internal
\* step also that its budget ran out.
ResultIsTrue ==
  pc = "record" =>
    CASE status = "ok"       -> All("ok") /\ Len(exits) = (IF m = Internal THEN tools ELSE Commands[m])
      [] status = "failed"   -> ~All("ok") /\ (m # Internal /\ cause = "live" => attempt = Retries)
      [] status = "timeout"  -> m # Internal /\ cause = "deadline"
      [] status = "canceled" -> interrupted \/ (m = Internal /\ cause = "deadline")

\* Every tool of the batch is upgraded, failed or reported as skipped, except
\* behind a journal in doubt, where nothing more may be touched.
ToolsAccountedFor ==
  pc = "reclassify" =>
    \/ Len(exits) = tools
    \/ Len(exits) > 0 /\ exits[Len(exits)] \in {"unresolved", "refused"}

\* Nothing starts, neither a command nor a retry nor the upgrade of a tool,
\* once the manager's context is done.
DoneContextStartsNothing ==
  [][cause # "live" /\ pc' \in {"running", "upgrading"} => pc' = pc]_vars

\* The report lists the managers in order and leaves none out; only behind an
\* interrupt may later ones be missing, and then the last one listed is the
\* one that was canceled.
Listed == {results[i].manager : i \in DOMAIN results}
ReportIsComplete ==
  pc \in {"post", "persist", "report"} =>
    /\ \A i, j \in DOMAIN results : i < j => results[i].manager < results[j].manager
    /\ \/ Listed = chosen
       \/ /\ interrupted /\ results # <<>>
          /\ results[Len(results)].status = "canceled"
          /\ Listed = {x \in chosen : x <= results[Len(results)].manager}

\* An interrupt that arrived while a command or a tool was left to do makes
\* the exit status non-zero, whatever the run was looking at just then.
InterruptCounts == pc = "end" /\ signal = "work" => exit = "nonzero"

\* Exit status zero: every manager there is was run, all were ok and the
\* snapshot was kept.
ZeroMeansDone ==
  exit = "zero" => Listed = chosen /\ AllOK /\ trouble = {}

\* A run ends, even if a manager's command never does.
Terminates == <>(pc = "end")
=============================================================================
