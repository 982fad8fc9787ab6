---------------------------- MODULE UpRunProofs ----------------------------
(***************************************************************************)
(* Proofs about UpRun, for any registry, any number of retries and tools:   *)
(* a manager's result is true, the report is complete, no interrupt that    *)
(* cut work short is lost, and exit status zero means that all was done.    *)
(***************************************************************************)
EXTENDS UpRun, TLAPS

External == {"command", "launch", "running", "waited", "classify", "decide"}
Step == {"tool", "upgrading", "returned", "reclassify"}
After == {"post", "persist", "report"}

\* A manager is being run.
Busy == External \union Step \union {"start", "record"}

Item == [manager : Managers, status : Statuses]

\* A context exists while a manager is run, and knows of the interrupt.
Context ==
  /\ cause # "none" <=> pc \in External \union Step \union {"record"}
  /\ cause = "canceled" => interrupted
  /\ interrupted => cause # "live"

\* Where the loop is.
Place ==
  /\ pc \in {"begin", "pre"} => m = 1 /\ results = <<>>
  /\ pc \in External \union Step \union {"start", "record"} => m \in chosen
  /\ pc \in External => m # Internal
  /\ pc \in Step => m = Internal
  /\ pc \in After /\ ~interrupted => m = Internal + 1

\* What the commands of an external manager came to.
Progress ==
  /\ pc = "command" /\ m # Internal => All("ok") /\ Len(exits) <= Commands[m]
  /\ pc \in {"launch", "running"} => All("ok") /\ Len(exits) < Commands[m]
  /\ pc = "waited" =>
       /\ Len(exits) \in 1..Commands[m]
       /\ \A i \in DOMAIN exits : i < Len(exits) => exits[i] = "ok"
  /\ pc = "classify" => ~All("ok") \/ cause # "live"

\* What the tools of the batch came to.
Batch ==
  /\ pc = "tool" => Len(exits) <= tools
  /\ pc = "upgrading" => Len(exits) < tools
  /\ pc \in {"returned", "reclassify"} =>
       \/ Len(exits) = tools
       \/ Len(exits) > 0 /\ exits[Len(exits)] \in {"unresolved", "refused"}
  /\ pc \in Step => \A i \in DOMAIN exits : exits[i] = "skipped" => cause # "live"

\* The result of the manager, from the moment it is known.
Result ==
  pc \in {"decide", "reclassify", "record"} =>
    /\ status \in Statuses
    /\ status = "ok" => All("ok") /\ Len(exits) = (IF m = Internal THEN tools ELSE Commands[m])
    /\ status = "failed" => ~All("ok")
    /\ status = "timeout" => m # Internal /\ cause = "deadline"
    /\ status = "canceled" => interrupted \/ (m = Internal /\ cause = "deadline")
    /\ pc = "record" /\ m # Internal /\ status = "failed" /\ cause = "live" => attempt = Retries

\* The report so far.
Ordered == \A i, j \in DOMAIN results : i < j => results[i].manager < results[j].manager
Complete == pc \notin After \union {"end"} => Listed = {x \in chosen : x < m}
Stopped ==
  \/ Listed = chosen
  \/ /\ interrupted /\ results # <<>>
     /\ results[Len(results)].status = "canceled"
     /\ Listed = {x \in chosen : x <= results[Len(results)].manager}
Reported == Ordered /\ Complete /\ (pc \in After => Stopped)

\* An interrupt that cut work short shows, or is about to.
Doomed ==
  \/ ~AllOK
  \/ pc \in {"pre", "loop"} /\ \E x \in chosen : x >= m
  \/ pc = "start"
  \/ pc \in External \union Step \union {"record"} /\ \E x \in chosen : x > m
  \/ pc = "command" /\ Len(exits) < Commands[m]
  \/ pc \in {"launch", "running", "waited", "classify"} \union Step
  \/ pc \in {"decide", "record"} /\ status # "ok"
Cut == signal = "work" => (IF pc = "end" THEN exit = "nonzero" ELSE Doomed)

\* The exit status is the last thing.
Ended ==
  /\ pc = "end" <=> exit # "none"
  /\ ZeroMeansDone

IInv ==
  /\ TypeOK /\ Context /\ Place /\ Progress /\ Batch /\ Result /\ Reported /\ Cut /\ Ended

-----------------------------------------------------------------------------
(* Sequences *)

\* What one more result does to the report.
LEMMA OneMoreResult ==
  ASSUME results \in Seq(Item), NEW r \in Item, results' = Append(results, r)
  PROVE  /\ results' \in Seq(Item) /\ results' # <<>>
         /\ results'[Len(results')] = r
         /\ Listed' = Listed \union {r.manager}
         /\ AllOK' <=> AllOK /\ r.status = "ok"
         /\ Ordered /\ (\A x \in Listed : x < r.manager) => Ordered'
PROOF
<1>1. /\ results' \in Seq(Item) /\ results' # <<>>
      /\ Len(results') = Len(results) + 1 /\ Len(results) \in Nat
      /\ DOMAIN results = 1..Len(results) /\ DOMAIN results' = 1..(Len(results) + 1)
      /\ results'[Len(results) + 1] = r
      /\ \A i \in DOMAIN results : results'[i] = results[i]
  OBVIOUS
<1>2. Listed' = Listed \union {r.manager}
  BY <1>1 DEF Listed
<1>3. AllOK' <=> AllOK /\ r.status = "ok"
  BY <1>1 DEF AllOK
<1>4. ASSUME Ordered, \A x \in Listed : x < r.manager PROVE Ordered'
  BY <1>1, <1>4 DEF Ordered, Listed
<1> QED BY <1>1, <1>2, <1>3, <1>4

\* What one more exit does to the attempt.
LEMMA OneMoreExit ==
  ASSUME exits \in Seq(Ends), NEW e \in Ends, exits' = Append(exits, e)
  PROVE  /\ exits' \in Seq(Ends) /\ Len(exits') = Len(exits) + 1 /\ Len(exits) \in Nat
         /\ exits'[Len(exits')] = e
         /\ DOMAIN exits = 1..Len(exits) /\ DOMAIN exits' = 1..(Len(exits) + 1)
         /\ \A i \in DOMAIN exits : exits'[i] = exits[i]
         /\ All("ok")' <=> All("ok") /\ e = "ok"
PROOF
<1>1. /\ exits' \in Seq(Ends) /\ Len(exits') = Len(exits) + 1 /\ Len(exits) \in Nat
      /\ exits'[Len(exits) + 1] = e
      /\ DOMAIN exits = 1..Len(exits) /\ DOMAIN exits' = 1..(Len(exits) + 1)
      /\ \A i \in DOMAIN exits : exits'[i] = exits[i]
  OBVIOUS
<1>2. All("ok")' <=> All("ok") /\ e = "ok"
  BY <1>1 DEF All
<1> QED BY <1>1, <1>2

-----------------------------------------------------------------------------
(* The steps *)

LEMMA Initially == Init => IInv
PROOF
<1> SUFFICES ASSUME Init PROVE IInv
  OBVIOUS
<1>1. Externals \in Nat /\ Internal \in Nat /\ Internal = Externals + 1 /\ Retries \in Nat
  BY UpRunAssumption DEF Internal
<1>2. results \in Seq(Item) /\ exits \in Seq(Ends)
  BY DEF Init
<1>3. TypeOK
  BY <1>1, <1>2 DEF Init, TypeOK, Places, Statuses, Managers, Item
<1>4. Context /\ Place /\ Progress /\ Batch /\ Result
  BY DEF Init, Context, Place, Progress, Batch, Result, External, Step, After
<1>5. {x \in chosen : x < m} = {}
  <2> SUFFICES ASSUME NEW x \in chosen, x < m PROVE FALSE
    OBVIOUS
  <2>1. m = 1 /\ x \in 1..Internal
    BY DEF Init, Managers
  <2> QED BY <1>1, <2>1
<1>6. Listed = {}
  BY DEF Init, Listed
<1>7. Reported /\ Cut /\ Ended
  BY <1>5, <1>6 DEF Init, Reported, Ordered, Complete, Cut, Ended, ZeroMeansDone, After
<1> QED BY <1>3, <1>4, <1>7 DEF IInv

-----------------------------------------------------------------------------
(* The steps of the run *)

LEMMA EmptySeq == \A S : <<>> \in Seq(S)
OBVIOUS

LEMMA Refused ==
  /\ <<"refused">> \in Seq(Ends) /\ Len(<<"refused">>) = 1
  /\ <<"refused">>[Len(<<"refused">>)] = "refused"
  /\ DOMAIN <<"refused">> = {1} /\ <<"refused">>[1] = "refused"
BY DEF Ends

\* The registry and where the run is in it.
LEMMA Registry ==
  ASSUME IInv
  PROVE  /\ Externals \in Nat /\ Internal = Externals + 1 /\ Managers = 1..Internal
         /\ m \in Nat /\ tools \in Nat /\ Retries \in Nat /\ attempt \in Nat
         /\ Len(exits) \in Nat /\ DOMAIN exits = 1..Len(exits)
         /\ chosen \subseteq Managers
         /\ pc \in External => m \in 1..Externals /\ Commands[m] \in Nat \ {0}
         /\ m \in Managers /\ m # Internal => Commands[m] \in Nat \ {0}
PROOF
<1>1. Externals \in Nat /\ Internal = Externals + 1 /\ Managers = 1..Internal /\ Retries \in Nat
      /\ MaxTools \in Nat /\ Commands \in [1..Externals -> Nat \ {0}]
  BY UpRunAssumption DEF Internal, Managers
<1>2. m \in 1..(Internal + 1) /\ tools \in 0..MaxTools /\ attempt \in 0..Retries
      /\ exits \in Seq(Ends) /\ chosen \subseteq Managers
  BY DEF IInv, TypeOK
<1>3. Len(exits) \in Nat /\ DOMAIN exits = 1..Len(exits)
  BY <1>2
<1>4. m \in Nat /\ tools \in Nat /\ attempt \in Nat
  BY <1>1, <1>2
<1>5. m \in Managers /\ m # Internal => m \in 1..Externals
  BY <1>1, <1>4
<1>6. pc \in External => m \in Managers /\ m # Internal
  BY <1>2 DEF IInv, Place
<1> QED BY <1>1, <1>2, <1>3, <1>4, <1>5, <1>6

\* A step that keeps the report and its place in the loop.
LEMMA SameReport ==
  ASSUME IInv, UNCHANGED <<chosen, m, outcome, signal>>,
         pc \notin After \union {"end"}, pc' \notin After \union {"end"}
  PROVE  Reported' /\ Ended' /\ (AllOK' <=> AllOK)
PROOF
<1>1. results' = results /\ trouble' = trouble /\ exit' = exit
  BY DEF outcome
<1>2. Listed' = Listed /\ (AllOK' <=> AllOK) /\ (Ordered' <=> Ordered)
  BY <1>1 DEF Listed, AllOK, Ordered
<1>3. Complete'
  BY <1>2 DEF IInv, Reported, Complete
<1>4. Reported'
  BY <1>2, <1>3 DEF IInv, Reported
<1>5. Ended'
  BY <1>1, <1>2 DEF IInv, Ended, ZeroMeansDone
<1> QED BY <1>2, <1>4, <1>5

LEMMA SameExits ==
  ASSUME UNCHANGED exits
  PROVE  All("ok")' <=> All("ok")
BY DEF All

\* The commands of an external manager, as long as none has ended.
LEMMA CommandStep ==
  ASSUME IInv, NextCommand
  PROVE  IInv'
PROOF
<1>1. UNCHANGED <<chosen, tools, m, outcome, signal>> /\ (interrupted' <=> interrupted)
  BY DEF NextCommand, Goto, Decided, manager, choice, interrupted
<1>2. TypeOK'
  BY <1>1, Registry, EmptySeq DEF NextCommand, Goto, Decided, manager, choice, IInv,
     TypeOK, Places, Ends, Statuses, outcome
<1>3. pc \in Busy /\ pc' \in Busy
  BY DEF NextCommand, Goto, Decided, manager, choice, Busy, External, Step
<1>4. Context' /\ Place'
  BY <1>1, <1>3, Registry DEF NextCommand, Goto, Decided, manager, choice, IInv, Context,
     Place, External, Step, After
<1>5. Progress' /\ Batch'
  BY <1>1, Registry DEF NextCommand, Goto, Decided, manager, choice, All, IInv, Place,
     Progress, Batch, External, Step
<1>6. Result'
  BY <1>1, Registry DEF NextCommand, Goto, Decided, manager, choice, All, IInv, Context,
     Place, Progress, Batch, Result, Statuses, External, Step
<1>7. Reported' /\ Ended' /\ (AllOK' <=> AllOK)
  BY <1>1, <1>3, SameReport DEF Busy, External, Step, After
<1>8. Cut'
  BY <1>1, <1>7, Registry DEF NextCommand, Goto, Decided, manager, choice, All, IInv,
     Context, Progress, Result, Cut, Doomed, interrupted, External, Step, Statuses
<1> QED BY <1>1, <1>2, <1>3, <1>4, <1>5, <1>6, <1>7, <1>8 DEF IInv

\* What becomes of a command that ended.
LEMMA WaitedStep ==
  ASSUME IInv, Waited
  PROVE  IInv'
PROOF
<1>1. UNCHANGED <<chosen, tools, m, outcome, signal>> /\ (interrupted' <=> interrupted)
  BY DEF Waited, Goto, manager, choice, interrupted
<1>2. TypeOK'
  BY <1>1, Registry, EmptySeq DEF Waited, Goto, manager, choice, IInv, TypeOK, Places,
     Ends, Statuses, outcome
<1>3. pc \in Busy /\ pc' \in Busy
  BY DEF Waited, Goto, manager, choice, Busy, External, Step
<1>4. Context' /\ Place'
  BY <1>1, <1>3, Registry DEF Waited, Goto, manager, choice, IInv, Context, Place,
     External, Step, After
<1>5. Progress' /\ Batch'
  BY <1>1, Registry DEF Waited, Goto, manager, choice, All, IInv, Place, Progress, Batch,
     External, Step
<1>6. Result'
  BY <1>1, Registry DEF Waited, Goto, manager, choice, All, IInv, Context, Place, Progress,
     Batch, Result, Statuses, External, Step
<1>7. Reported' /\ Ended' /\ (AllOK' <=> AllOK)
  BY <1>1, <1>3, SameReport DEF Busy, External, Step, After
<1>8. Cut'
  BY <1>1, <1>7, Registry DEF Waited, Goto, manager, choice, All, IInv, Context, Progress,
     Result, Cut, Doomed, interrupted, External, Step, Statuses
<1> QED BY <1>1, <1>2, <1>3, <1>4, <1>5, <1>6, <1>7, <1>8 DEF IInv

\* classifyCtx.
LEMMA ClassifyStep ==
  ASSUME IInv, Classify
  PROVE  IInv'
PROOF
<1>1. UNCHANGED <<chosen, tools, m, outcome, signal>> /\ (interrupted' <=> interrupted)
  BY DEF Classify, Goto, Decided, manager, choice, interrupted
<1>2. TypeOK'
  BY <1>1, Registry, EmptySeq DEF Classify, Goto, Decided, manager, choice, IInv, TypeOK,
     Places, Ends, Statuses, outcome
<1>3. pc \in Busy /\ pc' \in Busy
  BY DEF Classify, Goto, Decided, manager, choice, Busy, External, Step
<1>4. Context' /\ Place'
  BY <1>1, <1>3, Registry DEF Classify, Goto, Decided, manager, choice, IInv, Context,
     Place, External, Step, After
<1>5. Progress' /\ Batch'
  BY <1>1, Registry DEF Classify, Goto, Decided, manager, choice, All, IInv, Place,
     Progress, Batch, External, Step
<1>6. Result'
  BY <1>1, Registry DEF Classify, Goto, Decided, manager, choice, All, IInv, Context,
     Place, Progress, Batch, Result, Statuses, External, Step
<1>7. Reported' /\ Ended' /\ (AllOK' <=> AllOK)
  BY <1>1, <1>3, SameReport DEF Busy, External, Step, After
<1>8. Cut'
  BY <1>1, <1>7, Registry DEF Classify, Goto, Decided, manager, choice, All, IInv, Context,
     Progress, Result, Cut, Doomed, interrupted, External, Step, Statuses
<1> QED BY <1>1, <1>2, <1>3, <1>4, <1>5, <1>6, <1>7, <1>8 DEF IInv

\* runOne's loop.
LEMMA RetryStep ==
  ASSUME IInv, Retry
  PROVE  IInv'
PROOF
<1>1. UNCHANGED <<chosen, tools, m, outcome, signal>> /\ (interrupted' <=> interrupted)
  BY DEF Retry, Goto, manager, choice, interrupted
<1>2. TypeOK'
  <2>1. exits' \in Seq(Ends)
    BY EmptySeq DEF Retry, Goto, manager, choice, IInv, TypeOK
  <2>3. attempt' \in 0..Retries
    <3>1. attempt' = attempt \/ (attempt < Retries /\ attempt' = attempt + 1)
      BY DEF Retry, Goto, manager, choice
    <3> QED BY <3>1, Registry DEF IInv, TypeOK
  <2>2. status' \in Statuses \union {"none"} /\ pc' \in Places
    BY DEF Retry, Goto, manager, choice, IInv, TypeOK, Places
  <2> QED BY <1>1, <2>1, <2>2, <2>3 DEF Retry, Goto, manager, choice, IInv, TypeOK, outcome
<1>3. pc \in Busy /\ pc' \in Busy
  BY DEF Retry, Goto, manager, choice, Busy, External, Step
<1>4. Context' /\ Place'
  BY <1>1, <1>3, Registry DEF Retry, Goto, manager, choice, IInv, Context, Place, External,
     Step, After
<1>5. Progress' /\ Batch'
  BY <1>1, Registry DEF Retry, Goto, manager, choice, All, IInv, Place, Progress, Batch,
     External, Step
<1>6. Result'
  <2>1. attempt < Retries \/ attempt = Retries
    BY Registry DEF IInv, TypeOK
  <2>2. CASE pc' = "command"
    BY <2>2 DEF Result
  <2>3. CASE pc' # "command"
    <3>1. UNCHANGED <<m, cause, exits, status, attempt, tools>> /\ pc = "decide" /\ pc' = "record"
      BY <1>1, <2>3 DEF Retry, Goto, manager, choice
    <3>2. status \notin {"ok", "timeout"} /\ cause = "live" => attempt = Retries
      BY <2>1, <2>3 DEF Retry, Goto
    <3>3. All("ok")' <=> All("ok")
      BY <3>1, SameExits
    <3> QED BY <1>1, <3>1, <3>2, <3>3 DEF IInv, Result
  <2> QED BY <2>2, <2>3
<1>7. Reported' /\ Ended' /\ (AllOK' <=> AllOK)
  BY <1>1, <1>3, SameReport DEF Busy, External, Step, After
<1>8. Cut'
  BY <1>1, <1>7, Registry DEF Retry, Goto, manager, choice, All, IInv, Context, Progress,
     Result, Cut, Doomed, interrupted, External, Step, Statuses
<1> QED BY <1>1, <1>2, <1>3, <1>4, <1>5, <1>6, <1>7, <1>8 DEF IInv

\* The look at the run's context.
LEMMA ReclassifyStep ==
  ASSUME IInv, Reclassify
  PROVE  IInv'
PROOF
<1>1. UNCHANGED <<chosen, tools, m, outcome, signal>> /\ (interrupted' <=> interrupted)
  BY DEF Reclassify, Goto, manager, choice, interrupted
<1>2. TypeOK'
  BY <1>1, Registry, EmptySeq DEF Reclassify, Goto, manager, choice, IInv, TypeOK, Places,
     Ends, Statuses, outcome
<1>3. pc \in Busy /\ pc' \in Busy
  BY DEF Reclassify, Goto, manager, choice, Busy, External, Step
<1>4. Context' /\ Place'
  BY <1>1, <1>3, Registry DEF Reclassify, Goto, manager, choice, IInv, Context, Place,
     External, Step, After
<1>5. Progress' /\ Batch'
  BY <1>1, Registry DEF Reclassify, Goto, manager, choice, All, IInv, Place, Progress,
     Batch, External, Step
<1>6. Result'
  BY <1>1, Registry DEF Reclassify, Goto, manager, choice, All, IInv, Context, Place,
     Progress, Batch, Result, Statuses, External, Step
<1>7. Reported' /\ Ended' /\ (AllOK' <=> AllOK)
  BY <1>1, <1>3, SameReport DEF Busy, External, Step, After
<1>8. Cut'
  BY <1>1, <1>7, Registry DEF Reclassify, Goto, manager, choice, All, IInv, Context,
     Progress, Result, Cut, Doomed, interrupted, External, Step, Statuses
<1> QED BY <1>1, <1>2, <1>3, <1>4, <1>5, <1>6, <1>7, <1>8 DEF IInv

\* An external manager gets its context.
LEMMA StartManagerStep ==
  ASSUME IInv, StartManager
  PROVE  IInv'
PROOF
<1>1. UNCHANGED <<chosen, tools, m, outcome, signal>> /\ (interrupted' <=> interrupted)
  BY DEF StartManager, Goto, manager, choice, NewContext, interrupted
<1>2. TypeOK'
  BY <1>1, Registry, EmptySeq DEF StartManager, Goto, manager, choice, NewContext, IInv,
     TypeOK, Places, Ends, Statuses, outcome
<1>3. pc \in Busy /\ pc' \in Busy
  BY DEF StartManager, Goto, manager, choice, NewContext, Busy, External, Step
<1>4. Context' /\ Place'
  BY <1>1, <1>3, Registry DEF StartManager, Goto, manager, choice, NewContext, IInv,
     Context, Place, External, Step, After
<1>5. Progress' /\ Batch'
  BY <1>1, Registry DEF StartManager, Goto, manager, choice, NewContext, All, IInv, Place,
     Progress, Batch, External, Step
<1>6. Result'
  BY <1>1, Registry DEF StartManager, Goto, manager, choice, NewContext, All, IInv,
     Context, Place, Progress, Batch, Result, Statuses, External, Step
<1>7. Reported' /\ Ended' /\ (AllOK' <=> AllOK)
  BY <1>1, <1>3, SameReport DEF Busy, External, Step, After
<1>8. Cut'
  BY <1>1, <1>7, Registry DEF StartManager, Goto, manager, choice, NewContext, All, IInv,
     Place, Context, Progress, Result, Cut, Doomed, interrupted, External, Step, Statuses
<1> QED BY <1>1, <1>2, <1>3, <1>4, <1>5, <1>6, <1>7, <1>8 DEF IInv

\* Start.
LEMMA LaunchStep ==
  ASSUME IInv, Launch
  PROVE  IInv'
PROOF
<1>1. UNCHANGED <<chosen, tools, m, outcome, signal>> /\ (interrupted' <=> interrupted)
  BY DEF Launch, Goto, manager, choice, interrupted
<1>2. pc \in Busy /\ pc' \in Busy
  BY DEF Launch, Goto, manager, choice, Busy, External, Step
<1>3. exits \in Seq(Ends)
  BY DEF IInv, TypeOK
<1>4. exits' = exits \/ exits' = Append(exits, "failed")
  BY DEF Launch, Goto, manager, choice
<1>5. TypeOK'
  <2>1. exits' \in Seq(Ends)
    BY <1>3, <1>4 DEF Ends
  <2> QED BY <1>1, <2>1 DEF Launch, Goto, manager, choice, IInv, TypeOK, Places, outcome
<1>6. Context' /\ Place'
  BY <1>1, <1>2, Registry DEF Launch, Goto, manager, choice, IInv, Context, Place,
     External, Step, After
<1>7. Progress' /\ Batch'
  BY <1>1, <1>3, <1>4, Registry DEF Launch, Goto, manager, choice, All, IInv, Context,
     Place, Progress, Batch, External, Step
<1>8. Result'
  BY <1>1, Registry DEF Launch, Goto, manager, choice, Result
<1>9. Reported' /\ Ended' /\ (AllOK' <=> AllOK)
  BY <1>1, <1>2, SameReport DEF Busy, External, Step, After
<1>10. Cut'
  BY <1>1, <1>9, Registry DEF Launch, Goto, manager, choice, IInv, Context, Cut, Doomed,
     interrupted, External, Step
<1> QED BY <1>1, <1>2, <1>3, <1>4, <1>5, <1>6, <1>7, <1>8, <1>9, <1>10 DEF IInv

\* The process is gone.
LEMMA ExitStep ==
  ASSUME IInv, NEW code \in {"ok", "failed"}, Exit(code)
  PROVE  IInv'
PROOF
<1>1. UNCHANGED <<chosen, tools, m, outcome, signal>> /\ (interrupted' <=> interrupted)
  BY DEF Exit, Goto, manager, choice, interrupted
<1>2. pc \in Busy /\ pc' \in Busy
  BY DEF Exit, Goto, manager, choice, Busy, External, Step
<1>3. exits \in Seq(Ends)
  BY DEF IInv, TypeOK
<1>4. exits' = exits \/ exits' = Append(exits, code)
  BY DEF Exit, Goto, manager, choice
<1>5. TypeOK'
  <2>1. exits' \in Seq(Ends)
    BY <1>3, <1>4 DEF Ends
  <2> QED BY <1>1, <2>1 DEF Exit, Goto, manager, choice, IInv, TypeOK, Places, outcome
<1>6. Context' /\ Place'
  BY <1>1, <1>2, Registry DEF Exit, Goto, manager, choice, IInv, Context, Place, External,
     Step, After
<1>7. Progress' /\ Batch'
  BY <1>1, <1>3, <1>4, Registry DEF Exit, Goto, manager, choice, All, IInv, Context, Place,
     Progress, Batch, External, Step
<1>8. Result'
  BY <1>1, Registry DEF Exit, Goto, manager, choice, Result
<1>9. Reported' /\ Ended' /\ (AllOK' <=> AllOK)
  BY <1>1, <1>2, SameReport DEF Busy, External, Step, After
<1>10. Cut'
  BY <1>1, <1>9, Registry DEF Exit, Goto, manager, choice, IInv, Context, Cut, Doomed,
     interrupted, External, Step
<1> QED BY <1>1, <1>2, <1>3, <1>4, <1>5, <1>6, <1>7, <1>8, <1>9, <1>10 DEF IInv

\* The upgrade of a tool.
LEMMA UpgradeToolStep ==
  ASSUME IInv, NEW end \in {"ok", "failed", "unresolved"}, UpgradeTool(end)
  PROVE  IInv'
PROOF
<1>1. UNCHANGED <<chosen, tools, m, outcome, signal>> /\ (interrupted' <=> interrupted)
  BY DEF UpgradeTool, Goto, manager, choice, interrupted
<1>2. pc \in Busy /\ pc' \in Busy
  BY DEF UpgradeTool, Goto, manager, choice, Busy, External, Step
<1>3. exits \in Seq(Ends)
  BY DEF IInv, TypeOK
<1>4. exits' = exits \/ exits' = Append(exits, end)
  BY DEF UpgradeTool, Goto, manager, choice
<1>5. TypeOK'
  <2>1. exits' \in Seq(Ends)
    BY <1>3, <1>4 DEF Ends
  <2> QED BY <1>1, <2>1 DEF UpgradeTool, Goto, manager, choice, IInv, TypeOK, Places, outcome
<1>6. Context' /\ Place'
  BY <1>1, <1>2, Registry DEF UpgradeTool, Goto, manager, choice, IInv, Context, Place,
     External, Step, After
<1>7. Progress' /\ Batch'
  BY <1>1, <1>3, <1>4, Registry DEF UpgradeTool, Goto, manager, choice, All, IInv, Context,
     Place, Progress, Batch, External, Step
<1>8. Result'
  BY <1>1, Registry DEF UpgradeTool, Goto, manager, choice, Result
<1>9. Reported' /\ Ended' /\ (AllOK' <=> AllOK)
  BY <1>1, <1>2, SameReport DEF Busy, External, Step, After
<1>10. Cut'
  BY <1>1, <1>9, Registry DEF UpgradeTool, Goto, manager, choice, IInv, Context, Cut,
     Doomed, interrupted, External, Step
<1> QED BY <1>1, <1>2, <1>3, <1>4, <1>5, <1>6, <1>7, <1>8, <1>9, <1>10 DEF IInv

\* The loop over the tools.
LEMMA NextToolStep ==
  ASSUME IInv, NextTool
  PROVE  IInv'
PROOF
<1>1. UNCHANGED <<chosen, tools, m, outcome, signal>> /\ (interrupted' <=> interrupted)
  BY DEF NextTool, Goto, manager, choice, interrupted
<1>2. pc \in Busy /\ pc' \in Busy
  BY DEF NextTool, Goto, manager, choice, Busy, External, Step
<1>3. exits \in Seq(Ends)
  BY DEF IInv, TypeOK
<1>4. exits' = exits \/ exits' = Append(exits, "skipped")
  BY DEF NextTool, Goto, manager, choice
<1>5. TypeOK'
  <2>1. exits' \in Seq(Ends)
    BY <1>3, <1>4 DEF Ends
  <2> QED BY <1>1, <2>1 DEF NextTool, Goto, manager, choice, IInv, TypeOK, Places, outcome
<1>6. Context' /\ Place'
  BY <1>1, <1>2, Registry DEF NextTool, Goto, manager, choice, IInv, Context, Place,
     External, Step, After
<1>7. Progress' /\ Batch'
  BY <1>1, <1>3, <1>4, Registry DEF NextTool, Goto, manager, choice, All, IInv, Context,
     Place, Progress, Batch, External, Step
<1>8. Result'
  BY <1>1, Registry DEF NextTool, Goto, manager, choice, Result
<1>9. Reported' /\ Ended' /\ (AllOK' <=> AllOK)
  BY <1>1, <1>2, SameReport DEF Busy, External, Step, After
<1>10. Cut'
  BY <1>1, <1>9, Registry DEF NextTool, Goto, manager, choice, IInv, Context, Cut, Doomed,
     interrupted, External, Step
<1> QED BY <1>1, <1>2, <1>3, <1>4, <1>5, <1>6, <1>7, <1>8, <1>9, <1>10 DEF IInv

\* The batch begins.
LEMMA StartStepStep ==
  ASSUME IInv, StartStep
  PROVE  IInv'
PROOF
<1>1. UNCHANGED <<chosen, tools, m, outcome, signal>> /\ (interrupted' <=> interrupted)
  BY DEF StartStep, Goto, manager, choice, interrupted
<1>2. pc \in Busy /\ pc' \in Busy
  BY DEF StartStep, Goto, manager, choice, Busy, External, Step
<1>3. exits \in Seq(Ends)
  BY DEF IInv, TypeOK
<1>4. exits' = <<>> \/ exits' = <<"refused">>
  BY DEF StartStep, Goto, manager, choice
<1>5. TypeOK'
  <2>1. exits' \in Seq(Ends)
    BY <1>4, EmptySeq, Refused
  <2>2. status' = "none" /\ attempt' = 0 
        /\ cause' \in {"canceled", "live"} /\ pc' \in {"tool", "returned"}
    BY DEF StartStep, Goto
  <2> QED BY <1>1, <2>1, <2>2, Registry DEF IInv, TypeOK, Places, outcome
<1>6. Context' /\ Place'
  BY <1>1, <1>2, Registry DEF StartStep, Goto, manager, choice, IInv, Context, Place,
     External, Step, After
<1>7. Progress' /\ Batch'
  <2>1. m = Internal /\ (pc' = "tool" => exits' = <<>>)
        /\ (pc' = "returned" => exits' = <<"refused">>) /\ pc' \in {"tool", "returned"}
    BY DEF StartStep, Goto, manager, choice
  <2>2. Progress'
    BY <1>1, <2>1 DEF Progress
  <2>3. Batch'
    BY <1>1, <2>1, Refused, Registry DEF Batch
  <2> QED BY <2>2, <2>3
<1>8. Result'
  BY <1>1, Registry DEF StartStep, Goto, manager, choice, Result
<1>9. Reported' /\ Ended' /\ (AllOK' <=> AllOK)
  BY <1>1, <1>2, SameReport DEF Busy, External, Step, After
<1>10. Cut'
  BY <1>1, <1>9, Registry DEF StartStep, Goto, manager, choice, IInv, Context, Cut, Doomed,
     interrupted, External, Step
<1> QED BY <1>1, <1>2, <1>3, <1>4, <1>5, <1>6, <1>7, <1>8, <1>9, <1>10 DEF IInv

\* The batch returns.
LEMMA StepReturnsStep ==
  ASSUME IInv, StepReturns
  PROVE  IInv'
PROOF
<1>1. UNCHANGED <<chosen, tools, m, outcome, signal>> /\ (interrupted' <=> interrupted)
  BY DEF StepReturns, Goto, manager, choice, interrupted
<1>2. TypeOK'
  BY <1>1, Registry, EmptySeq DEF StepReturns, Goto, manager, choice, IInv, TypeOK, Places,
     Ends, Statuses, outcome
<1>3. pc \in Busy /\ pc' \in Busy
  BY DEF StepReturns, Goto, manager, choice, Busy, External, Step
<1>4. Context' /\ Place'
  BY <1>1, <1>3, Registry DEF StepReturns, Goto, manager, choice, IInv, Context, Place,
     External, Step, After
<1>5. Progress' /\ Batch'
  BY <1>1, Registry DEF StepReturns, Goto, manager, choice, All, IInv, Place, Progress,
     Batch, External, Step
<1>6. Result'
  <2>1. ~StepFailed /\ cause = "live" => All("ok") /\ Len(exits) = tools
    <3> SUFFICES ASSUME ~StepFailed, cause = "live" PROVE All("ok") /\ Len(exits) = tools
      OBVIOUS
    <3>1. \A i \in DOMAIN exits : exits[i] \in Ends
      BY DEF IInv, TypeOK
    <3>2. \A i \in DOMAIN exits : exits[i] # "skipped"
      BY DEF StepReturns, IInv, Batch, Step
    <3>3. All("ok")
      BY <3>1, <3>2 DEF All, StepFailed, Ends
    <3>4. ~(Len(exits) > 0 /\ exits[Len(exits)] \in {"unresolved", "refused"})
      BY <3>3, Registry DEF All
    <3> QED BY <3>3, <3>4 DEF StepReturns, IInv, Batch
  <2>2. StepFailed => ~All("ok")
    BY DEF StepFailed, All
  <2>3. m = Internal
    BY DEF StepReturns, IInv, Place, Step
  <2>4. status' = (IF StepFailed THEN "failed" ELSE IF cause # "live" THEN "canceled" ELSE "ok")
        /\ UNCHANGED <<exits, cause>> /\ pc' = "reclassify"
    BY DEF StepReturns, Goto
  <2>5. cause # "live" => interrupted \/ cause = "deadline"
    BY DEF StepReturns, IInv, TypeOK, Context, Step
  <2>6. All("ok")' <=> All("ok")
    BY <2>4, SameExits
  <2> QED BY <1>1, <2>1, <2>2, <2>3, <2>4, <2>5, <2>6 DEF Result, Statuses
<1>7. Reported' /\ Ended' /\ (AllOK' <=> AllOK)
  BY <1>1, <1>3, SameReport DEF Busy, External, Step, After
<1>8. Cut'
  BY <1>1, <1>7, Registry DEF StepReturns, Goto, manager, choice, All, IInv, Context,
     Progress, Result, Cut, Doomed, interrupted, External, Step, Statuses
<1> QED BY <1>1, <1>2, <1>3, <1>4, <1>5, <1>6, <1>7, <1>8 DEF IInv

-----------------------------------------------------------------------------
(* The steps between the managers *)

\* The report of a step that leaves it alone.
LEMMA SameResults ==
  ASSUME UNCHANGED results
  PROVE  Listed' = Listed /\ (AllOK' <=> AllOK) /\ (Ordered' <=> Ordered)
BY DEF Listed, AllOK, Ordered

\* No manager, no exits: what is said of them is void.
LEMMA NoManager ==
  ASSUME pc' \notin External \union Step \union {"record"}
  PROVE  Progress' /\ Batch' /\ Result'
BY DEF External, Step, Progress, Batch, Result

LEMMA AbortStep ==
  ASSUME IInv, NEW t \in {"lock", "inventory", "snapshot", "report"}, Abort(t),
         UNCHANGED <<choice, manager, signal>>, cause = "none"
  PROVE  IInv'
PROOF
<1>1. /\ UNCHANGED <<chosen, tools, m, cause, attempt, exits, status, results, signal>>
      /\ pc' = "end" /\ exit' = "nonzero" /\ trouble' = trouble \union {t}
  BY DEF Abort, choice, manager
<1>2. TypeOK'
  BY <1>1 DEF IInv, TypeOK, Places
<1>3. Context' /\ Place'
  BY <1>1 DEF IInv, Context, Place, interrupted, External, Step, After
<1>4. Progress' /\ Batch' /\ Result'
  BY <1>1, NoManager DEF External, Step
<1>5. Reported'
  BY <1>1, SameResults DEF IInv, Reported, Complete, After
<1>6. Cut' /\ Ended'
  BY <1>1 DEF Cut, Ended, ZeroMeansDone
<1> QED BY <1>2, <1>3, <1>4, <1>5, <1>6 DEF IInv

LEMMA BeginStep ==
  ASSUME IInv, Begin \/ PreInventory
  PROVE  IInv'
PROOF
<1>1. cause = "none" /\ pc \in {"begin", "pre"} /\ m = 1 /\ results = <<>> /\ UNCHANGED <<choice, manager, signal>>
  BY DEF Begin, PreInventory, IInv, Context, Place, External, Step
<1>2. CASE \E t \in {"lock", "inventory"} : Abort(t)
  BY <1>1, <1>2, AbortStep
<1>3. CASE ((pc = "begin" /\ pc' = "pre") \/ (pc = "pre" /\ pc' = "loop")) /\ UNCHANGED outcome
  <2>1. /\ UNCHANGED <<chosen, tools, m, cause, attempt, exits, status, outcome, signal>>
        /\ (interrupted' <=> interrupted) /\ pc' \in {"pre", "loop"}
    BY <1>1, <1>3 DEF choice, manager, interrupted
  <2>2. TypeOK'
    BY <2>1 DEF IInv, TypeOK, Places, outcome
  <2>3. Context' /\ Place'
    BY <1>1, <2>1 DEF IInv, Context, Place, External, Step, After, outcome
  <2>4. Progress' /\ Batch' /\ Result'
    BY <2>1, NoManager DEF External, Step
  <2>5. Reported' /\ Ended' /\ (AllOK' <=> AllOK)
    BY <1>1, <2>1, SameReport DEF After
  <2>6. Cut'
    BY <1>1, <1>3, <2>1, <2>5 DEF IInv, Cut, Doomed, External, Step
  <2> QED BY <2>2, <2>3, <2>4, <2>5, <2>6 DEF IInv
<1>4. CASE Begin
  <2>1. \/ \E t \in {"lock", "inventory"} : Abort(t)
        \/ (pc = "begin" /\ pc' = "pre" /\ UNCHANGED outcome)
    BY <1>4 DEF Begin, Goto
  <2> QED BY <1>2, <1>3, <2>1
<1>5. CASE PreInventory
  <2>1. \/ \E t \in {"lock", "inventory"} : Abort(t)
        \/ (pc = "pre" /\ pc' = "loop" /\ UNCHANGED outcome)
    BY <1>5 DEF PreInventory, Goto
  <2> QED BY <1>2, <1>3, <2>1
<1> QED BY <1>4, <1>5

LEMMA SkipStep ==
  ASSUME IInv, Skip
  PROVE  IInv'
PROOF
<1>1. /\ UNCHANGED <<chosen, tools, pc, cause, attempt, exits, status, results, trouble, exit, signal>>
      /\ (interrupted' <=> interrupted) /\ pc = "loop" /\ m \in Managers /\ m \notin chosen /\ m' = m + 1
  BY DEF Skip, choice, outcome, interrupted
<1>2. TypeOK'
  BY <1>1, Registry DEF IInv, TypeOK
<1>3. Context' /\ Place'
  BY <1>1 DEF IInv, Context, Place, External, Step, After
<1>4. Progress' /\ Batch' /\ Result'
  BY <1>1, NoManager DEF External, Step
<1>5. \A x \in chosen : (x < m <=> x < m + 1) /\ (x >= m <=> x >= m + 1)
  BY <1>1, Registry
<1>6. Listed' = Listed /\ (AllOK' <=> AllOK) /\ (Ordered' <=> Ordered)
  BY <1>1, SameResults
<1>7. Reported'
  BY <1>1, <1>5, <1>6 DEF IInv, Reported, Complete, After
<1>8. Ended'
  BY <1>1, <1>6 DEF IInv, Ended, ZeroMeansDone
<1>9. Cut'
  BY <1>1, <1>5, <1>6 DEF IInv, Cut, Doomed, External, Step
<1> QED BY <1>2, <1>3, <1>4, <1>7, <1>8, <1>9 DEF IInv

LEMMA LoopEndStep ==
  ASSUME IInv, LoopEnd
  PROVE  IInv'
PROOF
<1>1. /\ UNCHANGED <<chosen, tools, m, cause, attempt, exits, status, results, trouble, exit, signal>>
      /\ (interrupted' <=> interrupted) /\ pc = "loop" /\ m > Internal /\ pc' = "post"
  BY DEF LoopEnd, Goto, choice, manager, outcome, interrupted
<1>2. TypeOK'
  BY <1>1 DEF IInv, TypeOK, Places
<1>3. m = Internal + 1
  BY <1>1, Registry DEF IInv, TypeOK
<1>4. Context' /\ Place'
  BY <1>1, <1>3 DEF IInv, Context, Place, External, Step, After
<1>5. Progress' /\ Batch' /\ Result'
  BY <1>1, NoManager DEF External, Step
<1>6. Listed' = Listed /\ (AllOK' <=> AllOK) /\ (Ordered' <=> Ordered)
  BY <1>1, SameResults
<1>7. \A x \in chosen : x < m
  BY <1>1, <1>3, Registry
<1>8. Listed = chosen
  BY <1>1, <1>7 DEF IInv, Reported, Complete, After
<1>9. Reported'
  BY <1>1, <1>6, <1>8 DEF IInv, Reported, Complete, Stopped, After
<1>10. Ended'
  BY <1>1, <1>6 DEF IInv, Ended, ZeroMeansDone
<1>11. Cut'
  BY <1>1, <1>6, <1>7, Registry DEF IInv, Cut, Doomed, External, Step
<1> QED BY <1>2, <1>4, <1>5, <1>9, <1>10, <1>11 DEF IInv

\* One more result.
LEMMA CheckStep ==
  ASSUME IInv, LoopCheck
  PROVE  IInv'
PROOF
<1>1. /\ UNCHANGED <<chosen, tools, m, cause, attempt, exits, status, trouble, exit, signal>>
      /\ (interrupted' <=> interrupted) /\ pc = "loop" /\ m \in chosen
  BY DEF LoopCheck, choice, manager, interrupted
<1>2. CASE interrupted
  <2> DEFINE r == [manager |-> m, status |-> "canceled"]
  <2>1. r \in Item /\ results \in Seq(Item) /\ pc' = "post" /\ results' = Append(results, r)
    BY <1>1, <1>2 DEF LoopCheck, Goto, IInv, TypeOK, Item, Statuses
  <2>2. /\ results' \in Seq(Item) /\ results' # <<>>
        /\ results'[Len(results')] = r
        /\ Listed' = Listed \union {r.manager}
        /\ AllOK' <=> AllOK /\ r.status = "ok"
        /\ Ordered /\ (\A x \in Listed : x < r.manager) => Ordered'
    BY <2>1, OneMoreResult
  <2> HIDE DEF r
  <2>3. r.manager = m /\ r.status = "canceled"
    BY DEF r
  <2>4. TypeOK'
    BY <1>1, <2>1, <2>2 DEF IInv, TypeOK, Places, Item
  <2>5. Context' /\ Place'
    BY <1>1, <1>2, <2>1 DEF IInv, Context, Place, External, Step, After
  <2>6. Progress' /\ Batch' /\ Result'
    BY <2>1, NoManager DEF External, Step
  <2>7. Listed = {x \in chosen : x < m}
    BY <1>1 DEF IInv, Reported, Complete, After
  <2>8. Listed' = {x \in chosen : x <= m}
    BY <1>1, <2>2, <2>3, <2>7, Registry
  <2>9. Ordered'
    BY <2>2, <2>3, <2>7 DEF IInv, Reported
  <2>10. Reported'
    BY <1>1, <1>2, <2>1, <2>2, <2>3, <2>8, <2>9 DEF Reported, Complete, Stopped, After
  <2>11. Cut' /\ Ended'
    BY <1>1, <2>1, <2>2, <2>3 DEF IInv, Cut, Doomed, Ended, ZeroMeansDone
  <2> QED BY <2>4, <2>5, <2>6, <2>10, <2>11 DEF IInv
<1>3. CASE ~interrupted
  <2>1. pc' = "start" /\ UNCHANGED results
    BY <1>3 DEF LoopCheck, Goto
  <2>2. TypeOK'
    BY <1>1, <2>1 DEF IInv, TypeOK, Places
  <2>3. Context' /\ Place'
    BY <1>1, <2>1 DEF IInv, Context, Place, External, Step, After
  <2>4. Progress' /\ Batch' /\ Result'
    BY <2>1, NoManager DEF External, Step
  <2>5. Reported' /\ Ended'
    BY <1>1, <2>1, SameReport DEF After, outcome
  <2>6. Cut'
    BY <1>1, <1>3, <2>1 DEF Cut, Doomed, interrupted
  <2> QED BY <2>2, <2>3, <2>4, <2>5, <2>6 DEF IInv
<1> QED BY <1>2, <1>3

LEMMA RecordStep ==
  ASSUME IInv, Record
  PROVE  IInv'
PROOF
<1> DEFINE r == [manager |-> m, status |-> status]
<1>1. /\ UNCHANGED <<chosen, tools, trouble, exit, signal>> /\ (interrupted' <=> interrupted)
      /\ pc = "record" /\ pc' = "loop" /\ results' = Append(results, r)
      /\ m' = m + 1 /\ cause' = "none" /\ attempt' = 0 /\ exits' = <<>> /\ status' = "none"
  BY DEF Record, Goto, choice, interrupted
<1>2. m \in chosen /\ status \in Statuses
  BY <1>1 DEF IInv, Place, Result
<1>3. r \in Item /\ results \in Seq(Item)
  BY <1>2, Registry DEF IInv, TypeOK, Item
<1>4. /\ results' \in Seq(Item) /\ results' # <<>>
      /\ results'[Len(results')] = r
      /\ Listed' = Listed \union {r.manager}
      /\ AllOK' <=> AllOK /\ r.status = "ok"
      /\ Ordered /\ (\A x \in Listed : x < r.manager) => Ordered'
  BY <1>1, <1>3, OneMoreResult
<1> HIDE DEF r
<1>5. r.manager = m /\ r.status = status
  BY DEF r
<1>6. TypeOK'
  <2>1. exits' \in Seq(Ends) /\ m' \in 1..(Internal + 1) /\ attempt' \in 0..Retries
    BY <1>1, <1>2, EmptySeq, Registry DEF IInv, TypeOK
  <2> QED BY <1>1, <1>4, <2>1 DEF IInv, TypeOK, Places, Item
<1>7. Context' /\ Place'
  BY <1>1 DEF IInv, Context, Place, External, Step, After
<1>8. Progress' /\ Batch' /\ Result'
  BY <1>1, NoManager DEF External, Step
<1>9. Listed = {x \in chosen : x < m}
  BY <1>1 DEF IInv, Reported, Complete, After
<1>10. Listed' = {x \in chosen : x < m + 1}
  BY <1>2, <1>4, <1>5, <1>9, Registry
<1>11. Ordered'
  BY <1>4, <1>5, <1>9 DEF IInv, Reported
<1>12. Reported'
  BY <1>1, <1>10, <1>11 DEF Reported, Complete, After
<1>13. Cut'
  <2>1. CASE status # "ok" \/ ~AllOK
    BY <1>1, <1>4, <1>5, <2>1 DEF Cut, Doomed
  <2>2. CASE status = "ok" /\ AllOK /\ signal = "work"
    <3>1. \E x \in chosen : x > m
      BY <1>1, <2>2 DEF IInv, Cut, Doomed, External, Step
    <3>2. \E x \in chosen : x >= m + 1
      BY <3>1, Registry
    <3> QED BY <1>1, <3>2 DEF Cut, Doomed
  <2> QED BY <1>1, <2>1, <2>2 DEF Cut
<1>14. Ended'
  BY <1>1 DEF IInv, Ended, ZeroMeansDone
<1> QED BY <1>6, <1>7, <1>8, <1>12, <1>13, <1>14 DEF IInv

-----------------------------------------------------------------------------
(* After the managers *)

LEMMA PostInventoryStep ==
  ASSUME IInv, PostInventory
  PROVE  IInv'
PROOF
<1>1. cause = "none" /\ pc = "post" /\ UNCHANGED <<choice, manager, signal>>
  BY DEF PostInventory, IInv, Context, External, Step
<1>2. CASE Abort("inventory")
  BY <1>1, <1>2, AbortStep
<1>3. CASE pc' = "persist" /\ UNCHANGED outcome
  <2>1. UNCHANGED <<chosen, tools, m, cause, attempt, exits, status, results, trouble, exit, signal>>
        /\ (interrupted' <=> interrupted)
    BY <1>1, <1>3 DEF choice, manager, outcome, interrupted
  <2>2. Listed' = Listed /\ (AllOK' <=> AllOK) /\ (Ordered' <=> Ordered)
    BY <2>1, SameResults
  <2>3. TypeOK'
    BY <1>3, <2>1 DEF IInv, TypeOK, Places
  <2>4. Context' /\ Place'
    BY <1>1, <1>3, <2>1 DEF IInv, Context, Place, External, Step, After
  <2>5. Progress' /\ Batch' /\ Result'
    BY <1>3, NoManager DEF External, Step
  <2>6. Reported'
    BY <1>1, <1>3, <2>1, <2>2 DEF IInv, Reported, Complete, Stopped, After
  <2>7. Cut' /\ Ended'
    BY <1>1, <1>3, <2>1, <2>2 DEF IInv, Cut, Doomed, Ended, ZeroMeansDone, External, Step
  <2> QED BY <2>3, <2>4, <2>5, <2>6, <2>7 DEF IInv
<1> QED BY <1>2, <1>3 DEF PostInventory, Goto

LEMMA PersistStep ==
  ASSUME IInv, Persist
  PROVE  IInv'
PROOF
<1>1. UNCHANGED <<chosen, tools, m, cause, attempt, exits, status, results, exit, signal>>
      /\ (interrupted' <=> interrupted) /\ trouble' \in {{}, {"snapshot"}}
      /\ pc = "persist" /\ pc' = "report"
  BY DEF Persist, Goto, choice, manager, interrupted
<1>2. Listed' = Listed /\ (AllOK' <=> AllOK) /\ (Ordered' <=> Ordered)
  BY <1>1, SameResults
<1>3. TypeOK'
  BY <1>1 DEF IInv, TypeOK, Places
<1>4. Context' /\ Place'
  BY <1>1 DEF IInv, Context, Place, External, Step, After
<1>5. Progress' /\ Batch' /\ Result'
  BY <1>1, NoManager DEF External, Step
<1>6. Reported'
  BY <1>1, <1>2 DEF IInv, Reported, Complete, Stopped, After
<1>7. Cut' /\ Ended'
  BY <1>1, <1>2 DEF IInv, Cut, Doomed, Ended, ZeroMeansDone, External, Step
<1> QED BY <1>3, <1>4, <1>5, <1>6, <1>7 DEF IInv

LEMMA ReportStep ==
  ASSUME IInv, Report
  PROVE  IInv'
PROOF
<1>1. cause = "none" /\ pc = "report" /\ exit = "none" /\ UNCHANGED <<choice, manager, signal>>
  BY DEF Report, IInv, Context, Ended, External, Step
<1>2. CASE Abort("report")
  BY <1>1, <1>2, AbortStep
<1>3. CASE /\ pc' = "end" /\ UNCHANGED <<results, trouble>>
           /\ exit' = IF trouble # {} \/ ~AllOK THEN "nonzero" ELSE "zero"
  <2>1. UNCHANGED <<chosen, tools, m, cause, attempt, exits, status, results, trouble, signal>>
        /\ (interrupted' <=> interrupted)
    BY <1>1, <1>3 DEF choice, manager, interrupted
  <2>2. Listed' = Listed /\ (AllOK' <=> AllOK) /\ (Ordered' <=> Ordered)
    BY <2>1, SameResults
  <2>3. TypeOK'
    BY <1>3, <2>1 DEF IInv, TypeOK, Places
  <2>4. Context' /\ Place'
    BY <1>1, <1>3, <2>1 DEF IInv, Context, Place, External, Step, After
  <2>5. Progress' /\ Batch' /\ Result'
    BY <1>3, NoManager DEF External, Step
  <2>6. Reported'
    BY <1>1, <1>3, <2>1, <2>2 DEF IInv, Reported, Complete, After
  <2>7. Cut'
    BY <1>1, <1>3, <2>1 DEF IInv, Cut, Doomed, External, Step
  <2>8. AllOK => Listed = chosen
    <3>1. results # <<>> => Len(results) \in DOMAIN results
      BY DEF IInv, TypeOK
    <3>2. AllOK /\ results # <<>> => results[Len(results)].status # "canceled"
      BY <3>1 DEF AllOK
    <3> QED BY <1>1, <3>2 DEF IInv, Reported, Stopped, After
  <2>9. Ended'
    BY <1>3, <2>1, <2>2, <2>8 DEF Ended, ZeroMeansDone
  <2> QED BY <2>3, <2>4, <2>5, <2>6, <2>7, <2>9 DEF IInv
<1> QED BY <1>2, <1>3 DEF Report, Goto

-----------------------------------------------------------------------------
(* The environment *)

LEMMA InterruptStep ==
  ASSUME IInv, Interrupt
  PROVE  IInv'
PROOF
<1>1. /\ UNCHANGED <<chosen, tools, pc, m, attempt, exits, status, results, trouble, exit>>
      /\ pc \notin {"begin", "end"} /\ ~interrupted /\ interrupted'
      /\ cause' = (IF cause = "live" THEN "canceled" ELSE cause)
      /\ signal' = (IF WorkLeft THEN "work" ELSE "late")
  BY DEF Interrupt, choice, outcome, interrupted
<1>2. Listed' = Listed /\ (AllOK' <=> AllOK) /\ (Ordered' <=> Ordered) /\ (All("ok")' <=> All("ok"))
  BY <1>1, SameResults, SameExits
<1>3. TypeOK'
  BY <1>1 DEF IInv, TypeOK
<1>4. Context'
  BY <1>1 DEF IInv, Context
<1>5. Place'
  BY <1>1 DEF IInv, Place
<1>6. Progress'
  BY <1>1 DEF IInv, Progress, All
<1>7. Batch'
  BY <1>1 DEF IInv, Batch
<1>8. Result'
  BY <1>1, <1>2 DEF IInv, Result
<1>9. Reported'
  BY <1>1, <1>2 DEF IInv, Reported, Complete, Stopped
<1>10. Cut'
  <2> SUFFICES ASSUME WorkLeft PROVE Doomed'
    BY <1>1 DEF Cut
  <2>1. PICK x \in chosen : x > m \/ (x = m /\ ~WorkDone)
    BY DEF WorkLeft
  <2>2. x \in Nat /\ m \in Nat /\ x <= Internal /\ Internal \in Nat
    BY Registry
  <2>3. pc \notin After
    BY <1>1, <2>1, <2>2 DEF IInv, Place
  <2>4. pc \in {"pre", "loop", "start", "record"} \union External \union Step
    BY <1>1, <2>3 DEF IInv, TypeOK, Places, External, Step, After
  <2>5. CASE x > m
    BY <1>1, <2>2, <2>4, <2>5 DEF Doomed
  <2>6. CASE x = m /\ ~WorkDone
    <3>1. pc = "command" => Len(exits) < Commands[m]
      BY <2>6, Registry DEF WorkDone, IInv, Progress, Place, External
    <3> QED BY <1>1, <2>2, <2>4, <2>6, <3>1 DEF Doomed, WorkDone, External
  <2> QED BY <2>1, <2>5, <2>6
<1>11. Ended'
  BY <1>1, <1>2 DEF IInv, Ended, ZeroMeansDone
<1> QED BY <1>3, <1>4, <1>5, <1>6, <1>7, <1>8, <1>9, <1>10, <1>11 DEF IInv

LEMMA ExpireStep ==
  ASSUME IInv, Expire
  PROVE  IInv'
PROOF
<1>1. /\ UNCHANGED <<chosen, tools, pc, m, attempt, exits, status, results, trouble, exit, signal>>
      /\ (interrupted' <=> interrupted) /\ cause = "live" /\ cause' = "deadline"
  BY DEF Expire, choice, outcome, interrupted
<1>2. Listed' = Listed /\ (AllOK' <=> AllOK) /\ (Ordered' <=> Ordered) /\ (All("ok")' <=> All("ok"))
  BY <1>1, SameResults, SameExits
<1>3. TypeOK'
  BY <1>1 DEF IInv, TypeOK
<1>4. Context' /\ Place'
  BY <1>1 DEF IInv, Context, Place
<1>5. Progress' /\ Batch'
  BY <1>1 DEF IInv, Progress, Batch, All
<1>6. Result'
  BY <1>1, <1>2 DEF IInv, Result
<1>7. Reported'
  BY <1>1, <1>2 DEF IInv, Reported, Complete, Stopped
<1>8. Cut' /\ Ended'
  BY <1>1, <1>2 DEF IInv, Cut, Doomed, Ended, ZeroMeansDone
<1> QED BY <1>3, <1>4, <1>5, <1>6, <1>7, <1>8 DEF IInv

LEMMA StutterStep ==
  ASSUME IInv, UNCHANGED vars
  PROVE  IInv'
PROOF
<1>1. /\ UNCHANGED <<chosen, tools, pc, m, cause, attempt, exits, status, results, trouble, exit, signal>>
      /\ (interrupted' <=> interrupted)
  BY DEF vars, choice, manager, outcome, interrupted
<1>2. Listed' = Listed /\ (AllOK' <=> AllOK) /\ (Ordered' <=> Ordered) /\ (All("ok")' <=> All("ok"))
  BY <1>1, SameResults, SameExits
<1>3. TypeOK'
  BY <1>1 DEF IInv, TypeOK
<1>4. Context' /\ Place'
  BY <1>1 DEF IInv, Context, Place
<1>5. Progress' /\ Batch'
  BY <1>1 DEF IInv, Progress, Batch, All
<1>6. Result'
  BY <1>1, <1>2 DEF IInv, Result
<1>7. Reported'
  BY <1>1, <1>2 DEF IInv, Reported, Complete, Stopped
<1>8. Cut' /\ Ended'
  BY <1>1, <1>2 DEF IInv, Cut, Doomed, Ended, ZeroMeansDone
<1> QED BY <1>3, <1>4, <1>5, <1>6, <1>7, <1>8 DEF IInv

-----------------------------------------------------------------------------
(* The theorems *)

LEMMA Inductive == Spec => []IInv
PROOF
<1>1. Init => IInv
  BY Initially
<1>2. IInv /\ [Next]_vars => IInv'
  <2> SUFFICES ASSUME IInv, [Next]_vars PROVE IInv'
    OBVIOUS
  <2>1. CASE Begin \/ PreInventory
    BY <2>1, BeginStep
  <2>2. CASE Skip
    BY <2>2, SkipStep
  <2>3. CASE LoopCheck
    BY <2>3, CheckStep
  <2>4. CASE LoopEnd
    BY <2>4, LoopEndStep
  <2>5. CASE Record
    BY <2>5, RecordStep
  <2>6. CASE StartManager \/ NextCommand
    BY <2>6, StartManagerStep, CommandStep
  <2>7. CASE Launch
    BY <2>7, LaunchStep
  <2>8. CASE Waited \/ Classify \/ Retry
    BY <2>8, WaitedStep, ClassifyStep, RetryStep
  <2>9. CASE StartStep \/ NextTool \/ StepReturns \/ Reclassify
    BY <2>9, StartStepStep, NextToolStep, StepReturnsStep, ReclassifyStep
  <2>10. CASE \E end \in {"ok", "failed", "unresolved"} : UpgradeTool(end)
    BY <2>10, UpgradeToolStep
  <2>11. CASE PostInventory \/ Persist \/ Report
    BY <2>11, PostInventoryStep, PersistStep, ReportStep
  <2>12. CASE Interrupt \/ Expire
    BY <2>12, InterruptStep, ExpireStep
  <2>13. CASE Killed \/ \E code \in {"ok", "failed"} : Exit(code)
    BY <2>13, ExitStep DEF Killed
  <2>14. CASE UNCHANGED vars
    BY <2>14, StutterStep
  <2> QED
    BY <2>1, <2>2, <2>3, <2>4, <2>5, <2>6, <2>7, <2>8, <2>9, <2>10, <2>11, <2>12, <2>13,
       <2>14 DEF Next, Hukou
<1> QED BY <1>1, <1>2, PTL DEF Spec

\* Every variable of a run holds a value of its type.
THEOREM UpTypeCorrect == Spec => []TypeOK
PROOF
<1>1. IInv => TypeOK
  BY DEF IInv
<1> QED BY <1>1, Inductive, PTL

\* A manager's result says what happened to it (runOne, runInternalHukou,
\* doUpExecute), whenever an interrupt or the deadline came, and runOne gives up
\* only after its last retry, or with its context.
THEOREM ResultsAreTrue == Spec => []ResultIsTrue
PROOF
<1>1. IInv => ResultIsTrue
  BY DEF IInv, Result, ResultIsTrue, Statuses
<1> QED BY <1>1, Inductive, PTL

\* The loop of doUpExecute leaves no manager out of the report but behind an
\* interrupt.
THEOREM ReportsAreComplete == Spec => []ReportIsComplete
PROOF
<1>1. IInv => ReportIsComplete
  BY DEF IInv, Reported, Ordered, Stopped, ReportIsComplete, After
<1> QED BY <1>1, Inductive, PTL

\* An interrupt that cuts work short is seen by one of the looks at the
\* contexts, and shows in the exit status.
THEOREM InterruptsCount == Spec => []InterruptCounts
PROOF
<1>1. IInv => InterruptCounts
  BY DEF IInv, Cut, InterruptCounts
<1> QED BY <1>1, Inductive, PTL

\* aggregateExit is zero only if every manager is reported and ok.
THEOREM ZeroIsSuccess == Spec => []ZeroMeansDone
PROOF
<1>1. IInv => ZeroMeansDone
  BY DEF IInv, Ended
<1> QED BY <1>1, Inductive, PTL

\* doUpgradeCtx ends with a line for every tool, but behind a journal in doubt.
THEOREM ToolsAreReported == Spec => []ToolsAccountedFor
PROOF
<1>1. IInv => ToolsAccountedFor
  BY DEF IInv, Batch, ToolsAccountedFor
<1> QED BY <1>1, Inductive, PTL

\* Neither a command nor the upgrade of a tool starts under a context that is
\* done; the looks at the context come last.
THEOREM DoneContextsStartNothing == Spec => DoneContextStartsNothing
PROOF
<1> DEFINE Quiet == cause # "live" /\ pc' \in {"running", "upgrading"} => pc' = pc
<1>1. [Next]_vars => Quiet
  <2> SUFFICES ASSUME [Next]_vars PROVE Quiet
    OBVIOUS
  <2>1. CASE Begin \/ PreInventory \/ PostInventory \/ Persist \/ Report
    BY <2>1 DEF Begin, PreInventory, PostInventory, Persist, Report, Abort, Goto
  <2>2. CASE Skip \/ LoopCheck \/ LoopEnd \/ Record
    BY <2>2 DEF Skip, LoopCheck, LoopEnd, Record, Goto
  <2>3. CASE StartManager \/ NextCommand \/ Launch \/ Waited \/ Classify \/ Retry
    BY <2>3 DEF StartManager, NextCommand, Launch, Waited, Classify, Retry, Decided, Goto
  <2>4. CASE StartStep \/ NextTool \/ StepReturns \/ Reclassify
    BY <2>4 DEF StartStep, NextTool, StepReturns, Reclassify, Goto
  <2>5. CASE \E end \in {"ok", "failed", "unresolved"} : UpgradeTool(end)
    BY <2>5 DEF UpgradeTool, Goto
  <2>6. CASE Interrupt \/ Expire
    BY <2>6 DEF Interrupt, Expire
  <2>7. CASE Killed \/ \E code \in {"ok", "failed"} : Exit(code)
    BY <2>7 DEF Killed, Exit, Goto
  <2>8. CASE UNCHANGED vars
    BY <2>8 DEF vars
  <2> QED BY <2>1, <2>2, <2>3, <2>4, <2>5, <2>6, <2>7, <2>8 DEF Next, Hukou
<1>2. Spec => [][Quiet]_vars
  BY <1>1, PTL DEF Spec
<1> QED BY <1>2 DEF DoneContextStartsNothing
=============================================================================
