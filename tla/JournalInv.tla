----------------------------- MODULE JournalInv -----------------------------
(***************************************************************************)
(* The inductive invariant behind the safety properties of Journal.  The    *)
(* properties speak about journals that may become pending; what makes them *)
(* inductive is where the lock holder is when such a journal exists, and    *)
(* how far its loop over the participants has got.                          *)
(***************************************************************************)
EXTENDS Journal

\* The participants only hukou writes.
Mine == Path \ External

\* Steps at which the holder owns no journal, and those at which its journal
\* is the pending one.
Unowned == {"idle", "root", "scan", "ready", "begin"}
Looping == {"converge", "armed", "swapped"}
Committing == {"create", "write", "fsync", "dirsync"}
Owning == Looping \union Committing \union {"abort", "rename"}

\* What is visible is one of the things a power failure may leave.
Visible ==
  /\ \A p \in Path : fs[p] \in disk[p]
  /\ \A i \in TxId : /\ name[i] \in dname[i]
                     /\ body[i] \in dbody[i]
                     /\ commit[i] \in dcommit[i]

\* The holder's journal is the only one; without one, Recover has synced the
\* names it scans and Begin starts from an empty root.
Ownership ==
  /\ pc \in Unowned => tx = None
  /\ pc \notin Unowned =>
       tx \in TxId /\ \A i \in TxId : i # tx => dname[i] = {"none"}
  /\ pc = "scan" => \A i \in TxId : dname[i] = {name[i]}
  /\ pc = "begin" => \A i \in TxId : dname[i] = {"none"}

\* Which calls reach which steps.
CallOf ==
  /\ pc \in {"idle", "ready", "begin", "mksync"} => mode = "none"
  /\ pc \in {"root", "scan"} => mode \in {"recover", "resolve"}
  /\ pc \in {"capture", "seal", "publish", "pubsync"} => mode = "begin"
  /\ pc = "undo" => mode = "cleanup"
  /\ pc \in Looping => mode \in {"apply", "abort", "recover", "resolve"}
  /\ pc \in Committing => mode = "commit"
  /\ pc = "abort" => mode = "abort"
  /\ pc \in {"rename", "renamed"} => mode \in {"recover", "resolve", "abort", "finalize"}
  /\ pc \in {"empty", "rmdir", "rmsync"} =>
       mode \in {"recover", "resolve", "abort", "finalize", "cleanup"}
  /\ pc = "done" => mode = "finalize"

\* The name and the members of the holder's journal at each step.
NameOf ==
  /\ pc = "mksync" => name[tx] = "building" /\ dname[tx] \subseteq {"none", "building"}
  /\ pc \in {"capture", "seal", "publish"} =>
       name[tx] = "building" /\ dname[tx] = {"building"}
  /\ pc = "pubsync" => name[tx] = "pending" /\ dname[tx] = {"building", "pending"}
  /\ pc = "undo" =>
       \/ name[tx] = "building" /\ dname[tx] = {"building"}
       \/ name[tx] = "pending" /\ dname[tx] = {"building", "pending"}
  /\ pc \in Owning => name[tx] = "pending" /\ dname[tx] = {"pending"}
  /\ pc = "renamed" => name[tx] = "completed" /\ dname[tx] = {"pending", "completed"}
  /\ pc \in {"empty", "rmdir"} =>
       name[tx] \in {"building", "completed"} /\ dname[tx] = {name[tx]}
  /\ pc = "rmsync" =>
       name[tx] = "none" /\ dname[tx] \subseteq {"none", "building", "completed"}
  /\ pc \in {"seal", "publish"} => body[tx] = "whole"
  /\ pc = "publish" => dbody[tx] = {"whole"}
  /\ pc \in {"seal", "publish", "pubsync"} => \A p \in Mine : before[tx][p] = fs[p]

\* The marker of the holder's journal at each step.
MarkerOf ==
  /\ pc \in {"mksync", "capture", "seal", "publish", "pubsync", "undo", "create", "abort"}
       => dcommit[tx] = {"absent"}
  /\ pc \in Looping /\ mode \in {"apply", "abort"} => dcommit[tx] = {"absent"}
  /\ pc = "write" => commit[tx] = "torn" /\ "valid" \notin dcommit[tx]
  /\ pc \in {"fsync", "dirsync"} => commit[tx] = "valid"
  /\ pc \in {"rename", "renamed"} /\ mode = "finalize" => dcommit[tx] = {"valid"}

\* A decision is never only on disk, and stands on durable data as long as the
\* journal exists under a name that outlives Begin.
Decided ==
  \A i \in TxId : "valid" \in dcommit[i] =>
    /\ MayBePending(i) => commit[i] = "valid"
    /\ MayBePending(i) \/ "completed" \in dname[i] =>
         \A p \in Mine : disk[p] = {after[i][p]}

\* How far the loop has got: what it has left behind is durably at its target.
Progress ==
  /\ pc \in Looping => \A p \in Mine \ todo : disk[p] = {Target[p]}
  /\ pc \in {"armed", "swapped"} => cur \in todo
  /\ pc = "armed" => raced \subseteq {cur} /\ (raced = {} => fs[cur] = Other[cur])
  /\ pc \in {"rename", "renamed"} => \A p \in Mine : disk[p] = {Target[p]}
  /\ pc \in Committing \/ mode = "finalize" => \A p \in Mine : disk[p] = {after[tx][p]}
  /\ pc = "done" => (MayBePending(tx) => dcommit[tx] = {"valid"})

\* Whenever no journal is visible as pending, what hukou wrote is durable.
Settled ==
  (\A i \in TxId : name[i] # "pending") => \A p \in Mine : disk[p] = {fs[p]}

\* A journal that may turn out to be pending or not, depending on what a power
\* failure leaves, stands over files that are as a whole before or as a whole
\* after.  What makes the refinement of AtomicUpdate hold.
Whole ==
  \A i \in TxId : MayBePending(i) /\ dname[i] # {"pending"} =>
    \/ \A p \in Mine : disk[p] = {before[i][p]}
    \/ \A p \in Mine : disk[p] = {after[i][p]}

\* The part that speaks of the files alone, and the part about the holder.
Static ==
  /\ Visible
  /\ OneJournal
  /\ PendingIsLoadable
  /\ AlwaysClassifiable
  /\ Decided
  /\ Settled

Dynamic ==
  /\ Ownership
  /\ CallOf
  /\ NameOf
  /\ MarkerOf
  /\ Progress

IInv == TypeOK /\ Static /\ Dynamic
=============================================================================
