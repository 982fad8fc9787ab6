---------------------------- MODULE JournalProofs ----------------------------
(***************************************************************************)
(* Proof that IInv of module JournalInv is an inductive invariant of Journal *)
(* for every number of participants, journals, contents and faults.         *)
(*                                                                         *)
(* Every step is of one of five kinds (lemma Kinds).  Types and the static   *)
(* part of the invariant are proved kind by kind; the part about the lock    *)
(* holder is proved action by action.                                       *)
(***************************************************************************)
EXTENDS JournalInv, TLAPS

\* The steps that write the journal directory, and those that write a
\* participant; all others only move the holder or sync the root.
JournalWrite ==
  \/ \E i \in TxId : BeginMkdir(i)
  \/ \E new \in [Path -> State] : BeginCapture(new)
  \/ BeginSeal \/ BeginPublish
  \/ CommitCreate \/ CommitWrite \/ CommitSync \/ CommitDirSync
  \/ FinalizeRename \/ RemoveDir
  \/ \E m \in Marker : RemoveMembers(m)

StoreWrite ==
  \/ \E p \in Path : ConvergeMatched(p)
  \/ ConvergeSwap \/ ConvergeSync
  \/ \E p \in External, c \in State : ExternalWrite(p, c)

\* Every step is of one of five kinds.
LEMMA Kinds ==
  ASSUME [Next]_vars
  PROVE  \/ UNCHANGED <<store, journal>>
         \/ SyncRoot /\ UNCHANGED store
         \/ JournalWrite
         \/ StoreWrite
         \/ PowerLoss
<1>1. CASE Recovery
  BY <1>1 DEF Recovery, Acquire, RecoverRoot, RecoverRemove, RecoverLoad, RecoverDone
<1>2. CASE Beginning
  BY <1>2 DEF Beginning, BeginRoot, BeginMkdirSync, BeginPublishSync, BeginUndo,
              JournalWrite
<1>3. CASE Converging
  BY <1>3 DEF Converging, ConvergeArm, ConvergeDrift, ConvergeSwapFails, VerifyAfter,
              VerifyRecovered, StoreWrite
<1>4. CASE Deciding
  BY <1>4 DEF Deciding, GiveUp, Abort, JournalWrite
<1>5. CASE Cleaning
  BY <1>5 DEF Cleaning, FinalizeRenameSync, RemoveSync, Report, Release, JournalWrite
<1>6. CASE Environment
  BY <1>6 DEF Environment, IOError, Crash, StoreWrite
<1>7. CASE UNCHANGED vars
  BY <1>7 DEF vars
<1> QED
  BY <1>1, <1>2, <1>3, <1>4, <1>5, <1>6, <1>7 DEF Next, Hukou

-----------------------------------------------------------------------------
(* The initial states *)

\* The invariant holds in every initial state.
LEMMA InitInv == Init => IInv
<1> SUFFICES ASSUME Init PROVE IInv
  OBVIOUS
<1>1. TypeOK
  <2> USE JournalAssumption DEF Init
  <2>1. StoreTypeOK
    BY DEF StoreTypeOK
  <2>2. JournalTypeOK
    BY DEF JournalTypeOK, State, DirName, Marker, Body, Blank
  <2>3. HolderTypeOK
    BY DEF HolderTypeOK, Steps, Modes
  <2> QED
    BY <2>1, <2>2, <2>3 DEF TypeOK
<1>2. Dynamic
  BY DEF Init, Dynamic, Ownership, CallOf, NameOf, MarkerOf, Progress, Unowned, Looping,
         Committing, Owning
<1>3. Static
  BY DEF Init, Static, Visible, OneJournal, PendingIsLoadable, AlwaysClassifiable,
         Decided, Settled, MayBePending, Mine
<1> QED
  BY <1>1, <1>2, <1>3 DEF IInv

-----------------------------------------------------------------------------
(* Types *)

\* A sync of the root keeps the types of the journals.
LEMMA SyncRootType ==
  ASSUME JournalTypeOK, SyncRoot
  PROVE  JournalTypeOK'
BY DEF SyncRoot, JournalTypeOK, DirName, Body, Marker, State, Blank

\* Every step keeps the types of the participants.
LEMMA StoreTypeStep == IInv /\ [Next]_vars => StoreTypeOK'
<1> SUFFICES ASSUME IInv, [Next]_vars PROVE StoreTypeOK'
  OBVIOUS
<1> USE DEF IInv, TypeOK
<1>1. CASE UNCHANGED store
  BY <1>1 DEF store, StoreTypeOK
<1>2. CASE JournalWrite
  BY <1>2, <1>1 DEF JournalWrite, BeginMkdir, BeginCapture, Capture, BeginSeal, BeginPublish,
     CommitCreate, CommitWrite, CommitSync, CommitDirSync, FinalizeRename, RemoveDir,
     RemoveMembers
<1>3. ASSUME NEW p \in Path, ConvergeMatched(p) PROVE StoreTypeOK'
  BY <1>3 DEF ConvergeMatched, Persist, StoreTypeOK
<1>4. CASE ConvergeSwap
  <2>1. tx \in TxId /\ cur \in Path
    BY <1>4 DEF ConvergeSwap, Dynamic, Ownership, Unowned, Progress, HolderTypeOK
  <2>2. Target[cur] \in State
    BY <2>1 DEF Target, JournalTypeOK
  <2> QED
    BY <1>4, <2>2 DEF ConvergeSwap, StoreTypeOK
<1>5. CASE ConvergeSync
  <2>1. cur \in Path
    BY <1>5 DEF ConvergeSync, Persist, Dynamic, Progress, HolderTypeOK
  <2> QED
    BY <1>5, <2>1 DEF ConvergeSync, Persist, StoreTypeOK
<1>6. ASSUME NEW p \in External, NEW c \in State, ExternalWrite(p, c) PROVE StoreTypeOK'
  BY <1>6, JournalAssumption DEF ExternalWrite, StoreTypeOK
<1>7. CASE PowerLoss
  BY <1>7 DEF PowerLoss, StoreTypeOK
<1> QED
  BY <1>1, <1>2, <1>3, <1>4, <1>5, <1>6, <1>7, Kinds DEF StoreWrite

\* Every step keeps the types of the journals.
LEMMA JournalTypeStep == IInv /\ [Next]_vars => JournalTypeOK'
<1> SUFFICES ASSUME IInv, [Next]_vars PROVE JournalTypeOK'
  OBVIOUS
<1> USE DEF IInv, TypeOK
<1>1. CASE UNCHANGED journal
  BY <1>1 DEF journal, JournalTypeOK
<1>2. CASE SyncRoot
  BY <1>2, SyncRootType
<1>3. CASE StoreWrite
  BY <1>3, <1>1 DEF StoreWrite, ConvergeMatched, Persist, ConvergeSwap, ConvergeSync, ExternalWrite
<1>4. CASE PowerLoss
  BY <1>4 DEF PowerLoss, JournalTypeOK, DirName, Body, Marker
<1>5. CASE JournalWrite
  <2> USE DEF JournalTypeOK, Rename, DirName, Body, Marker
  <2>1. ASSUME NEW i \in TxId, BeginMkdir(i) PROVE JournalTypeOK'
    BY <2>1 DEF BeginMkdir
  <2>2. ASSUME NEW new \in [Path -> State], BeginCapture(new) PROVE JournalTypeOK'
    BY <2>2 DEF BeginCapture, Capture, StoreTypeOK
  <2>3. CASE BeginSeal
    BY <2>3 DEF BeginSeal
  <2>4. CASE BeginPublish \/ FinalizeRename \/ RemoveDir
    <3>1. PICK n \in DirName : name' = [name EXCEPT ![tx] = n]
                               /\ dname' = [dname EXCEPT ![tx] = @ \union {n}]
      BY <2>4 DEF BeginPublish, FinalizeRename, RemoveDir
    <3> QED
      BY <2>4, <3>1 DEF BeginPublish, FinalizeRename, RemoveDir
  <2>5. CASE CommitCreate
    BY <2>5 DEF CommitCreate
  <2>6. CASE CommitWrite
    BY <2>6 DEF CommitWrite
  <2>7. CASE CommitSync
    BY <2>7 DEF CommitSync
  <2>8. CASE CommitDirSync
    BY <2>8 DEF CommitDirSync
  <2>9. ASSUME NEW m \in Marker, RemoveMembers(m) PROVE JournalTypeOK'
    BY <2>9 DEF RemoveMembers
  <2> QED
    BY <1>5, <2>1, <2>2, <2>3, <2>4, <2>5, <2>6, <2>7, <2>8, <2>9 DEF JournalWrite
<1> QED
  BY <1>1, <1>2, <1>3, <1>4, <1>5, Kinds

\* The error path and the entry of a loop keep the holder's types.
LEMMA OnErrorType ==
  ASSUME HolderTypeOK, OnError
  PROVE  HolderTypeOK'
BY DEF HolderTypeOK, OnError, Call, Steps, Modes

LEMMA LoopType ==
  ASSUME HolderTypeOK, NEW m \in Modes, NEW i \in TxId \union {None}, Loop(m, i)
  PROVE  HolderTypeOK'
BY DEF HolderTypeOK, Loop, Steps, Modes

\* Every step keeps the types of the lock holder's variables.
LEMMA HolderTypeStep == IInv /\ [Next]_vars => HolderTypeOK'
<1> SUFFICES ASSUME IInv, [Next]_vars PROVE HolderTypeOK'
  OBVIOUS
<1>0. HolderTypeOK
  BY DEF IInv, TypeOK
<1>1. CASE Recovery
  <2>1. ASSUME NEW i \in TxId, RecoverLoad(i) PROVE HolderTypeOK'
    BY <1>0, <2>1, OnErrorType, LoopType DEF RecoverLoad, HolderTypeOK
  <2>2. ASSUME NEW i \in TxId, RecoverRemove(i) PROVE HolderTypeOK'
    BY <1>0, <2>2 DEF RecoverRemove, Call, HolderTypeOK, Steps, Modes
  <2> QED
    BY <1>0, <1>1, <2>1, <2>2 DEF Recovery, Acquire, RecoverRoot, RecoverDone, Call, Goto,
       HolderTypeOK, Steps, Modes
<1>2. CASE Beginning
  <2>1. CASE BeginPublishSync
    BY <1>0, <2>1, LoopType DEF BeginPublishSync, HolderTypeOK, Modes
  <2>2. ASSUME NEW i \in TxId, BeginMkdir(i) PROVE HolderTypeOK'
    BY <1>0, <2>2 DEF BeginMkdir, Call, HolderTypeOK, Steps, Modes
  <2>3. CASE BeginRoot \/ BeginMkdirSync \/ BeginSeal \/ BeginPublish \/ BeginUndo
    BY <1>0, <2>3 DEF BeginRoot, BeginMkdirSync, BeginSeal, BeginPublish, BeginUndo,
       Call, Goto, HolderTypeOK, Steps, Modes
  <2>4. ASSUME NEW new \in [Path -> State], BeginCapture(new) PROVE HolderTypeOK'
    BY <1>0, <2>4 DEF BeginCapture, Capture, Goto, HolderTypeOK, Steps
  <2> QED
    BY <1>2, <2>1, <2>2, <2>3, <2>4 DEF Beginning
<1>3. CASE Converging
  <2>1. ASSUME NEW p \in Path, ConvergeMatched(p) \/ ConvergeArm(p) PROVE HolderTypeOK'
    BY <1>0, <2>1 DEF ConvergeMatched, Persist, ConvergeArm, HolderTypeOK, Steps
  <2>2. ASSUME NEW p \in Path, ConvergeDrift(p) PROVE HolderTypeOK'
    BY <1>0, <2>2, OnErrorType DEF ConvergeDrift
  <2>3. CASE ConvergeSwap \/ ConvergeSwapFails \/ ConvergeSync
    BY <1>0, <2>3, OnErrorType DEF ConvergeSwap, ConvergeSwapFails, ConvergeSync, Persist, Goto,
       HolderTypeOK, Steps
  <2>4. CASE VerifyAfter \/ VerifyRecovered
    BY <1>0, <2>4, OnErrorType DEF VerifyAfter, VerifyRecovered, Call, Goto,
       HolderTypeOK, Steps, Modes
  <2> QED
    BY <1>3, <2>1, <2>2, <2>3, <2>4 DEF Converging
<1>4. CASE Deciding
  <2>1. CASE GiveUp \/ Abort
    BY <1>0, <2>1, OnErrorType, LoopType DEF GiveUp, Abort, HolderTypeOK, Modes
  <2>2. CASE CommitCreate \/ CommitWrite \/ CommitSync \/ CommitDirSync
    BY <1>0, <2>2 DEF CommitCreate, CommitWrite, CommitSync, CommitDirSync, Call, Goto,
       HolderTypeOK, Steps, Modes
  <2> QED
    BY <1>4, <2>1, <2>2 DEF Deciding
<1>5. CASE Cleaning
  BY <1>0, <1>5 DEF Cleaning, FinalizeRename, FinalizeRenameSync, RemoveMembers, RemoveDir,
     RemoveSync, Report, Release, Call, Goto, HolderTypeOK, Steps, Modes
<1>6. CASE Environment
  <2>1. ASSUME NEW p \in External, NEW c \in State, ExternalWrite(p, c)
        PROVE  HolderTypeOK'
    BY <1>0, <2>1, JournalAssumption DEF ExternalWrite, HolderTypeOK
  <2> QED
    BY <1>0, <1>6, <2>1, OnErrorType DEF Environment, IOError, Crash, PowerLoss, Killed,
       Call, HolderTypeOK, Steps, Modes
<1>7. CASE UNCHANGED vars
  BY <1>0, <1>7 DEF vars, holder, HolderTypeOK
<1> QED
  BY <1>1, <1>2, <1>3, <1>4, <1>5, <1>6, <1>7 DEF Next, Hukou

\* The count of faults stays within its bound.
LEMMA FaultsStep == IInv /\ [Next]_vars => faults' \in 0..MaxFaults
<1> SUFFICES ASSUME IInv, [Next]_vars PROVE faults' \in 0..MaxFaults
  OBVIOUS
<1>1. CASE UNCHANGED faults
  BY <1>1 DEF IInv, TypeOK
<1>2. CASE Environment
  BY <1>2, JournalAssumption DEF IInv, TypeOK, Environment, IOError, Crash, PowerLoss,
     ExternalWrite, Fault
<1>3. CASE Recovery \/ Beginning
  BY <1>1, <1>3 DEF Recovery, Acquire, RecoverRoot, RecoverRemove, RecoverLoad, RecoverDone,
     Beginning, BeginRoot, BeginMkdir, BeginMkdirSync, BeginCapture, Capture, BeginSeal,
     BeginPublish, BeginPublishSync, BeginUndo
<1>4. CASE Converging \/ Deciding
  BY <1>1, <1>4 DEF Converging, ConvergeMatched, Persist, ConvergeArm, ConvergeDrift, ConvergeSwap,
     ConvergeSwapFails, ConvergeSync, VerifyAfter, VerifyRecovered, Deciding,
     CommitCreate, CommitWrite, CommitSync, CommitDirSync, GiveUp, Abort
<1>5. CASE Cleaning
  BY <1>1, <1>5 DEF Cleaning, FinalizeRename, FinalizeRenameSync, RemoveMembers, RemoveDir,
     RemoveSync, Report, Release
<1> QED
  BY <1>1, <1>2, <1>3, <1>4, <1>5 DEF Next, Hukou, vars

\* Type correctness is preserved by every step.
LEMMA TypeStep == IInv /\ [Next]_vars => TypeOK'
BY StoreTypeStep, JournalTypeStep, HolderTypeStep, FaultsStep DEF TypeOK

-----------------------------------------------------------------------------
(* The static part of the invariant *)

\* A step of the holder alone keeps the static part.
LEMMA StaticFrame == Static /\ UNCHANGED <<store, journal>> => Static'
BY DEF store, journal, Static, Visible, OneJournal, PendingIsLoadable, AlwaysClassifiable,
       Decided, Settled, MayBePending

\* A sync of the root only forgets names that are no longer visible.
LEMMA SyncRootStatic ==
  ASSUME JournalTypeOK, Static, SyncRoot, UNCHANGED store
  PROVE  Static'
<1>1. Visible'
  BY DEF SyncRoot, store, Static, Visible, JournalTypeOK
<1>2. OneJournal'
  BY DEF SyncRoot, Static, Visible, OneJournal, JournalTypeOK
<1>3. PendingIsLoadable'
  BY DEF SyncRoot, Gone, Static, Visible, PendingIsLoadable, MayBePending, JournalTypeOK
<1>4. AlwaysClassifiable'
  BY DEF SyncRoot, Gone, store, Static, Visible, AlwaysClassifiable, MayBePending, JournalTypeOK
<1>5. Decided'
  BY DEF SyncRoot, Gone, store, Static, Visible, Decided, MayBePending, JournalTypeOK
<1>6. Settled'
  BY DEF SyncRoot, store, Static, Settled
<1> QED
  BY <1>1, <1>2, <1>3, <1>4, <1>5, <1>6 DEF Static

\* While the holder owns a journal no other exists, so the static part is a
\* matter of that journal alone.
LEMMA OwnStatic ==
  ASSUME IInv, pc \notin Unowned, Visible',
         \A i \in TxId : i # tx => dname'[i] = dname[i],
         "pending" \in dname'[tx] =>
           /\ body'[tx] = "whole" /\ dbody'[tx] = {"whole"}
           /\ \A p \in Mine : disk'[p] \subseteq {before'[tx][p], after'[tx][p]}
           /\ "valid" \in dcommit'[tx] => commit'[tx] = "valid",
         "valid" \in dcommit'[tx] /\ dname'[tx] \cap {"pending", "completed"} # {} =>
           \A p \in Mine : disk'[p] = {after'[tx][p]},
         name'[tx] # "pending" => \A p \in Mine : disk'[p] = {fs'[p]}
  PROVE  Static'
<1>1. tx \in TxId /\ \A i \in TxId : i # tx => dname'[i] = {"none"}
  BY DEF IInv, Dynamic, Ownership
<1>2. OneJournal'
  BY <1>1 DEF OneJournal
<1>3. PendingIsLoadable' /\ AlwaysClassifiable'
  BY <1>1 DEF PendingIsLoadable, AlwaysClassifiable, MayBePending, Mine
<1>4. Decided'
  BY <1>1 DEF Decided, MayBePending
<1>5. Settled'
  BY <1>1 DEF Settled
<1> QED
  BY <1>2, <1>3, <1>4, <1>5 DEF Static

\* What IInv says of the holder's own journal.
LEMMA Own ==
  ASSUME IInv, pc \notin Unowned
  PROVE  /\ tx \in TxId
         /\ \A i \in TxId : i # tx => dname[i] = {"none"}
         /\ name[tx] \in dname[tx] /\ body[tx] \in dbody[tx] /\ commit[tx] \in dcommit[tx]
         /\ "pending" \in dname[tx] =>
              /\ body[tx] = "whole" /\ dbody[tx] = {"whole"}
              /\ \A p \in Mine : disk[p] \subseteq {before[tx][p], after[tx][p]}
              /\ "valid" \in dcommit[tx] => commit[tx] = "valid"
         /\ "valid" \in dcommit[tx] /\ dname[tx] \cap {"pending", "completed"} # {} =>
              \A p \in Mine : disk[p] = {after[tx][p]}
         /\ name[tx] # "pending" => \A p \in Mine : disk[p] = {fs[p]}
<1>1. tx \in TxId /\ \A i \in TxId : i # tx => dname[i] = {"none"}
  BY DEF IInv, Dynamic, Ownership
<1>2. \A i \in TxId : name[i] \in dname[i] /\ body[i] \in dbody[i] /\ commit[i] \in dcommit[i]
  BY DEF IInv, Static, Visible
<1>3. name[tx] # "pending" => \A p \in Mine : disk[p] = {fs[p]}
  BY <1>1, <1>2 DEF IInv, Static, Settled
<1> QED
  BY <1>1, <1>2, <1>3 DEF IInv, Static, PendingIsLoadable, AlwaysClassifiable, Decided,
     MayBePending, Mine

\* A step that writes the journal directory keeps the static part.
LEMMA JournalWriteStatic == IInv /\ JournalWrite => Static'
<1> SUFFICES ASSUME IInv, JournalWrite PROVE Static'
  OBVIOUS
<1> USE DEF IInv, TypeOK, JournalTypeOK
<1>1. ASSUME NEW i \in TxId, BeginMkdir(i) PROVE Static'
  <2>1. \A j \in TxId : /\ dname[j] = {"none"} /\ name[j] = "none"
                        /\ body[j] \in dbody[j] /\ commit[j] \in dcommit[j]
    BY <1>1 DEF BeginMkdir, Dynamic, Ownership, Static, Visible
  <2>2. \A j \in TxId : j # i => dname'[j] = {"none"}
    BY <1>1, <2>1 DEF BeginMkdir, Rename
  <2>3. dname'[i] = {"none", "building"} /\ dcommit'[i] = {"absent"}
    BY <1>1, <2>1 DEF BeginMkdir, Rename
  <2>4. Visible'
    BY <1>1, <2>1 DEF BeginMkdir, Rename, store, Static, Visible
  <2>5. OneJournal' /\ PendingIsLoadable' /\ AlwaysClassifiable' /\ Decided'
    <3>1. \A j \in TxId : ~MayBePending(j)'
      BY <2>2, <2>3 DEF MayBePending
    <3>2. \A j \in TxId : "completed" \notin dname'[j]
      BY <2>2, <2>3
    <3>3. OneJournal'
      BY <2>2 DEF OneJournal
    <3> QED
      BY <3>1, <3>2, <3>3 DEF PendingIsLoadable, AlwaysClassifiable, Decided
  <2>6. \A p \in Mine : disk[p] = {fs[p]}
    BY <2>1 DEF Static, Settled
  <2>7. Settled'
    BY <1>1, <2>6 DEF BeginMkdir, store, Settled
  <2> QED
    BY <2>4, <2>5, <2>7 DEF Static
<1>2. ASSUME NEW new \in [Path -> State], BeginCapture(new) PROVE Static'
  <2>1. pc \notin Unowned /\ name[tx] = "building" /\ dname[tx] = {"building"}
        /\ dcommit[tx] = {"absent"}
    BY <1>2 DEF BeginCapture, Capture, Unowned, Dynamic, NameOf, MarkerOf
  <2>2. Visible'
    BY <1>2, <2>1, Own DEF BeginCapture, Capture, store, Static, Visible
  <2> QED
    BY <1>2, <2>1, <2>2, Own, OwnStatic DEF BeginCapture, Capture, store
<1>3. CASE BeginSeal
  <2>1. pc \notin Unowned /\ name[tx] = "building" /\ dname[tx] = {"building"}
        /\ dcommit[tx] = {"absent"}
    BY <1>3 DEF BeginSeal, Unowned, Dynamic, NameOf, MarkerOf
  <2>2. Visible'
    BY <1>3, <2>1, Own DEF BeginSeal, store, Static, Visible
  <2> QED
    BY <1>3, <2>1, <2>2, Own, OwnStatic DEF BeginSeal, store
<1>4. CASE BeginPublish
  <2>1. /\ pc \notin Unowned /\ name[tx] = "building" /\ dname[tx] = {"building"}
        /\ dcommit[tx] = {"absent"} /\ body[tx] = "whole" /\ dbody[tx] = {"whole"}
        /\ \A p \in Mine : before[tx][p] = fs[p]
    BY <1>4 DEF BeginPublish, Unowned, Dynamic, NameOf, MarkerOf
  <2>2. Visible'
    BY <1>4, <2>1, Own DEF BeginPublish, Rename, store, Static, Visible
  <2>3. \A p \in Mine : disk[p] = {before[tx][p]}
    BY <2>1, Own
  <2>4. name'[tx] = "pending" /\ \A i \in TxId : i # tx => dname'[i] = dname[i]
    BY <1>4, <2>1, Own DEF BeginPublish, Rename
  <2> QED
    BY <1>4, <2>1, <2>2, <2>3, <2>4, OwnStatic DEF BeginPublish, store
<1>5. CASE CommitCreate \/ CommitWrite \/ CommitSync \/ CommitDirSync
  <2>1. /\ pc \notin Unowned /\ name[tx] = "pending" /\ dname[tx] = {"pending"}
        /\ \A p \in Mine : disk[p] = {after[tx][p]}
        /\ pc = "create" => dcommit[tx] = {"absent"}
        /\ pc = "write" => commit[tx] = "torn" /\ "valid" \notin dcommit[tx]
        /\ pc \in {"fsync", "dirsync"} => commit[tx] = "valid"
    BY <1>5 DEF CommitCreate, CommitWrite, CommitSync, CommitDirSync, Unowned, Committing,
       Owning, Dynamic, NameOf, MarkerOf, Progress
  <2>2. Visible'
    <3>1. /\ UNCHANGED <<store, name, dname, body, dbody>>
          /\ \A i \in TxId : i # tx => commit'[i] = commit[i] /\ dcommit'[i] = dcommit[i]
      BY <1>5 DEF CommitCreate, CommitWrite, CommitSync, CommitDirSync
    <3>2. commit'[tx] \in dcommit'[tx]
      BY <1>5, <2>1, Own DEF CommitCreate, CommitWrite, CommitSync, CommitDirSync
    <3> QED
      BY <3>1, <3>2 DEF Static, Visible, store
  <2>3. "valid" \in dcommit'[tx] => commit'[tx] = "valid"
    BY <1>5, <2>1, Own DEF CommitCreate, CommitWrite, CommitSync, CommitDirSync
  <2>4. UNCHANGED <<store, name, dname, body, dbody, before, after>>
    BY <1>5 DEF CommitCreate, CommitWrite, CommitSync, CommitDirSync
  <2> QED
    BY <2>1, <2>2, <2>3, <2>4, Own, OwnStatic DEF store
<1>6. CASE FinalizeRename
  <2>1. /\ pc \notin Unowned /\ name[tx] = "pending" /\ dname[tx] = {"pending"}
        /\ \A p \in Mine : disk[p] = {Target[p]}
        /\ mode # "apply"
    BY <1>6 DEF FinalizeRename, Unowned, Owning, Dynamic, NameOf, CallOf, Progress
  <2>2. Visible'
    BY <1>6, <2>1, Own DEF FinalizeRename, Rename, store, Static, Visible
  <2>3. "valid" \in dcommit[tx] => \A p \in Mine : disk[p] = {after[tx][p]}
    BY <2>1, Own
  <2>4. \A p \in Mine : disk[p] = {fs[p]}
    BY <2>1 DEF Static, Visible, Mine
  <2>5. /\ name'[tx] = "completed" /\ dname'[tx] = {"pending", "completed"}
        /\ \A i \in TxId : i # tx => dname'[i] = dname[i]
    BY <1>6, <2>1, Own DEF FinalizeRename, Rename
  <2> QED
    BY <1>6, <2>1, <2>2, <2>3, <2>4, <2>5, Own, OwnStatic DEF FinalizeRename, store
<1>7. ASSUME NEW m \in Marker, RemoveMembers(m) PROVE Static'
  <2>1. /\ pc \notin Unowned /\ name[tx] \in {"building", "completed"}
        /\ dname[tx] = {name[tx]}
    BY <1>7 DEF RemoveMembers, Unowned, Dynamic, NameOf
  <2>2. Visible'
    BY <1>7, <2>1, Own DEF RemoveMembers, store, Static, Visible
  <2>3. "valid" \in dcommit'[tx] => "valid" \in dcommit[tx]
    BY <1>7, Own, <2>1 DEF RemoveMembers
  <2> QED
    BY <1>7, <2>1, <2>2, <2>3, Own, OwnStatic DEF RemoveMembers, store
<1>8. CASE RemoveDir
  <2>1. /\ pc \notin Unowned /\ name[tx] \in {"building", "completed"}
        /\ dname[tx] = {name[tx]}
    BY <1>8 DEF RemoveDir, Unowned, Dynamic, NameOf
  <2>2. Visible'
    BY <1>8, <2>1, Own DEF RemoveDir, Rename, store, Static, Visible
  <2>3. /\ name'[tx] = "none" /\ dname'[tx] = {name[tx], "none"}
        /\ \A i \in TxId : i # tx => dname'[i] = dname[i]
    BY <1>8, <2>1, Own DEF RemoveDir, Rename
  <2> QED
    BY <1>8, <2>1, <2>2, <2>3, Own, OwnStatic DEF RemoveDir, store
<1> QED
  BY <1>1, <1>2, <1>3, <1>4, <1>5, <1>6, <1>7, <1>8 DEF JournalWrite

\* A step that writes a participant keeps the static part.
LEMMA StoreWriteStatic == IInv /\ StoreWrite => Static'
<1> SUFFICES ASSUME IInv, StoreWrite PROVE Static'
  OBVIOUS
<1> USE DEF IInv, TypeOK, StoreTypeOK
<1>1. UNCHANGED journal
  BY DEF StoreWrite, ConvergeMatched, Persist, ConvergeSwap, ConvergeSync, ExternalWrite
<1>2. CASE pc \in Looping /\ (ConvergeSwap \/ ConvergeSync \/ \E p \in Path : ConvergeMatched(p))
  <2>1. /\ pc \notin Unowned /\ name[tx] = "pending" /\ dname[tx] = {"pending"}
        /\ mode = "apply" => dcommit[tx] = {"absent"}
        /\ \A p \in Mine \ todo : disk[p] = {Target[p]}
    BY <1>2 DEF Looping, Unowned, Owning, Dynamic, NameOf, MarkerOf, Progress
  <2>2. \A p \in Mine : Target[p] \in {before[tx][p], after[tx][p]}
    BY DEF Target
  <2>3. "valid" \in dcommit[tx] => Target = after[tx]
    BY <2>1, Own DEF Target
  <2>4. \A p \in Path : disk'[p] = disk[p] \/ disk'[p] = disk[p] \union {Target[p]}
                        \/ disk'[p] = {fs[p]}
    BY <1>2 DEF ConvergeSwap, ConvergeSync, ConvergeMatched, Persist
  <2>5. \A p \in Path : fs'[p] \in disk'[p]
    BY <1>2 DEF ConvergeSwap, ConvergeSync, ConvergeMatched, Persist, Static, Visible
  <2>6. Visible'
    BY <1>1, <2>5 DEF journal, Static, Visible
  <2>7. \A p \in Mine : disk'[p] \subseteq {before[tx][p], after[tx][p]}
    BY <2>1, <2>2, <2>4, Own DEF Static, Visible, Mine
  <2>8. "valid" \in dcommit[tx] => \A p \in Mine : disk'[p] = {after[tx][p]}
    BY <2>1, <2>3, <2>4, Own DEF Static, Visible, Mine
  <2> QED
    BY <1>1, <2>1, <2>6, <2>7, <2>8, Own, OwnStatic DEF journal
<1>3. ASSUME NEW p \in External, NEW c \in State, ExternalWrite(p, c) PROVE Static'
  <2>1. \A q \in Mine : disk'[q] = disk[q] /\ fs'[q] = fs[q]
    BY <1>3 DEF ExternalWrite, Mine
  <2>2. \A q \in Path : fs'[q] \in disk'[q]
    BY <1>3 DEF ExternalWrite, Static, Visible
  <2>3. Visible'
    BY <1>1, <2>2 DEF journal, Static, Visible
  <2>4. OneJournal' /\ PendingIsLoadable'
    BY <1>1 DEF journal, Static, OneJournal, PendingIsLoadable, MayBePending
  <2>5. AlwaysClassifiable'
    BY <1>1, <2>1 DEF journal, Static, AlwaysClassifiable, MayBePending, Mine
  <2>6. Decided'
    BY <1>1, <2>1 DEF journal, Static, Decided, MayBePending
  <2>7. Settled'
    BY <1>1, <2>1 DEF journal, Static, Settled
  <2> QED
    BY <2>3, <2>4, <2>5, <2>6, <2>7 DEF Static
<1> QED
  BY <1>2, <1>3 DEF StoreWrite, ConvergeMatched, Persist, ConvergeSwap, ConvergeSync, Looping

\* A power failure leaves nothing the static part had not allowed for.
LEMMA PowerLossStatic == IInv /\ PowerLoss => Static'
<1> SUFFICES ASSUME IInv, PowerLoss PROVE Static'
  OBVIOUS
<1> USE DEF IInv, TypeOK, StoreTypeOK, JournalTypeOK, PowerLoss
<1>1. Visible'
  BY DEF Visible
<1>2. \A i \in TxId : name'[i] \in dname[i] /\ dname'[i] = {name'[i]}
  OBVIOUS
<1>3. \A p \in Path : fs'[p] \in disk[p] /\ disk'[p] = {fs'[p]}
  OBVIOUS
<1>4. OneJournal'
  <2>1. \A i \in TxId : dname[i] = {"none"} => dname'[i] = {"none"}
    BY <1>2
  <2> QED
    BY <2>1 DEF OneJournal, Static
<1>5. PendingIsLoadable'
  BY <1>2 DEF PendingIsLoadable, MayBePending, Static
<1>6. AlwaysClassifiable'
  BY <1>2, <1>3 DEF AlwaysClassifiable, MayBePending, Static
<1>7. Decided'
  BY <1>2, <1>3 DEF Decided, MayBePending, Mine, Static
<1>8. Settled'
  BY <1>3 DEF Settled, Mine
<1> QED
  BY <1>1, <1>4, <1>5, <1>6, <1>7, <1>8 DEF Static

\* The static part is preserved by every step.
LEMMA StaticStep == IInv /\ [Next]_vars => Static'
BY Kinds, StaticFrame, SyncRootStatic, JournalWriteStatic, StoreWriteStatic, PowerLossStatic
   DEF IInv, TypeOK

-----------------------------------------------------------------------------
(* The part of the invariant about the lock holder *)

\* Between two journals nothing is asked of the holder but its call.
LEMMA RestDynamic ==
  ASSUME \/ pc' \in {"idle", "ready"} /\ mode' = "none"
         \/ pc' = "root" /\ mode' \in {"recover", "resolve"},
         tx' = None
  PROVE  Dynamic'
BY DEF Dynamic, Ownership, CallOf, NameOf, MarkerOf, Progress, Unowned, Looping, Committing,
       Owning

\* The error path of every call leads to a step whose conditions hold.
LEMMA OnErrorDynamic ==
  ASSUME IInv, OnError, UNCHANGED <<store, journal>>, pc \notin {"idle", "ready", "done"}
  PROVE  Dynamic'
<1> USE DEF IInv, TypeOK, Dynamic
<1>1. CASE mode \in {"none", "recover", "commit", "resolve", "cleanup", "abort"}
  BY <1>1, RestDynamic DEF OnError, Call
<1>2. CASE mode = "begin"
  <2>1. pc \in {"capture", "seal", "publish", "pubsync"}
    BY <1>2 DEF CallOf, HolderTypeOK, Steps, Looping, Committing
  <2>2. pc' = "undo" /\ mode' = "cleanup" /\ tx' = tx
    BY <1>2 DEF OnError, Call
  <2>3. Ownership' /\ CallOf' /\ Progress'
    BY <2>1, <2>2 DEF Ownership, CallOf, Progress, Unowned, Looping, Committing, journal
  <2>4. NameOf'
    BY <2>1, <2>2 DEF NameOf, Owning, Looping, Committing, journal
  <2>5. MarkerOf'
    BY <2>1, <2>2 DEF MarkerOf, Looping, journal
  <2> QED
    BY <2>3, <2>4, <2>5
<1>3. CASE mode = "apply"
  <2>1. pc \in Looping
    BY <1>3 DEF CallOf, HolderTypeOK, Steps, Looping, Committing
  <2>2. pc' = "abort" /\ mode' = "abort" /\ tx' = tx
    BY <1>3 DEF OnError, Call
  <2>3. Ownership' /\ CallOf' /\ Progress'
    BY <2>1, <2>2 DEF Ownership, CallOf, Progress, Unowned, Looping, Committing, journal
  <2>4. NameOf'
    BY <2>1, <2>2 DEF NameOf, Owning, Looping, Committing, journal
  <2>5. MarkerOf'
    BY <1>3, <2>1, <2>2 DEF MarkerOf, Looping, journal
  <2> QED
    BY <2>3, <2>4, <2>5
<1>4. CASE mode = "finalize"
  <2>1. pc \in {"rename", "renamed", "empty", "rmdir", "rmsync"}
    BY <1>4 DEF CallOf, HolderTypeOK, Steps, Looping, Committing
  <2>2. pc' = "done" /\ mode' = "finalize" /\ tx' = tx
    BY <1>4 DEF OnError, Call
  <2>3. Ownership' /\ CallOf' /\ NameOf' /\ MarkerOf'
    BY <2>1, <2>2 DEF Ownership, CallOf, NameOf, MarkerOf, Unowned, Looping, Committing,
       Owning, journal
  <2>4. MayBePending(tx) => dcommit[tx] = {"valid"}
    BY <1>4, <2>1 DEF MayBePending, NameOf, MarkerOf
  <2>5. Progress'
    BY <1>4, <2>2, <2>4 DEF Progress, MayBePending, Looping, Committing, store, journal
  <2> QED
    BY <2>3, <2>5
<1> QED
  BY <1>1, <1>2, <1>3, <1>4 DEF OnError

\* Recovery's steps find the holder as its invariant says.
LEMMA RecoveryDynamic == IInv /\ Recovery => Dynamic'
<1> SUFFICES ASSUME IInv, Recovery PROVE Dynamic'
  OBVIOUS
<1> USE DEF IInv, TypeOK, Dynamic
<1>1. CASE Acquire \/ RecoverDone
  BY <1>1, RestDynamic DEF Acquire, RecoverDone, Call
<1>2. CASE RecoverRoot
  <2>1. /\ pc = "root" /\ pc' = "scan" /\ UNCHANGED <<mode, tx>>
        /\ \A i \in TxId : dname'[i] = {name'[i]}
    BY <1>2 DEF RecoverRoot, Goto, SyncRoot
  <2>2. Ownership' /\ CallOf'
    BY <2>1 DEF Ownership, CallOf, Unowned, Looping, Committing
  <2>3. NameOf' /\ MarkerOf' /\ Progress'
    BY <2>1 DEF CallOf, NameOf, MarkerOf, Progress, Looping, Committing, Owning
  <2> QED
    BY <2>2, <2>3
<1>3. ASSUME NEW i \in TxId, RecoverRemove(i) PROVE Dynamic'
  <2>1. /\ pc = "scan" /\ pc' = "empty" /\ mode' = mode /\ tx' = i
        /\ name[i] \in {"building", "completed"} /\ UNCHANGED <<store, journal>>
    BY <1>3 DEF RecoverRemove, Call
  <2>2. \A j \in TxId : dname[j] = {name[j]}
    BY <2>1 DEF Ownership
  <2>3. \A j \in TxId : j # i => dname[j] = {"none"}
    BY <2>1, <2>2 DEF Static, OneJournal
  <2>4. Ownership' /\ CallOf'
    BY <2>1, <2>3 DEF Ownership, CallOf, Unowned, Looping, Committing, journal
  <2>5. NameOf' /\ MarkerOf' /\ Progress'
    BY <2>1, <2>2 DEF CallOf, NameOf, MarkerOf, Progress, Looping, Committing, Owning, journal
  <2> QED
    BY <2>4, <2>5
<1>4. ASSUME NEW i \in TxId, RecoverLoad(i) PROVE Dynamic'
  <2>1. CASE OnError
    BY <1>4, <2>1, OnErrorDynamic DEF RecoverLoad
  <2>2. CASE Loop(mode, i)
    <3>1. /\ pc = "scan" /\ pc' = "converge" /\ mode' = mode /\ tx' = i /\ todo' = Path
          /\ name[i] = "pending" /\ UNCHANGED <<store, journal>>
      BY <1>4, <2>2 DEF RecoverLoad, Loop
    <3>2. \A j \in TxId : dname[j] = {name[j]}
      BY <3>1 DEF Ownership
    <3>3. \A j \in TxId : j # i => dname[j] = {"none"}
      BY <3>1, <3>2 DEF Static, OneJournal
    <3>4. Ownership' /\ CallOf'
      BY <3>1, <3>3 DEF Ownership, CallOf, Unowned, Looping, Committing, journal
    <3>5. NameOf' /\ MarkerOf'
      BY <3>1, <3>2 DEF CallOf, NameOf, MarkerOf, Looping, Committing, Owning, journal
    <3>6. Progress'
      BY <3>1 DEF CallOf, Progress, Looping, Committing, Mine
    <3> QED
      BY <3>4, <3>5, <3>6
  <2> QED
    BY <1>4, <2>1, <2>2 DEF RecoverLoad
<1> QED
  BY <1>1, <1>2, <1>3, <1>4 DEF Recovery

\* So do the steps of Begin.
LEMMA BeginningDynamic == IInv /\ Beginning => Dynamic'
<1> SUFFICES ASSUME IInv, Beginning PROVE Dynamic'
  OBVIOUS
<1> USE DEF IInv, TypeOK, Dynamic
<1>1. CASE BeginRoot
  <2>1. CASE NeedsRecovery
    BY <1>1, <2>1, RestDynamic DEF BeginRoot, Goto, Ownership, CallOf, Unowned
  <2>2. CASE ~NeedsRecovery
    <3>1. /\ pc = "ready" /\ pc' = "begin" /\ UNCHANGED <<mode, tx>>
          /\ \A i \in TxId : dname'[i] = {"none"}
      BY <1>1, <2>2 DEF BeginRoot, Goto, SyncRoot, NeedsRecovery
    <3>2. Ownership' /\ CallOf'
      BY <3>1 DEF Ownership, CallOf, Unowned, Looping, Committing
    <3>3. NameOf' /\ MarkerOf' /\ Progress'
      BY <3>1 DEF CallOf, NameOf, MarkerOf, Progress, Looping, Committing, Owning
    <3> QED
      BY <3>2, <3>3
  <2> QED
    BY <2>1, <2>2
<1>2. ASSUME NEW i \in TxId, BeginMkdir(i) PROVE Dynamic'
  <2>1. \A j \in TxId : dname[j] = {"none"}
    BY <1>2 DEF BeginMkdir, Ownership
  <2>2. /\ pc' = "mksync" /\ mode' = "none" /\ tx' = i
        /\ name'[i] = "building" /\ dname'[i] = {"none", "building"}
        /\ dcommit'[i] = {"absent"}
        /\ \A j \in TxId : j # i => dname'[j] = {"none"}
    BY <1>2, <2>1 DEF BeginMkdir, Rename, Call, JournalTypeOK
  <2>3. Ownership' /\ CallOf'
    BY <2>2 DEF Ownership, CallOf, Unowned, Looping, Committing
  <2>4. NameOf' /\ MarkerOf' /\ Progress'
    BY <2>2 DEF NameOf, MarkerOf, Progress, Looping, Committing, Owning
  <2> QED
    BY <2>3, <2>4
<1>3. CASE BeginMkdirSync
  <2>1. /\ pc = "mksync" /\ pc' = "capture" /\ mode' = "begin" /\ tx' = tx
        /\ name' = name /\ dname' = [i \in TxId |-> {name[i]}]
        /\ name[tx] = "building" /\ tx \in TxId
    BY <1>3 DEF BeginMkdirSync, Call, SyncRoot, NameOf, Ownership, Unowned
  <2>2. Ownership' /\ CallOf'
    BY <2>1, Own DEF Ownership, CallOf, Unowned, Looping, Committing, Static, Visible
  <2>3. NameOf' /\ Progress'
    BY <2>1 DEF NameOf, Progress, Looping, Committing, Owning
  <2>4. dcommit'[tx] = {"absent"}
    BY <1>3, <2>1 DEF BeginMkdirSync, SyncRoot, Gone, MarkerOf
  <2>5. MarkerOf'
    BY <2>1, <2>4 DEF MarkerOf, Looping
  <2> QED
    BY <2>2, <2>3, <2>5
<1>4. ASSUME NEW new \in [Path -> State], BeginCapture(new) PROVE Dynamic'
  <2>1. /\ pc = "capture" /\ pc' = "seal" /\ UNCHANGED <<mode, tx, store, name, dname, commit, dcommit>>
        /\ body'[tx] = "whole" /\ before'[tx] = fs /\ tx \in TxId
    BY <1>4 DEF BeginCapture, Capture, Goto, Ownership, Unowned, JournalTypeOK
  <2>2. Ownership' /\ CallOf'
    BY <2>1 DEF Ownership, CallOf, Unowned, Looping, Committing
  <2>3. NameOf' /\ MarkerOf' /\ Progress'
    BY <2>1 DEF CallOf, NameOf, MarkerOf, Progress, Looping, Committing, Owning, store
  <2> QED
    BY <2>2, <2>3
<1>5. CASE BeginSeal
  <2>1. /\ pc = "seal" /\ pc' = "publish"
        /\ UNCHANGED <<mode, tx, store, name, dname, body, commit, dcommit, before>>
        /\ dbody'[tx] = {body[tx]} /\ tx \in TxId
    BY <1>5 DEF BeginSeal, Goto, Ownership, Unowned, JournalTypeOK
  <2>2. Ownership' /\ CallOf'
    BY <2>1 DEF Ownership, CallOf, Unowned, Looping, Committing
  <2>3. NameOf' /\ MarkerOf' /\ Progress'
    BY <2>1 DEF CallOf, NameOf, MarkerOf, Progress, Looping, Committing, Owning, store
  <2> QED
    BY <2>2, <2>3
<1>6. CASE BeginPublish
  <2>1. /\ pc = "publish" /\ pc' = "pubsync"
        /\ UNCHANGED <<mode, tx, store, commit, dcommit, before>>
        /\ name'[tx] = "pending" /\ dname'[tx] = {"building", "pending"} /\ tx \in TxId
        /\ \A i \in TxId : i # tx => dname'[i] = {"none"}
    BY <1>6, Own DEF BeginPublish, Rename, Goto, NameOf, Unowned, JournalTypeOK
  <2>2. Ownership' /\ CallOf'
    BY <2>1 DEF Ownership, CallOf, Unowned, Looping, Committing
  <2>3. NameOf' /\ MarkerOf' /\ Progress'
    BY <2>1 DEF CallOf, NameOf, MarkerOf, Progress, Looping, Committing, Owning, store
  <2> QED
    BY <2>2, <2>3
<1>7. CASE BeginPublishSync
  <2>1. /\ pc = "pubsync" /\ pc' = "converge" /\ mode' = "apply" /\ tx' = tx /\ todo' = Path
        /\ name' = name /\ dname' = [i \in TxId |-> {name[i]}]
        /\ name[tx] = "pending" /\ tx \in TxId
    BY <1>7 DEF BeginPublishSync, Loop, SyncRoot, NameOf, Ownership, Unowned
  <2>2. Ownership' /\ CallOf'
    BY <2>1, Own DEF Ownership, CallOf, Unowned, Looping, Committing, Static, Visible
  <2>3. NameOf' /\ Progress'
    BY <2>1 DEF NameOf, Progress, Looping, Committing, Owning, Mine
  <2>4. dcommit'[tx] = {"absent"}
    BY <1>7, <2>1 DEF BeginPublishSync, SyncRoot, Gone, MarkerOf
  <2>5. MarkerOf'
    BY <2>1, <2>4 DEF MarkerOf, Looping
  <2> QED
    BY <2>2, <2>3, <2>5
<1>8. CASE BeginUndo
  <2>1. CASE name[tx] = "building"
    <3>1. /\ pc = "undo" /\ pc' = "empty" /\ UNCHANGED <<mode, tx, store, journal>>
      BY <1>8, <2>1 DEF BeginUndo, Goto
    <3>2. Ownership' /\ CallOf'
      BY <3>1 DEF Ownership, CallOf, Unowned, Looping, Committing, journal
    <3>3. NameOf' /\ MarkerOf' /\ Progress'
      BY <2>1, <3>1 DEF CallOf, NameOf, MarkerOf, Progress, Looping, Committing, Owning,
         journal
    <3> QED
      BY <3>2, <3>3
  <2>2. CASE name[tx] # "building"
    BY <1>8, <2>2, RestDynamic DEF BeginUndo, Call
  <2> QED
    BY <2>1, <2>2
<1> QED
  BY <1>1, <1>2, <1>3, <1>4, <1>5, <1>6, <1>7, <1>8 DEF Beginning

\* The steps of convergeMutation: what the loop has left is at its target.
LEMMA ConvergingDynamic == IInv /\ Converging => Dynamic'
<1> SUFFICES ASSUME IInv, Converging PROVE Dynamic'
  OBVIOUS
<1> USE DEF IInv, TypeOK, Dynamic
<1>1. CASE UNCHANGED <<journal, mode, tx>> /\ pc \in Looping /\ pc' \in Looping
  <2>1. UNCHANGED <<Target, Other, name, dname, dcommit>>
    BY <1>1 DEF Target, Other, journal
  <2>2. Ownership' /\ CallOf'
    BY <1>1, <2>1 DEF Ownership, CallOf, Unowned, Looping, Committing
  <2>3. NameOf' /\ MarkerOf'
    BY <1>1, <2>1 DEF NameOf, MarkerOf, Looping, Committing, Owning
  <2> DEFINE Kept == /\ \A p \in Mine \ todo' : disk'[p] = {Target[p]}
                     /\ pc' \in {"armed", "swapped"} => cur' \in todo'
                     /\ pc' = "armed" =>
                          raced' \subseteq {cur'} /\ (raced' = {} => fs'[cur'] = Other[cur'])
  <2>4. Kept
    <3>0. \A p \in Mine \ todo : disk[p] = {Target[p]}
      BY <1>1 DEF Progress
    <3>1. ASSUME NEW p \in Path, ConvergeMatched(p) PROVE Kept
      <4>1. p \in Mine => disk'[p] = {Target[p]}
        <5>1. p \in Mine => disk[p] \subseteq {before[tx][p], after[tx][p]} /\ fs[p] \in disk[p]
          BY <1>1, Own DEF NameOf, Owning, Unowned, Looping, Static, Visible, Mine
        <5> QED
          BY <3>1, <5>1 DEF ConvergeMatched, Persist, Target, StoreTypeOK, Mine
      <4>2. \A q \in Mine : q # p => disk'[q] = disk[q]
        BY <3>1 DEF ConvergeMatched, Persist, StoreTypeOK, Mine
      <4> QED
        BY <3>0, <3>1, <4>1, <4>2 DEF ConvergeMatched, Persist
    <3>2. ASSUME NEW p \in Path, ConvergeArm(p) PROVE Kept
      BY <3>0, <3>2 DEF ConvergeArm, store
    <3>3. CASE ConvergeSwap
      BY <3>0, <3>3 DEF ConvergeSwap, Goto, Progress, StoreTypeOK, Mine
    <3>4. CASE ConvergeSync
      <4>1. cur \in todo /\ cur \in Path
        BY <3>4 DEF ConvergeSync, Persist, Progress, HolderTypeOK
      <4>2. CASE fs[cur] = Target[cur]
        BY <3>0, <3>4, <4>1, <4>2 DEF ConvergeSync, Persist, StoreTypeOK, Mine
      <4>3. CASE fs[cur] # Target[cur]
        BY <1>1, <3>4, <4>3 DEF ConvergeSync, Persist, OnError, Call, Looping
      <4> QED
        BY <4>2, <4>3
    <3>5. \A p \in Path : ~ConvergeDrift(p)
      BY <1>1 DEF ConvergeDrift, OnError, Call, Looping
    <3>6. ~ConvergeSwapFails /\ ~VerifyAfter /\ ~VerifyRecovered
      BY <1>1 DEF ConvergeSwapFails, VerifyAfter, VerifyRecovered, OnError, Call, Goto, Looping
    <3> QED
      BY <3>1, <3>2, <3>3, <3>4, <3>5, <3>6 DEF Converging
  <2>5. Progress'
    BY <1>1, <2>1, <2>4 DEF Progress, CallOf, Looping, Committing
  <2> QED
    BY <2>2, <2>3, <2>5
<1>2. ASSUME NEW p \in Path, ConvergeMatched(p) \/ ConvergeArm(p)
      PROVE  UNCHANGED <<journal, mode, tx>> /\ pc \in Looping /\ pc' \in Looping
  BY <1>2 DEF ConvergeMatched, Persist, ConvergeArm, Looping
<1>3. CASE ConvergeSwap
  BY <1>1, <1>3 DEF ConvergeSwap, Goto, Looping
<1>4. ASSUME NEW p \in Path, ConvergeDrift(p) PROVE Dynamic'
  BY <1>4, OnErrorDynamic DEF ConvergeDrift
<1>5. CASE ConvergeSwapFails
  BY <1>5, OnErrorDynamic DEF ConvergeSwapFails
<1>6. CASE ConvergeSync
  <2>1. CASE fs[cur] = Target[cur]
    BY <1>1, <1>6, <2>1 DEF ConvergeSync, Persist, Looping
  <2>2. CASE fs[cur] # Target[cur]
    <3>1. pc = "swapped" /\ OnError /\ UNCHANGED <<fs, journal>> /\ mode \in {"apply", "abort", "recover", "resolve"}
      BY <1>6, <2>2 DEF ConvergeSync, Persist, CallOf, Looping
    <3>2. CASE mode = "apply"
      <4>1. pc' = "abort" /\ mode' = "abort" /\ tx' = tx
        BY <3>1, <3>2 DEF OnError, Call
      <4>2. Ownership' /\ CallOf' /\ Progress'
        BY <3>1, <4>1 DEF Ownership, CallOf, Progress, Unowned, Looping, Committing, journal
      <4>3. NameOf' /\ MarkerOf'
        BY <3>1, <3>2, <4>1 DEF NameOf, MarkerOf, Owning, Looping, Committing, journal
      <4> QED
        BY <4>2, <4>3
    <3>3. CASE mode # "apply"
      BY <3>1, <3>3, RestDynamic DEF OnError, Call
    <3> QED
      BY <3>2, <3>3
  <2> QED
    BY <2>1, <2>2
<1>7. CASE VerifyAfter
  <2>1. CASE AtTarget
    <3>1. /\ pc = "converge" /\ mode = "apply" /\ todo = {}
          /\ pc' = "create" /\ mode' = "commit" /\ tx' = tx /\ UNCHANGED <<store, journal>>
      BY <1>7, <2>1 DEF VerifyAfter, Call
    <3>2. Ownership' /\ CallOf' /\ NameOf' /\ MarkerOf'
      BY <3>1 DEF Ownership, CallOf, NameOf, MarkerOf, Unowned, Looping, Committing, Owning,
         journal
    <3>3. Progress'
      BY <3>1 DEF Progress, Target, Looping, Committing, store, journal
    <3> QED
      BY <3>2, <3>3
  <2>2. CASE ~AtTarget
    BY <1>7, <2>2, RestDynamic DEF VerifyAfter, Call
  <2> QED
    BY <2>1, <2>2
<1>8. CASE VerifyRecovered
  <2>1. CASE AtTarget
    <3>1. /\ pc = "converge" /\ mode \in {"recover", "resolve", "abort"} /\ todo = {}
          /\ pc' = "rename" /\ UNCHANGED <<mode, tx, store, journal>>
      BY <1>8, <2>1 DEF VerifyRecovered, Goto
    <3>2. Ownership' /\ CallOf' /\ NameOf' /\ MarkerOf'
      BY <3>1 DEF Ownership, CallOf, NameOf, MarkerOf, Unowned, Looping, Committing, Owning,
         journal
    <3>3. Progress'
      BY <3>1 DEF Progress, Target, Looping, Committing, store, journal
    <3> QED
      BY <3>2, <3>3
  <2>2. CASE ~AtTarget
    BY <1>8, <2>2, OnErrorDynamic DEF VerifyRecovered
  <2> QED
    BY <2>1, <2>2
<1> QED
  BY <1>1, <1>2, <1>3, <1>4, <1>5, <1>6, <1>7, <1>8 DEF Converging

\* The steps of Commit and Abort.
LEMMA DecidingDynamic == IInv /\ Deciding => Dynamic'
<1> SUFFICES ASSUME IInv, Deciding PROVE Dynamic'
  OBVIOUS
<1> USE DEF IInv, TypeOK, Dynamic
<1>1. CASE CommitCreate \/ CommitWrite \/ CommitSync
  <2>1. /\ pc \in {"create", "write", "fsync"} /\ pc' \in {"write", "fsync", "dirsync"}
        /\ UNCHANGED <<mode, tx, store, name, dname, body, dbody, before, after>>
    BY <1>1 DEF CommitCreate, CommitWrite, CommitSync, Goto
  <2>2. Ownership' /\ CallOf' /\ NameOf'
    BY <2>1 DEF Ownership, CallOf, NameOf, Unowned, Looping, Committing, Owning
  <2>3. Progress'
    BY <2>1 DEF CallOf, Progress, Looping, Committing, store
  <2>4. tx \in TxId
    BY <2>1 DEF Ownership, Unowned
  <2>5. MarkerOf'
    BY <1>1, <2>4 DEF CommitCreate, CommitWrite, CommitSync, Goto, MarkerOf, Looping,
       JournalTypeOK
  <2> QED
    BY <2>2, <2>3, <2>5
<1>2. CASE CommitDirSync
  <2>1. /\ pc = "dirsync" /\ pc' = "rename" /\ mode' = "finalize" /\ tx' = tx /\ tx \in TxId
        /\ UNCHANGED <<store, name, dname, body, dbody, commit, before, after>>
        /\ dcommit'[tx] = {"valid"} /\ commit[tx] = "valid"
    BY <1>2 DEF CommitDirSync, Call, Ownership, Unowned, MarkerOf, JournalTypeOK
  <2>2. Ownership' /\ CallOf' /\ NameOf' /\ MarkerOf'
    BY <2>1 DEF Ownership, CallOf, NameOf, MarkerOf, Unowned, Looping, Committing, Owning
  <2>3. Progress'
    BY <2>1 DEF Progress, Target, Looping, Committing, store
  <2> QED
    BY <2>2, <2>3
<1>3. CASE GiveUp
  BY <1>3, OnErrorDynamic DEF GiveUp
<1>4. CASE Abort
  <2>1. CASE OnError
    BY <1>4, <2>1, OnErrorDynamic DEF Abort
  <2>2. CASE Loop("abort", tx)
    <3>1. /\ pc = "abort" /\ pc' = "converge" /\ mode' = "abort" /\ tx' = tx /\ todo' = Path
          /\ UNCHANGED <<store, journal>>
      BY <1>4, <2>2 DEF Abort, Loop
    <3>2. Ownership' /\ CallOf' /\ NameOf' /\ MarkerOf'
      BY <3>1 DEF Ownership, CallOf, NameOf, MarkerOf, Unowned, Looping, Committing, Owning,
         journal
    <3>3. Progress'
      BY <3>1 DEF Progress, Looping, Committing, Mine
    <3> QED
      BY <3>2, <3>3
  <2> QED
    BY <1>4, <2>1, <2>2 DEF Abort
<1> QED
  BY <1>1, <1>2, <1>3, <1>4 DEF Deciding

\* The steps that remove a journal, and the report.
LEMMA CleaningDynamic == IInv /\ Cleaning => Dynamic'
<1> SUFFICES ASSUME IInv, Cleaning PROVE Dynamic'
  OBVIOUS
<1> USE DEF IInv, TypeOK, Dynamic
<1>1. CASE FinalizeRename
  <2>1. /\ pc = "rename" /\ pc' = "renamed" /\ tx \in TxId
        /\ UNCHANGED <<mode, tx, store, body, dbody, commit, dcommit, before, after>>
        /\ name'[tx] = "completed" /\ dname'[tx] = {"pending", "completed"}
        /\ \A i \in TxId : i # tx => dname'[i] = {"none"}
    BY <1>1, Own DEF FinalizeRename, Rename, Goto, NameOf, Owning, Unowned, JournalTypeOK
  <2>2. Ownership' /\ CallOf' /\ NameOf' /\ MarkerOf'
    BY <2>1 DEF Ownership, CallOf, NameOf, MarkerOf, Unowned, Looping, Committing, Owning
  <2>3. UNCHANGED Target
    BY <2>1 DEF Target
  <2>4. Progress'
    BY <2>1, <2>3 DEF Progress, Looping, Committing, store
  <2> QED
    BY <2>2, <2>4
<1>2. CASE FinalizeRenameSync
  <2>1. /\ pc = "renamed" /\ pc' = "empty" /\ UNCHANGED <<mode, tx, store, name>>
        /\ dname' = [i \in TxId |-> {name[i]}] /\ tx \in TxId /\ name[tx] = "completed"
    BY <1>2 DEF FinalizeRenameSync, SyncRoot, Goto, NameOf, Ownership, Unowned
  <2>2. after'[tx] = after[tx]
    BY <1>2, <2>1 DEF FinalizeRenameSync, SyncRoot, Gone
  <2>3. Ownership' /\ CallOf' /\ NameOf' /\ MarkerOf'
    BY <2>1, Own DEF Ownership, CallOf, NameOf, MarkerOf, Unowned, Looping, Committing,
       Owning, Static, Visible
  <2>4. Progress'
    BY <2>1, <2>2 DEF Progress, CallOf, Looping, Committing, store
  <2> QED
    BY <2>3, <2>4
<1>3. ASSUME NEW m \in Marker, RemoveMembers(m) PROVE Dynamic'
  <2>1. /\ pc = "empty" /\ pc' = "rmdir"
        /\ UNCHANGED <<mode, tx, store, name, dname, before, after>>
    BY <1>3 DEF RemoveMembers, Goto
  <2>2. Ownership' /\ CallOf' /\ NameOf' /\ MarkerOf'
    BY <2>1 DEF Ownership, CallOf, NameOf, MarkerOf, Unowned, Looping, Committing, Owning
  <2>3. Progress'
    BY <2>1 DEF Progress, CallOf, Looping, Committing, store
  <2> QED
    BY <2>2, <2>3
<1>4. CASE RemoveDir
  <2>1. /\ pc = "rmdir" /\ pc' = "rmsync" /\ tx \in TxId
        /\ UNCHANGED <<mode, tx, store, body, dbody, commit, dcommit, before, after>>
        /\ name'[tx] = "none" /\ dname'[tx] \subseteq {"none", "building", "completed"}
        /\ \A i \in TxId : i # tx => dname'[i] = {"none"}
    BY <1>4, Own DEF RemoveDir, Rename, Goto, NameOf, Unowned, JournalTypeOK
  <2>2. Ownership' /\ CallOf' /\ NameOf' /\ MarkerOf'
    BY <2>1 DEF Ownership, CallOf, NameOf, MarkerOf, Unowned, Looping, Committing, Owning
  <2>3. Progress'
    BY <2>1 DEF Progress, CallOf, Looping, Committing, store
  <2> QED
    BY <2>2, <2>3
<1>5. CASE RemoveSync
  <2>1. /\ pc = "rmsync" /\ UNCHANGED <<store, name>>
        /\ dname' = [i \in TxId |-> {name[i]}] /\ tx \in TxId /\ name[tx] = "none"
    BY <1>5 DEF RemoveSync, SyncRoot, NameOf, Ownership, Unowned
  <2>2. CASE mode \in {"recover", "resolve"}
    <3>1. pc' = "scan" /\ mode' = mode /\ tx' = None
      BY <1>5, <2>2 DEF RemoveSync, Call
    <3>2. Ownership' /\ CallOf' /\ NameOf' /\ MarkerOf' /\ Progress'
      BY <2>1, <2>2, <3>1 DEF Ownership, CallOf, NameOf, MarkerOf, Progress, Unowned,
         Looping, Committing, Owning
    <3> QED
      BY <3>2
  <2>3. CASE mode = "finalize"
    <3>1. pc' = "done" /\ UNCHANGED <<mode, tx>>
      BY <1>5, <2>3 DEF RemoveSync, Goto
    <3>2. after'[tx] = after[tx]
      BY <1>5, <2>1 DEF RemoveSync, SyncRoot, Gone
    <3>3. Ownership' /\ CallOf' /\ NameOf' /\ MarkerOf'
      BY <2>1, <2>3, <3>1, Own DEF Ownership, CallOf, NameOf, MarkerOf, Unowned, Looping,
         Committing, Owning, Static, Visible
    <3>4. Progress'
      BY <2>1, <2>3, <3>1, <3>2 DEF Progress, MayBePending, Looping, Committing, store
    <3> QED
      BY <3>3, <3>4
  <2>4. CASE mode \in {"abort", "cleanup"}
    BY <1>5, <2>4, RestDynamic DEF RemoveSync, Call
  <2> QED
    BY <2>1, <2>2, <2>3, <2>4 DEF CallOf
<1>6. CASE Report \/ Release
  BY <1>6, RestDynamic DEF Report, Release, Call
<1> QED
  BY <1>1, <1>2, <1>3, <1>4, <1>5, <1>6 DEF Cleaning

\* Faults either end the holder, take its error path or write a foreign file.
LEMMA EnvironmentDynamic == IInv /\ Environment => Dynamic'
<1> SUFFICES ASSUME IInv, Environment PROVE Dynamic'
  OBVIOUS
<1>1. CASE IOError
  BY <1>1, OnErrorDynamic DEF IOError
<1>2. CASE Crash \/ PowerLoss
  BY <1>2, RestDynamic DEF Crash, PowerLoss, Killed, Call
<1>3. ASSUME NEW p \in External, NEW c \in State, ExternalWrite(p, c) PROVE Dynamic'
  <2> USE DEF IInv, TypeOK, Dynamic
  <2>1. UNCHANGED <<journal, pc, mode, tx, todo, cur>>
    BY <1>3 DEF ExternalWrite
  <2>2. \A q \in Mine : fs'[q] = fs[q] /\ disk'[q] = disk[q]
    BY <1>3 DEF ExternalWrite, Mine, StoreTypeOK
  <2>3. Ownership' /\ CallOf' /\ MarkerOf'
    BY <2>1 DEF Ownership, CallOf, MarkerOf, journal
  <2>4. NameOf'
    BY <2>1, <2>2 DEF NameOf, journal
  <2>5. UNCHANGED <<Target, Other>>
    BY <2>1 DEF Target, Other, journal
  <2>6. pc' = "armed" => raced' \subseteq {cur} /\ (raced' = {} => fs'[cur] = Other[cur])
    BY <1>3, <2>1 DEF ExternalWrite, Progress
  <2>7. Progress'
    BY <2>1, <2>2, <2>5, <2>6 DEF Progress, MayBePending, journal
  <2> QED
    BY <2>3, <2>4, <2>7
<1> QED
  BY <1>1, <1>2, <1>3 DEF Environment

\* The holder's part is preserved by every step.
LEMMA DynamicStep == IInv /\ [Next]_vars => Dynamic'
<1> SUFFICES ASSUME IInv, [Next]_vars PROVE Dynamic'
  OBVIOUS
<1>1. CASE UNCHANGED vars
  BY <1>1 DEF vars, store, journal, holder, IInv, Dynamic, Ownership, CallOf, NameOf,
     MarkerOf, Progress, MayBePending, Target, Other
<1> QED
  BY <1>1, RecoveryDynamic, BeginningDynamic, ConvergingDynamic, DecidingDynamic,
     CleaningDynamic, EnvironmentDynamic DEF Next, Hukou

-----------------------------------------------------------------------------

\* IInv is preserved by every step ...
LEMMA InvStep == IInv /\ [Next]_vars => IInv'
BY TypeStep, StaticStep, DynamicStep DEF IInv

\* ... and so holds in every state of every behaviour.
THEOREM Inductive == Spec => []IInv
BY InitInv, InvStep, PTL DEF Spec

-----------------------------------------------------------------------------
(* What the inductive invariant gives: the safety properties, and that      *)
(* Journal implements AtomicUpdate when no other program writes its          *)
(* participants.                                                             *)

\* The variables keep their types.
THEOREM TypeCorrect == Spec => []TypeOK
<1>1. IInv => TypeOK
  BY DEF IInv
<1> QED
  BY <1>1, Inductive, PTL

\* At most one journal exists, visible or in what a power failure may leave:
\* Recover never meets two pending transactions.
THEOREM AtMostOneJournal == Spec => []OneJournal
<1>1. IInv => OneJournal
  BY DEF IInv, Static
<1> QED
  BY <1>1, Inductive, PTL

\* Recover can load every journal it may find pending.
THEOREM PendingLoads == Spec => []PendingIsLoadable
<1>1. IInv => PendingIsLoadable
  BY DEF IInv, Static
<1> QED
  BY <1>1, Inductive, PTL

\* No COMMIT marker is ever readable before what it decides is durable.
THEOREM DecisionFollowsData == Spec => []DecisionAfterData
<1>1. IInv => DecisionAfterData
  BY DEF IInv, Static, Decided, DecisionAfterData, Mine
<1> QED
  BY <1>1, Inductive, PTL

\* Recover can classify every participant of a journal it may find pending.
THEOREM RecoveryClassifies == Spec => []AlwaysClassifiable
<1>1. IInv => AlwaysClassifiable
  BY DEF IInv, Static
<1> QED
  BY <1>1, Inductive, PTL

\* A journal is given up only over durable files.
THEOREM JournalOutlives == Spec => []JournalOutlivesDoubt
<1>1. IInv => JournalOutlivesDoubt
  BY DEF IInv, Static, Visible, Settled, JournalOutlivesDoubt, MayBePending, Mine
<1> QED
  BY <1>1, Inductive, PTL

\* A reported success survives a power failure and is never taken back.
THEOREM ReportedIsDurable == Spec => []SuccessIsDurable
<1>1. IInv => SuccessIsDurable
  BY DEF IInv, Dynamic, CallOf, Progress, SuccessIsDurable, Mine
<1> QED
  BY <1>1, Inductive, PTL

\* A reader let through by CheckReadable sees a converged state.
THEOREM ReadersSeeConverged == Spec => []ReadableIsConverged
<1> SUFFICES IInv => ReadableIsConverged
  BY Inductive, PTL
<1> SUFFICES ASSUME IInv, CheckReadable, NEW i \in Named("completed"), NEW p \in Mine
             PROVE  fs[p] = after[i][p]
  BY DEF ReadableIsConverged, Mine
<1>1. i \in TxId /\ "completed" \in dname[i] /\ "valid" \in dcommit[i]
  BY DEF IInv, Static, Visible, Named, CheckReadable
<1>2. disk[p] = {after[i][p]}
  BY <1>1 DEF IInv, Static, Decided
<1> QED
  BY <1>2 DEF IInv, Static, Visible, Mine

\* hukou never replaces a state it did not capture, but for the window between
\* the last recheck and the rename or unlink.
THEOREM DriftSurvives == Spec => NoDriftOverwritten
<1>1. ASSUME IInv, Next, NEW p \in Path, fs'[p] # fs[p], faults' = faults
      PROVE  \/ fs[p] \in {before[tx][p], after[tx][p]}
             \/ p \in raced /\ Other[p] # Absent
  <2>1. CASE ConvergeSwap
    <3>1. p = cur /\ pc = "armed"
      BY <1>1, <2>1 DEF ConvergeSwap, IInv, TypeOK, StoreTypeOK
    <3>2. Other[p] \in {before[tx][p], after[tx][p]}
      BY DEF Other
    <3>3. raced \subseteq {cur} /\ (raced = {} => fs[cur] = Other[cur])
      BY <1>1, <3>1 DEF IInv, Dynamic, Progress
    <3>4. Other[p] = Absent => fs[p] = Absent
      BY <2>1, <3>1 DEF ConvergeSwap
    <3> QED
      BY <3>1, <3>2, <3>3, <3>4
  <2>2. UNCHANGED fs \/ faults' = faults + 1 \/ ConvergeSwap
    <3>1. CASE StoreWrite
      BY <3>1 DEF StoreWrite, ConvergeMatched, Persist, ConvergeSync, ExternalWrite, Fault
    <3>2. CASE JournalWrite
      BY <3>2 DEF JournalWrite, BeginMkdir, BeginCapture, Capture, BeginSeal, BeginPublish,
         CommitCreate, CommitWrite, CommitSync, CommitDirSync, FinalizeRename, RemoveDir,
         RemoveMembers, store
    <3>3. CASE PowerLoss
      BY <3>3 DEF PowerLoss, Fault
    <3> QED
      BY <1>1, <3>1, <3>2, <3>3, Kinds DEF store
  <2>3. faults' # faults + 1
    BY <1>1, JournalAssumption DEF IInv, TypeOK
  <2> QED
    BY <1>1, <2>1, <2>2, <2>3
<1>2. IInv /\ [Next]_vars =>
        [\A p \in Path : fs'[p] # fs[p] /\ faults' = faults =>
           \/ fs[p] \in {before[tx][p], after[tx][p]}
           \/ p \in raced /\ Other[p] # Absent]_vars
  BY <1>1
<1> QED
  BY <1>2, Inductive, PTL DEF Spec, NoDriftOverwritten

-----------------------------------------------------------------------------
(* The refinement of AtomicUpdate *)

\* Whole holds initially and is kept by every step.
LEMMA InitWhole == Init => Whole
BY DEF Init, Whole, MayBePending

LEMMA WholeStep == IInv /\ Whole /\ [Next]_vars => Whole'
<1> SUFFICES ASSUME IInv, Whole, [Next]_vars PROVE Whole'
  OBVIOUS
<1>1. CASE UNCHANGED <<store, journal>>
  BY <1>1 DEF store, journal, Whole, MayBePending
<1>2. CASE SyncRoot \/ PowerLoss
  <2>1. \A i \in TxId : dname'[i] = {name'[i]}
    BY <1>2 DEF SyncRoot, PowerLoss
  <2> QED
    BY <2>1 DEF Whole, MayBePending
<1>3. CASE StoreWrite
  <2>1. UNCHANGED journal
    BY <1>3 DEF StoreWrite, ConvergeMatched, Persist, ConvergeSwap, ConvergeSync, ExternalWrite
  <2>2. CASE pc \in Looping
    <3>1. \A i \in TxId : MayBePending(i) => dname[i] = {"pending"}
      BY <2>2, Own DEF IInv, Dynamic, NameOf, Owning, Looping, Unowned, MayBePending
    <3> QED
      BY <2>1, <3>1 DEF journal, Whole, MayBePending
  <2>3. CASE pc \notin Looping
    <3>1. \A p \in Mine : disk'[p] = disk[p]
      BY <1>3, <2>3 DEF StoreWrite, ConvergeMatched, Persist, ConvergeSwap, ConvergeSync,
         ExternalWrite, Looping, Mine, IInv, TypeOK, StoreTypeOK
    <3> QED
      BY <2>1, <3>1 DEF journal, Whole, MayBePending
  <2> QED
    BY <2>2, <2>3
<1>4. CASE JournalWrite
  <2>1. UNCHANGED store
    BY <1>4 DEF JournalWrite, BeginMkdir, BeginCapture, Capture, BeginSeal, BeginPublish,
       CommitCreate, CommitWrite, CommitSync, CommitDirSync, FinalizeRename, RemoveDir,
       RemoveMembers
  <2> USE DEF IInv, TypeOK, Dynamic, NameOf, Unowned
  <2>2. CASE BeginPublish
    <3>1. /\ \A i \in TxId : i # tx => ~MayBePending(i)'
          /\ \A p \in Mine : disk[p] = {before[tx][p]}
      BY <2>2, Own DEF BeginPublish, Rename, JournalTypeOK, MayBePending
    <3> QED
      BY <2>1, <2>2, <3>1 DEF BeginPublish, store, Whole
  <2>3. CASE FinalizeRename
    <3>1. /\ \A i \in TxId : i # tx => ~MayBePending(i)'
          /\ \A p \in Mine : disk[p] = {Target[p]}
      BY <2>3, Own DEF FinalizeRename, Rename, JournalTypeOK, MayBePending, Progress
    <3>2. Target \in {before[tx], after[tx]}
      BY DEF Target
    <3> QED
      BY <2>1, <2>3, <3>1, <3>2 DEF FinalizeRename, store, Whole
  <2>4. CASE RemoveDir
    <3>1. \A i \in TxId : ~MayBePending(i)'
      BY <2>4, Own DEF RemoveDir, Rename, JournalTypeOK, MayBePending
    <3> QED
      BY <3>1 DEF Whole
  <2>5. ASSUME NEW i \in TxId, BeginMkdir(i) PROVE Whole'
    <3>1. \A j \in TxId : ~MayBePending(j)'
      BY <2>5 DEF BeginMkdir, Rename, JournalTypeOK, MayBePending, Ownership
    <3> QED
      BY <3>1 DEF Whole
  <2>6. ASSUME NEW new \in [Path -> State], BeginCapture(new) PROVE Whole'
    <3>1. \A j \in TxId : ~MayBePending(j)'
      BY <2>6, Own DEF BeginCapture, Capture, MayBePending
    <3> QED
      BY <3>1 DEF Whole
  <2>7. CASE UNCHANGED <<dname, before, after>>
    BY <2>1, <2>7 DEF store, Whole, MayBePending
  <2> QED
    BY <1>4, <2>2, <2>3, <2>4, <2>5, <2>6, <2>7 DEF JournalWrite, BeginSeal, CommitCreate,
       CommitWrite, CommitSync, CommitDirSync, RemoveMembers
<1> QED
  BY <1>1, <1>2, <1>3, <1>4, Kinds

\* At most one journal is in doubt, and Doubtful is that one.
LEMMA OneInDoubt ==
  ASSUME OneJournal, NEW i \in InDoubt
  PROVE  InDoubt = {i} /\ Value = before[i] /\ Proposed = after[i] /\ i \in TxId
<1>1. i \in TxId /\ \A j \in InDoubt : j = i
  BY DEF InDoubt, MayBePending, OneJournal
<1>2. Doubtful \in InDoubt
  BY DEF Doubtful
<1> QED
  BY <1>1, <1>2 DEF Value, Proposed

\* Steps that change neither the journals in doubt nor what stands behind them.
LEMMA Stutter ==
  ASSUME OneJournal, OneJournal', InDoubt' = InDoubt,
         InDoubt = {} => fs' = fs,
         \A i \in InDoubt : before'[i] = before[i] /\ after'[i] = after[i]
  PROVE  UNCHANGED <<Value, Proposed>>
<1>1. CASE InDoubt = {}
  BY <1>1 DEF Value, Proposed
<1>2. ASSUME NEW i \in InDoubt PROVE UNCHANGED <<Value, Proposed>>
  <2>1. Value = before[i] /\ Proposed = after[i]
    BY OneInDoubt
  <2>2. i \in InDoubt' /\ InDoubt' = {i}
    BY OneInDoubt
  <2>3. Value' = before'[i] /\ Proposed' = after'[i]
    BY <2>2 DEF Value, Proposed, Doubtful
  <2> QED
    BY <2>1, <2>3
<1> QED
  BY <1>1, <1>2

\* If one function value alone has the pending name, the set of such is a singleton.
LEMMA Singleton ==
  ASSUME NEW d, NEW i \in TxId, "pending" \in d[i],
         \A j \in TxId : j # i => "pending" \notin d[j]
  PROVE  {j \in TxId : "pending" \in d[j]} = {i}
OBVIOUS

\* What each kind of step does to the journals in doubt: nothing, or Begin's
\* rename puts one in doubt over the current state, or one is out of doubt and
\* the state is the old one or the new one, as a whole.
LEMMA Observed ==
  ASSUME External = {}, IInv, IInv', Whole, [Next]_vars
  PROVE  \/ /\ InDoubt' = InDoubt
            /\ InDoubt = {} => fs' = fs
            /\ \A i \in InDoubt : before'[i] = before[i] /\ after'[i] = after[i]
         \/ InDoubt = {} /\ InDoubt' = {tx} /\ before'[tx] = fs
         \/ \E i \in InDoubt : InDoubt' = {} /\ fs' \in {before[i], after[i]}
<1> USE DEF IInv, TypeOK
<1>0. Mine = Path
  BY DEF Mine
<1>1. CASE UNCHANGED <<store, journal>>
  BY <1>1 DEF store, journal, InDoubt, MayBePending
<1>2. CASE (SyncRoot /\ UNCHANGED store) \/ PowerLoss
  <2>1. \A i \in TxId : dname'[i] = {name'[i]} /\ name'[i] \in dname[i]
    BY <1>2 DEF SyncRoot, PowerLoss, Static, Visible
  <2>2. InDoubt' \subseteq InDoubt
    BY <2>1 DEF InDoubt, MayBePending
  <2>3. \A p \in Path : fs'[p] \in disk[p]
    BY <1>2 DEF PowerLoss, store, Static, Visible
  <2>4. CASE InDoubt = {}
    <3>1. \A p \in Path : disk[p] = {fs[p]}
      BY <1>0, <2>4 DEF Static, Settled, Visible, InDoubt, MayBePending
    <3>2. \A p \in Path : fs'[p] = fs[p]
      BY <2>3, <3>1
    <3>3. fs' = fs
      BY <3>2 DEF StoreTypeOK
    <3> QED
      BY <2>2, <2>4, <3>3
  <2>5. ASSUME NEW i \in InDoubt, i \in InDoubt'
        PROVE  InDoubt' = InDoubt /\ before'[i] = before[i] /\ after'[i] = after[i]
    <3>1. InDoubt = {i} /\ i \in TxId /\ name'[i] = "pending"
      BY <2>1, <2>5, OneInDoubt DEF Static, InDoubt, MayBePending
    <3> QED
      BY <1>2, <2>2, <2>5, <3>1 DEF SyncRoot, PowerLoss, Gone
  <2>6. ASSUME NEW i \in InDoubt, i \notin InDoubt'
        PROVE  InDoubt' = {} /\ fs' \in {before[i], after[i]}
    <3>1. InDoubt = {i} /\ i \in TxId
      BY OneInDoubt DEF Static
    <3>2. dname[i] # {"pending"} /\ MayBePending(i)
      BY <2>1, <2>6, <3>1 DEF InDoubt, MayBePending
    <3>3. (\A p \in Path : fs'[p] = before[i][p]) \/ (\A p \in Path : fs'[p] = after[i][p])
      BY <1>0, <2>3, <3>1, <3>2 DEF Whole
    <3>4. fs' = before[i] \/ fs' = after[i]
      BY <3>1, <3>3 DEF StoreTypeOK, JournalTypeOK
    <3> QED
      BY <2>2, <2>6, <3>1, <3>4
  <2>7. InDoubt = {} \/ \E i \in InDoubt : InDoubt = {i}
    BY OneInDoubt DEF Static
  <2> QED
    BY <2>4, <2>5, <2>6, <2>7
<1>3. CASE StoreWrite
  <2>1. UNCHANGED journal
    BY <1>3 DEF StoreWrite, ConvergeMatched, Persist, ConvergeSwap, ConvergeSync, ExternalWrite
  <2>2. pc \in Looping
    BY <1>3 DEF StoreWrite, ConvergeMatched, Persist, ConvergeSwap, ConvergeSync, Looping
  <2>3. tx \in InDoubt
    BY <2>2, Own DEF Dynamic, NameOf, Owning, Looping, Unowned, InDoubt, MayBePending
  <2> QED
    BY <2>1, <2>3 DEF journal, InDoubt, MayBePending
<1>4. CASE JournalWrite
  <2>1. fs' = fs
    BY <1>4 DEF JournalWrite, BeginMkdir, BeginCapture, Capture, BeginSeal, BeginPublish,
       CommitCreate, CommitWrite, CommitSync, CommitDirSync, FinalizeRename, RemoveDir,
       RemoveMembers, store
  <2> USE DEF Dynamic, NameOf, Unowned
  <2>2. CASE BeginPublish
    <3>1. tx \in TxId /\ \A i \in TxId : "pending" \notin dname[i]
      BY <2>2, Own DEF BeginPublish
    <3>2. "pending" \in dname'[tx] /\ \A i \in TxId : i # tx => "pending" \notin dname'[i]
      BY <2>2, <3>1 DEF BeginPublish, Rename, JournalTypeOK
    <3>3. InDoubt = {} /\ InDoubt' = {tx}
      BY <3>1, <3>2, Singleton DEF InDoubt, MayBePending
    <3>4. \A p \in Path : before[tx][p] = fs[p]
      BY <1>0, <2>2 DEF BeginPublish
    <3>5. before'[tx] = fs
      BY <2>2, <3>1, <3>4 DEF BeginPublish, JournalTypeOK, StoreTypeOK
    <3> QED
      BY <3>3, <3>5
  <2>3. CASE FinalizeRename
    <3>1. /\ tx \in TxId /\ "pending" \in dname[tx]
          /\ \A i \in TxId : i # tx => "pending" \notin dname[i]
      BY <2>3, Own DEF FinalizeRename, Owning
    <3>2. "pending" \in dname'[tx] /\ \A i \in TxId : i # tx => "pending" \notin dname'[i]
      BY <2>3, <3>1 DEF FinalizeRename, Rename, JournalTypeOK
    <3>3. InDoubt = {tx} /\ InDoubt' = {tx}
      BY <3>1, <3>2, Singleton DEF InDoubt, MayBePending
    <3> QED
      BY <2>1, <2>3, <3>3 DEF FinalizeRename
  <2>4. CASE RemoveDir
    <3>1. \A i \in TxId : ~MayBePending(i) /\ ~MayBePending(i)'
      BY <2>4, Own DEF RemoveDir, Rename, JournalTypeOK, MayBePending
    <3> QED
      BY <2>1, <3>1 DEF InDoubt
  <2>5. ASSUME NEW i \in TxId, BeginMkdir(i) PROVE InDoubt = {} /\ InDoubt' = {}
    <3>1. \A j \in TxId : ~MayBePending(j) /\ ~MayBePending(j)'
      BY <2>5 DEF BeginMkdir, Rename, JournalTypeOK, MayBePending, Ownership
    <3> QED
      BY <3>1 DEF InDoubt
  <2>6. ASSUME NEW new \in [Path -> State], BeginCapture(new)
        PROVE  InDoubt = {} /\ InDoubt' = {}
    <3>1. \A j \in TxId : ~MayBePending(j) /\ ~MayBePending(j)'
      BY <2>6, Own DEF BeginCapture, Capture, MayBePending
    <3> QED
      BY <3>1 DEF InDoubt
  <2>7. CASE UNCHANGED <<dname, before, after>>
    BY <2>1, <2>7 DEF InDoubt, MayBePending
  <2> QED
    BY <1>4, <2>1, <2>2, <2>3, <2>4, <2>5, <2>6, <2>7 DEF JournalWrite, BeginSeal,
       CommitCreate, CommitWrite, CommitSync, CommitDirSync, RemoveMembers
<1> QED
  BY <1>1, <1>2, <1>3, <1>4, Kinds

\* Every step of Journal is a step of AtomicUpdate or a stutter.
LEMMA AbstractStep ==
  ASSUME External = {}, IInv, IInv', Whole, [Next]_vars
  PROVE  [Abstract!Next]_<<Value, Proposed>>
<1> USE DEF IInv, TypeOK, Static
<1>1. CASE /\ InDoubt' = InDoubt
           /\ InDoubt = {} => fs' = fs
           /\ \A i \in InDoubt : before'[i] = before[i] /\ after'[i] = after[i]
  BY <1>1, Stutter
<1>2. CASE InDoubt = {} /\ InDoubt' = {tx} /\ before'[tx] = fs
  <2>1. Value = fs /\ Proposed = None
    BY <1>2 DEF Value, Proposed
  <2>2. Value' = before'[tx] /\ Proposed' = after'[tx]
    <3>1. Doubtful' = tx
      BY <1>2 DEF Doubtful
    <3> QED
      BY <1>2, <3>1 DEF Value, Proposed
  <2>3. after'[tx] \in [Path -> State]
    BY <1>2 DEF InDoubt, JournalTypeOK
  <2> QED
    BY <1>2, <2>1, <2>2, <2>3 DEF Abstract!Next, Abstract!Propose
<1>3. ASSUME NEW i \in InDoubt, InDoubt' = {}, fs' \in {before[i], after[i]}
      PROVE  Abstract!Next
  <2>1. Value = before[i] /\ Proposed = after[i] /\ i \in TxId
    BY OneInDoubt
  <2>2. Value' = fs' /\ Proposed' = None
    BY <1>3 DEF Value, Proposed
  <2>3. after[i] # None
    BY <2>1, NoneAssumption DEF JournalTypeOK, State
  <2> QED
    BY <1>3, <2>1, <2>2, <2>3 DEF Abstract!Next, Abstract!Resolve
<1> QED
  BY <1>1, <1>2, <1>3, Observed

\* Without foreign writers the participants change together or not at all.
THEOREM Implements == ASSUME External = {} PROVE Spec => AtomicSpec
<1>1. Init => Abstract!Init
  <2> SUFFICES ASSUME Init PROVE Abstract!Init
    OBVIOUS
  <2>1. InDoubt = {}
    BY DEF Init, InDoubt, MayBePending
  <2> QED
    BY <2>1 DEF Init, Abstract!Init, Value, Proposed
<1>2. IInv /\ IInv' /\ Whole /\ [Next]_vars => [Abstract!Next]_<<Value, Proposed>>
  BY AbstractStep
<1> QED
  BY <1>1, <1>2, Inductive, InitWhole, WholeStep, PTL DEF Spec, AtomicSpec, Abstract!Spec

=============================================================================
