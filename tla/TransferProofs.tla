---------------------------- MODULE TransferProofs ----------------------------
(***************************************************************************)
(* Proofs about Transfer, for every cap, timeout, speed and number of        *)
(* retries: a download leaves the file it reports or none, and the proxy is  *)
(* asked at most once, from a clean slate, and never after a status or size. *)
(***************************************************************************)
EXTENDS Transfer, TLAPS

\* Requests are only made within the cap; an attempt that is not reading a body
\* has no file, whatever attempts there were before it.
Allowed == call.size \in Int /\ (pc \in {"request", "body", "failed"} => ~Refused)
OneFile ==
  /\ pc \in {"start", "request", "failed"} => files = {}
  /\ pc = "body" => files = {via}
Attempts ==
  /\ pc \in {"start", "request", "body", "failed", "done"}
  /\ pc = "start" => via = "direct"
  /\ pc = "failed" => err # "none"
Reading == body \in [start : {body.start}, got : Nat, recent : {body.recent}, slow : {body.slow}]

TransferInv == Allowed /\ OneFile /\ Attempts /\ Reading /\ FileIsExact

LEMMA TransferInitial == Init => TransferInv
<1> SUFFICES ASSUME Init
             PROVE  TransferInv
  OBVIOUS
<1>1. pc = "start" /\ via = "direct" /\ files = {} /\ call.size \in Int
  BY TransferAssumption DEF Init
<1>2. Reading
  BY DEF Init, NewReader, Reading
<1> QED
  BY <1>1, <1>2 DEF TransferInv, Allowed, OneFile, Attempts, Reading, FileIsExact

\* A received body is never more than one byte too long.
LEMMA Received ==
  ASSUME TransferInv, NEW n \in Speeds, Receive(n)
  PROVE  Reading'
<1>1. body.got \in Nat /\ n \in Nat /\ Limit \in Nat
  BY TransferAssumption DEF TransferInv, Reading, Allowed, Refused, Receive, Limit
<1>2. Min({body.got + n, Limit + 1}) \in {body.got + n, Limit + 1}
  <2>1. \E m \in {body.got + n, Limit + 1} : \A k \in {body.got + n, Limit + 1} : m <= k
    BY <1>1
  <2> QED
    BY <2>1 DEF Min
<1> DEFINE g == Min({body.got + n, Limit + 1})
<1>3. g \in Nat
  BY <1>1, <1>2
<1> HIDE DEF g
<1>4. body' = [body EXCEPT !.got = g, !.recent[1] = @ + n]
  BY DEF Receive, g
<1> QED
  BY <1>3, <1>4 DEF TransferInv, Reading

LEMMA TransferPreserved == TransferInv /\ [Next]_vars => TransferInv'
<1> SUFFICES ASSUME TransferInv, [Next]_vars
             PROVE  TransferInv'
  OBVIOUS
<1> USE DEF TransferInv, Allowed, OneFile, Attempts, Reading, FileIsExact, Refused, Fails
<1>1. CASE UNCHANGED vars
  BY <1>1 DEF vars
<1>2. CASE Refuse
  BY <1>2 DEF Refuse
<1>3. CASE Begin \/ Retry
  BY <1>3 DEF Begin, Retry, Start
<1>4. CASE GiveUp
  BY <1>4 DEF GiveUp
<1>5. CASE Unreachable \/ \E t \in Texts : Busy(t)
  BY <1>5 DEF Unreachable, Busy, Resend, Texts
<1>6. CASE CreateFails \/ \E t \in Texts \union Limits : Denied(t)
  BY <1>6 DEF CreateFails, Denied, Texts, Limits
<1>7. CASE Accepted
  BY <1>7 DEF Accepted, NewReader
<1>8. CASE \E n \in Speeds : Receive(n)
  <2>1. PICK n \in Speeds : Receive(n)
    BY <1>8
  <2>2. Reading'
    BY <2>1, Received
  <2> QED
    BY <2>1, <2>2 DEF Receive
<1>9. CASE End
  BY <1>9, TransferAssumption DEF End, Wrong, Limit
<1>10. CASE \E e \in {"transport", "disk"} : Cut(e)
  BY <1>10 DEF Cut
<1>11. CASE Tick
  BY <1>11 DEF Tick
<1>12. CASE CloseFails
  BY <1>12 DEF CloseFails
<1> QED
  BY <1>1, <1>2, <1>3, <1>4, <1>5, <1>6, <1>7, <1>8, <1>9, <1>10, <1>11, <1>12 DEF Next

\* Whichever step of whichever attempt failed, no file is left behind, and one
\* that is reported has the declared length.
THEOREM FilesAreExact == Spec => []FileIsExact
<1>1. TransferInv => FileIsExact
  BY DEF TransferInv
<1> QED
  BY <1>1, TransferInitial, TransferPreserved, PTL DEF Spec

\* The proxy is asked at most once, when nothing of the first attempt is left, and
\* not to overrule a size, a status whatever its body says, or a rate limit that does
\* not sound like transport.
THEOREM SecondAttemptsAreSound == Spec => SecondAttemptIsSound
<1> DEFINE Sound == via = "direct" /\ files = {} /\ err \notin Texts \union {"size", "refused", "rate limit"}
<1>1. TransferInv /\ [Next]_vars => [via # via' => Sound]_vars
  <2> SUFFICES ASSUME TransferInv, [Next]_vars, via # via'
               PROVE  Sound
    OBVIOUS
  <2>1. Begin \/ Retry
    BY DEF Next, vars, Refuse, GiveUp, Unreachable, CreateFails, Accepted, End, CloseFails, Tick, Busy, Denied, Receive, Cut
  <2>2. ~Begin
    BY DEF Begin, Start, TransferInv, Attempts
  <2> QED
    BY <2>1, <2>2 DEF Retry, Again, retryableDownloadErr, Texts, TransferInv, OneFile
<1> QED
  BY <1>1, TransferInitial, TransferPreserved, PTL DEF Spec, SecondAttemptIsSound
=============================================================================
