------------------------------ MODULE Transfer ------------------------------
(***************************************************************************)
(* Client.Download (internal/ghrelease): one asset fetched over a network   *)
(* that may refuse, stall or cut, from a server that may answer anything.    *)
(* Each attempt has its timer, each request its retries, each body a        *)
(* goroutine that measures its speed; an attempt that fails in transport is *)
(* made once more through the system proxy.  Time passes in ticks of the    *)
(* speed watch.                                                             *)
(***************************************************************************)
EXTENDS Integers, FiniteSetsExt

CONSTANTS
  MaxRetries,   \* further requests of one attempt
  MaxDownload,  \* the cap on any asset
  Grace,        \* ticks before the speed is looked at
  Window,       \* ticks it is measured over
  Timeout,      \* ticks an attempt may last
  Speeds,       \* what a tick may bring
  Floors        \* the speeds that may be configured; 0 turns the watch off

ASSUME TransferAssumption ==
  /\ {MaxRetries, MaxDownload, Grace} \subseteq Nat
  /\ Window \in Nat \ {0} /\ Timeout \in Nat \ {0}
  /\ Speeds \subseteq Nat /\ Floors \subseteq Nat

VARIABLES
  call,     \* [allowed, proxy : BOOLEAN, size : declared size, floor : speed]
  pc,       \* "start", "request", "body", "failed", "done"
  via,      \* "direct" or "proxy"
  attempt,  \* requests this attempt has sent before
  err,      \* what ended the attempt, or "none"
  clock,    \* ticks since the attempt began
  ctx,      \* "live" or "cancelled": its context
  body,     \* [start, got, recent : [1..Window -> bytes], slow]
  files     \* the attempts whose temporary file is there

vars == <<call, pc, via, attempt, err, clock, ctx, body, files>>

\* Only a size of zero is unknown.
Limit == IF call.size = 0 THEN MaxDownload ELSE call.size

NewReader == [start |-> clock, got |-> 0, recent |-> [i \in 1..Window |-> 0], slow |-> FALSE]

Init ==
  /\ call \in [allowed : BOOLEAN, proxy : BOOLEAN, size : -1..(MaxDownload + 1), floor : Floors]
  /\ pc = "start" /\ via = "direct" /\ attempt = 0 /\ err = "none"
  /\ clock = 0 /\ ctx = "live"
  /\ body = NewReader
  /\ files = {}

Fails(e) == pc' = "failed" /\ err' = e

-----------------------------------------------------------------------------
(* Attempts *)

Start(v) ==
  /\ pc' = "request" /\ via' = v
  /\ attempt' = 0 /\ clock' = 0 /\ ctx' = "live"
  /\ UNCHANGED <<call, err, body, files>>

\* validateURL, and sizes no request is made for.
Refused == ~call.allowed \/ call.size < 0 \/ call.size > MaxDownload

Refuse ==
  /\ pc = "start" /\ Refused
  /\ pc' = "done" /\ err' = "refused"
  /\ UNCHANGED <<call, via, attempt, clock, ctx, body, files>>

Begin == pc = "start" /\ ~Refused /\ Start("direct")

\* What a server says of itself in a status error, or of its limit in the header
\* X-RateLimit-Reset, may sound like transport.
Texts == {"status", "status, EOF"}
Limits == {"rate limit", "rate limit, EOF"}

\* Of all errors only a status error is known by its kind before the text is
\* looked at; an error of the local disk is a syscall.Errno, which is a net.Error.
\* Mutant: the text is looked at before the kind of the error.
retryableDownloadErrBug == err \in {"slow", "transport", "disk", "rate limit, EOF", "status, EOF"}

retryableDownloadErr == err \in {"slow", "transport", "disk", "rate limit, EOF"}

Again == retryableDownloadErr /\ via = "direct" /\ call.proxy

Retry == pc = "failed" /\ Again /\ Start("proxy")

GiveUp ==
  /\ pc = "failed" /\ ~Again
  /\ pc' = "done"
  /\ UNCHANGED <<call, via, attempt, err, clock, ctx, body, files>>

-----------------------------------------------------------------------------
(* Requests: do *)

\* Another request after the delay, while there are any left.
Resend(e) ==
  IF attempt < MaxRetries THEN attempt' = attempt + 1 /\ UNCHANGED <<pc, err>>
  ELSE Fails(e) /\ UNCHANGED attempt

\* No connection, a redirect that is not followed, or the context has ended.
\* Every error of http.Client is a url.Error, which counts as transport.
Unreachable ==
  /\ pc = "request"
  /\ Resend("transport")
  /\ UNCHANGED <<call, via, clock, ctx, body, files>>

\* 429, 5xx, or 403 with Retry-After.
Busy(text) ==
  /\ pc = "request" /\ ctx = "live"
  /\ Resend(text)
  /\ UNCHANGED <<call, via, clock, ctx, body, files>>

\* Any other status, and 403 with no requests remaining, end the attempt.
Denied(e) ==
  /\ pc = "request" /\ ctx = "live"
  /\ Fails(e)
  /\ UNCHANGED <<call, via, attempt, clock, ctx, body, files>>

\* There is an answer, and no place for a temporary file.
CreateFails ==
  /\ pc = "request" /\ ctx = "live"
  /\ Fails("disk")
  /\ UNCHANGED <<call, via, attempt, clock, ctx, body, files>>

Accepted ==
  /\ pc = "request" /\ ctx = "live"
  /\ pc' = "body"
  /\ body' = NewReader /\ files' = files \union {via}
  /\ UNCHANGED <<call, via, attempt, err, clock, ctx>>

-----------------------------------------------------------------------------
(* The body, into a temporary file *)

Receive(n) ==
  /\ pc = "body" /\ n > 0 /\ body.got < Limit + 1
  /\ body' = [body EXCEPT !.got = Min({@ + n, Limit + 1}), !.recent[1] = @ + n]
  /\ UNCHANGED <<call, pc, via, attempt, err, clock, ctx, files>>

\* io.Copy returns: too much, not what was declared, or the file.
Wrong == body.got > Limit \/ (call.size > 0 /\ body.got # call.size)

\* Mutant: a body that ends early is taken for the asset.
EndBug ==
  /\ pc = "body"
  /\ IF body.got > Limit THEN Fails("size") /\ files' = files \ {via}
     ELSE pc' = "done" /\ err' = "none" /\ UNCHANGED files
  /\ UNCHANGED <<call, via, attempt, clock, ctx, body>>

End ==
  /\ pc = "body"
  /\ IF Wrong THEN Fails("size") /\ files' = files \ {via}
     ELSE pc' = "done" /\ err' = "none" /\ UNCHANGED files
  /\ UNCHANGED <<call, via, attempt, clock, ctx, body>>

\* The file has it all and cannot be closed.
CloseFails ==
  /\ pc = "body" /\ ~Wrong
  /\ Fails("disk")
  /\ files' = files \ {via}
  /\ UNCHANGED <<call, via, attempt, clock, ctx, body>>

\* The body cannot be read to its end, or not be written; the file is removed.
Cut(e) ==
  /\ pc = "body"
  /\ Fails(IF body.slow THEN "slow" ELSE e)
  /\ files' = files \ {via}
  /\ UNCHANGED <<call, via, attempt, clock, ctx, body>>

-----------------------------------------------------------------------------
(* Time *)

Age(now) == now - body.start

\* windowSpeedLocked: what the window has brought, over the window or the age of
\* the reader.  The last place of recent is the oldest tick.
\* Mutant: a young body is measured over the whole window.
TooSlowBug(now) ==
  /\ call.floor > 0 /\ Age(now) >= Grace
  /\ MapThenSumSet(LAMBDA i : body.recent[i], 1..Window) < call.floor * Window

TooSlow(now) ==
  /\ call.floor > 0 /\ Age(now) >= Grace
  /\ MapThenSumSet(LAMBDA i : body.recent[i], 1..Window) < call.floor * Min({Age(now), Window})

Shift(r) == [i \in 1..Window |-> IF i = 1 THEN 0 ELSE r[i - 1]]

\* The timer of the attempt cancels it; so does the watch, which then stops.
\* Mutant: the timer is armed when the body begins, not before the request.
TickBug ==
  /\ pc \in {"request", "body"} /\ clock < Timeout
  /\ clock' = clock + 1
  /\ LET cut == pc = "body" /\ ctx = "live" /\ TooSlow(clock')
     IN /\ body' = IF pc = "body" THEN [body EXCEPT !.recent = Shift(@), !.slow = @ \/ cut] ELSE body
        /\ ctx' = IF cut \/ (pc = "body" /\ clock' = Timeout) THEN "cancelled" ELSE ctx
  /\ UNCHANGED <<call, pc, via, attempt, err, files>>

Tick ==
  /\ pc \in {"request", "body"} /\ clock < Timeout
  /\ clock' = clock + 1
  /\ LET cut == pc = "body" /\ ctx = "live" /\ TooSlow(clock')
     IN /\ body' = IF pc = "body" THEN [body EXCEPT !.recent = Shift(@), !.slow = @ \/ cut] ELSE body
        /\ ctx' = IF cut \/ clock' = Timeout THEN "cancelled" ELSE ctx
  /\ UNCHANGED <<call, pc, via, attempt, err, files>>

Next ==
  \/ Refuse \/ Begin \/ Retry \/ GiveUp
  \/ Unreachable \/ CreateFails \/ Accepted \/ End \/ CloseFails \/ Tick
  \/ \E t \in Texts : Busy(t)
  \/ \E t \in Texts \union Limits : Denied(t)
  \/ \E n \in Speeds : Receive(n)
  \/ \E e \in {"transport", "disk"} : Cut(e)
Spec == Init /\ [][Next]_vars

\* The program goes on where it can and time passes; once the context has ended
\* the pending call returns.  Nothing is assumed of the server.
Fairness ==
  /\ WF_vars(Refuse \/ Begin \/ Retry \/ GiveUp)
  /\ WF_vars(Tick)
  /\ WF_vars(ctx = "cancelled" /\ (Unreachable \/ Cut("transport")))
FairSpec == Spec /\ Fairness

-----------------------------------------------------------------------------
(* Properties *)

\* A download that is reported leaves the one file, of the declared length; one
\* that fails, whatever step and attempt it failed in, leaves none.
FileIsExact ==
  pc = "done" =>
    /\ err = "none" => files = {via} /\ body.got <= MaxDownload
                       /\ (call.size # 0 => body.got = call.size)
    /\ err # "none" => files = {}

\* There is at most one more attempt, through the proxy and with nothing left of
\* the first, and none after a size or a status a server answered with, whose text
\* "must never flip this decision" (retryableDownloadErr).  A rate limit is final
\* only if its text does not sound like transport: this is less than what
\* docs/04-data-and-api.md says, "HTTP 4xx/5xx responses [...] are never retried
\* through the proxy", which the code does not keep.
SecondAttemptIsSound ==
  [][via # via' =>
       /\ via = "direct" /\ files = {}
       /\ err \notin Texts \union {"size", "refused", "rate limit"}]_vars

\* Whatever the network does, Download returns.
Ends == <>(pc = "done")
=============================================================================
