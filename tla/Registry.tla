------------------------------ MODULE Registry ------------------------------
(***************************************************************************)
(* What hukou promises of the tools on a machine, however many of its        *)
(* commands run at once and wherever they are killed: a tool is registered   *)
(* under a name that is free, as a whole and with the default policy; after  *)
(* that nothing but its policy changes, each time from the policy it has to  *)
(* what somebody asked for.                                                  *)
(***************************************************************************)
CONSTANTS
  Default, \* the policy of a new entry
  Asked    \* what may be asked for: sets, empty where a field is to stay

VARIABLE entries

Init == entries = {}

Register(e) ==
  /\ \A f \in entries : f.name # e.name
  /\ e.policy = Default
  /\ entries' = entries \union {e}

Kept(asked, old) == IF asked = {} THEN {old} ELSE asked

Tune(e, f, o) ==
  /\ f = [e EXCEPT !.policy = f.policy]
  /\ f.policy.mode \in Kept(o.mode, e.policy.mode)
  /\ f.policy.channel \in Kept(o.channel, e.policy.channel)
  /\ f.policy.pin = IF o.unpin THEN {} ELSE IF o.pin = {} THEN e.policy.pin ELSE o.pin
  /\ entries' = (entries \ {e}) \union {f}

Next ==
  \E f \in entries' : Register(f) \/ \E e \in entries, o \in Asked : Tune(e, f, o)

Spec == Init /\ [][Next]_entries
=============================================================================
