---------------------------- MODULE AtomicUpdate ----------------------------
(***************************************************************************)
(* What the transaction journal promises: the participants of a transaction *)
(* change together or not at all.  value is the state the participants are  *)
(* in for good; a transaction proposes a new state, and is later resolved,  *)
(* once and as a whole, to the old or to the new one.                       *)
(***************************************************************************)
CONSTANTS
  Path,     \* the participants
  State,    \* the states one participant can be in
  NoChange  \* no transaction is in doubt

VARIABLES value, proposed

Init == value \in [Path -> State] /\ proposed = NoChange

Propose ==
  /\ proposed = NoChange
  /\ proposed' \in [Path -> State]
  /\ UNCHANGED value

Resolve ==
  /\ proposed # NoChange
  /\ value' \in {value, proposed}
  /\ proposed' = NoChange

Next == Propose \/ Resolve
Spec == Init /\ [][Next]_<<value, proposed>>
=============================================================================
