----------------------------- MODULE UndoStack -----------------------------
(***************************************************************************)
(* What the activation history promises its user: a stack of versions, the  *)
(* active one on top, that upgrades push and rollbacks pop, and a way home  *)
(* to the version found at the adoption.                                    *)
(***************************************************************************)
EXTENDS Integers, Sequences

CONSTANT Version

VARIABLES
  stack, \* the active version and what a rollback returns to, nearest first
  home   \* the version found at the adoption

Init == stack = <<>> /\ home \notin Version

Adopt == stack = <<>> /\ \E v, h \in Version : stack' = <<v>> /\ home' = h

\* Installing the active version again would make a rollback a no-op.
Push ==
  /\ stack # <<>> /\ stack' # <<>> /\ Tail(stack') = stack
  /\ Head(stack') \in Version \ {Head(stack)}
  /\ UNCHANGED home

Pop ==
  /\ Len(stack') \in 1..(Len(stack) - 1)
  /\ stack' = SubSeq(stack, Len(stack) - Len(stack') + 1, Len(stack))
  /\ UNCHANGED home

\* Nothing below it: a later rollback has no route to guess.
GoHome == stack # <<>> /\ stack' = <<home>> /\ UNCHANGED home

Next == Adopt \/ Push \/ Pop \/ GoHome

Spec == Init /\ [][Next]_<<stack, home>>
=============================================================================
