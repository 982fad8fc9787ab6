----------------------------- MODULE MCTransfer -----------------------------
EXTENDS Transfer

\* Grace < Window < Timeout, as 5 s, 10 s and 10 min; a floor of one byte each tick.
MCSpeeds == {1, 2}
MCFloors == {0, 1}
=============================================================================
