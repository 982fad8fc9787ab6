------------------------------ MODULE MCJournal ------------------------------
(* Journal instances for TLC: journal ids, and file contents, are interchangeable. *)
EXTENDS JournalInv, TLC

Symmetry == Permutations(TxId) \union Permutations(Content)
=============================================================================
