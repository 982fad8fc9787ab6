----------------------------- MODULE MCLineage -----------------------------
(* Small instances of Lineage.  Tags and digests are interchangeable.         *)
EXTENDS Lineage, TLC

Interchangeable == Permutations(Tag) \union Permutations(Sha)
=============================================================================
