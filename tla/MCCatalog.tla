------------------------------ MODULE MCCatalog ------------------------------
(* Instances of Catalog for TLC.                                           *)
EXTENDS Catalog, TLC

Interchangeable == Permutations(Collective) \cup Permutations(Definition)
                     \cup Permutations(Attempt)
=============================================================================
