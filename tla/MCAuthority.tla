----------------------------- MODULE MCAuthority -----------------------------
(* Instances of Authority for TLC.                                         *)
EXTENDS Authority, TLC

Interchangeable == Permutations(Session) \cup Permutations(TopologyGen)
                     \cup Permutations(EvidenceGen) \cup Permutations(PolicyGen)
=============================================================================
