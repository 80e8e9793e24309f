---------------------------- MODULE MCAdmission -----------------------------
(* Instances of Admission for TLC.                                         *)
EXTENDS Admission, TLC

Interchangeable == Permutations(Worker) \cup Permutations(Group)
=============================================================================
