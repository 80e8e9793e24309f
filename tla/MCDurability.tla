----------------------------- MODULE MCDurability -----------------------------
(* Instances of Durability for TLC.                                        *)
EXTENDS Durability, TLC

Interchangeable == Permutations(Worker) \cup Permutations(Mutation)

\* One thread saves at a time: either the owner, while connections mutate, or
\* the only connection there is.
OneSaver ==
    [persist : {FALSE}, connections : {2}, ops : {{"flush", "stop"}},
     mayFail : {TRUE}, windows : BOOLEAN]
    \cup [persist : {TRUE}, connections : {1}, ops : {{}},
          mayFail : BOOLEAN, windows : {FALSE}]

\* Two connections save.
TwoSavers ==
    {[persist |-> TRUE, connections |-> 2, ops |-> {}, mayFail |-> FALSE,
      windows |-> FALSE]}
=============================================================================
