----------------------------- MODULE MCSessions ------------------------------
(* Instances of Sessions for TLC.                                          *)
EXTENDS Sessions, TLC

Interchangeable == Permutations(Conn) \cup Permutations(Session)
                     \cup Permutations(Participant)

\* States that differ in the ghost of fenced incarnations only: neither a step
\* nor a property of these runs reads it.
WithoutSpent == <<phase, epoch, evidenceVars, peers, highest, now, durable,
                  crashes, sessionVars>>
=============================================================================
