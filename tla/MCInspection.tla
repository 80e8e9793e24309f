------------------------------ MODULE MCInspection ---------------------------
EXTENDS Inspection
\* Two attempts, one of which is begun again under a second generation.
MCDecision ==
    {[instance |-> [id |-> "c", gen |-> i[1], attempt |-> i[2]]] :
        i \in {<<1, "a">>, <<1, "b">>, <<2, "a">>}}
=============================================================================
