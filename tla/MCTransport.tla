----------------------------- MODULE MCTransport ------------------------------
(* Instances of Transport for TLC.                                         *)
EXTENDS Transport, TLC

CONSTANTS c1, c2

Sound(size) == [size |-> size, flaw |-> "none"]

\* One client sends a frame and, if it is alone, one that does not decode; the
\* other client is quiet.
TwoClients ==
    {[max_sessions |-> 2, script |-> (c1 :> <<Sound(1)>>) @@ (c2 :> <<>>)],
     [max_sessions |-> 1,
      script |-> (c1 :> <<Sound(2), [size |-> 2, flaw |-> "payload"]>>) @@ (c2 :> <<>>)]}
=============================================================================
