------------------------------ MODULE Sessions ------------------------------
(***************************************************************************)
(* Sessions and connections on top of Authority: the session table of      *)
(* CoordinatorService (src/src/service.cpp) and the connection handler of  *)
(* CoordinatorServer (src/src/coordinator.cpp).  Each connection has one   *)
(* thread, which opens a session, serves frames one after the other and    *)
(* closes the session.  A frame takes two acquisitions of the service's    *)
(* mutex, one to validate its envelope and one to execute its request; a   *)
(* stop and other connections come in between.  A peer may send any epoch  *)
(* and any sequence number.  Of the requests, the publication of a         *)
(* participant changes the liveness records; the others are modelled in    *)
(* Authority, Catalog and Durability and are one action here.              *)
(***************************************************************************)
EXTENDS Authority

CONSTANTS
    Conn,           \* connections, each served by a thread
    SessionsMax,    \* limits::kSessionsMax (32 in the code)
    MaxFrame        \* bound: frame sequence numbers explored

ASSUME SessionsAssumption ==
    SessionsMax \in Nat /\ MaxFrame \in Nat

VARIABLES
    table,      \* [Session -> SessionBinding], the sessions_ of the service
    conn,       \* [Conn -> ConnectionState and the frame being served]
    served      \* ghost: [Session -> sequence numbers served, in order]

sessionVars == <<table, conn, served>>
allVars == <<vars, sessionVars>>

\* SessionBinding; epoch is 0 for a session that was never opened.  The boot
\* incarnation is minted together with the identity and goes with it.
Binding == [open : BOOLEAN, epoch : Nat, seq : Nat]
Unopened == [open |-> FALSE, epoch |-> 0, seq |-> 0]

\* "closed": no connection; "hello": handshake pending; "ready": waiting for a
\* frame; "busy": a frame passed validation and is about to be executed;
\* "rejected": no session was to be had, frames are ignored.  shut tells that
\* shutdown_socket was called: nothing more arrives, but frames the thread has
\* already read into its buffer are still handed to on_frame.
ConnState == [at : {"closed", "hello", "ready", "busy", "rejected"},
              session : Session \cup {None}, frame : Nat, shut : BOOLEAN]
Closed == [at |-> "closed", session |-> None, frame |-> 0, shut |-> FALSE]

Open == {s \in Session : table[s].open}

At(c, place) == [conn EXCEPT ![c].at = place]

HasRoom == Cardinality(Open) < SessionsMax

AdvancesOrRepeats(s, n) == n >= table[s].seq

\* The frame sequence check of check_session_locked.
Advances(s, n) == n > table[s].seq

ThreadsForgotten == TRUE

\* Transport shutdown has joined every connection thread.
ThreadsJoined == \A c \in Conn : conn[c].at = "closed"

\* expire_session for every session in S, and the sessions erased.
CloseWithoutFencing(S) ==
    /\ table' = [s \in Session |->
                   IF s \in S THEN [table[s] EXCEPT !.open = FALSE] ELSE table[s]]
    /\ UNCHANGED vars

CloseSessions(S) ==
    /\ table' = [s \in Session |->
                   IF s \in S THEN [table[s] EXCEPT !.open = FALSE] ELSE table[s]]
    /\ peers' = [p \in Participant |->
                   IF p \in Bound(S) THEN Fence(peers[p]) ELSE peers[p]]
    /\ spent' = spent \cup SpentIn(peers')
    /\ UNCHANGED <<phase, epoch, evidenceVars, highest, now, durable, crashes>>

-----------------------------------------------------------------------------
SInit ==
    /\ Init
    /\ table = [s \in Session |-> Unopened]
    /\ conn = [c \in Conn |-> Closed]
    /\ served = [s \in Session |-> <<>>]

\* CoordinatorServer::start; the object may have served before, and its earlier
\* stop returned only after the threads were joined.
Start ==
    /\ ThreadsJoined
    /\ BeginBoot
    /\ UNCHANGED sessionVars

Restore == (RestoreDurable \/ RestoreMissing) /\ UNCHANGED sessionVars

\* on_open: open_session mints an identity nobody has had.
OpenSession(c, s) ==
    /\ phase = "serving"
    /\ conn[c].at = "closed"
    /\ HasRoom
    /\ table[s].epoch = 0
    /\ table' = [table EXCEPT ![s] = [open |-> TRUE, epoch |-> epoch, seq |-> 0]]
    /\ conn' = [conn EXCEPT ![c] = [Closed EXCEPT !.at = "hello", !.session = s]]
    /\ UNCHANGED <<vars, served>>

\* on_open when open_session refuses: the connection is shut down at once.
RejectConnection(c) ==
    /\ conn[c].at = "closed"
    /\ phase = "stopped" \/ (phase = "serving" /\ ~HasRoom)
    /\ conn' = [conn EXCEPT ![c] = [Closed EXCEPT !.at = "rejected", !.shut = TRUE]]
    /\ UNCHANGED <<vars, table, served>>

\* on_frame: the hello of the handshake.
Hello(c) ==
    /\ conn[c].at = "hello"
    /\ conn' = At(c, "ready")
    /\ UNCHANGED <<vars, table, served>>

\* on_frame: a frame that ends the connection: another kind where the hello is
\* due, a malformed hello, a session or incarnation that is not the connection's,
\* or a session the service does not know (any more).  Only the socket is shut
\* down; the state of the connection and its session stay until on_close.
FatalFrame(c) ==
    /\ conn[c].at \in {"hello", "ready"}
    /\ conn' = [conn EXCEPT ![c].shut = TRUE]
    /\ UNCHANGED <<vars, table, served>>

\* on_frame: validate_envelope passes for epoch e and sequence number n.  A
\* stale epoch or a replay is answered with an error and changes nothing.
ValidateEnvelope(c, e, n) ==
    LET s == conn[c].session IN
    /\ conn[c].at = "ready"
    /\ s \in Open
    /\ e = epoch
    /\ Advances(s, n)
    /\ table' = [table EXCEPT ![s].seq = n]
    /\ conn' = [conn EXCEPT ![c].at = "busy", ![c].frame = n]
    /\ UNCHANGED <<vars, served>>

\* The thread is done with the frame it validated.
FrameServed(c) ==
    /\ conn[c].at = "busy"
    /\ conn' = At(c, "ready")
    /\ served' = [served EXCEPT ![conn[c].session] = Append(@, conn[c].frame)]
    /\ UNCHANGED table

\* dispatch of a participant publication; publish_participant asks neither for
\* the session nor whether the service is running.
ServePublish(c, p, i, st) ==
    /\ FrameServed(c)
    /\ PublishLiveness(p, i, st, conn[c].session)

\* Any other request, or a refused publication.
ServeOther(c) ==
    /\ FrameServed(c)
    /\ UNCHANGED vars

\* The thread ends, because the peer or the server shut the socket down:
\* on_close, close_session.
OnClose(c) ==
    /\ conn[c].at \in {"hello", "ready", "rejected"}
    /\ conn' = [conn EXCEPT ![c] = Closed]
    /\ CloseSessions({conn[c].session} \cap Open)
    /\ UNCHANGED served

\* CoordinatorService::stop.
Stop ==
    /\ StopService(Open)
    /\ table' = [s \in Session |-> [table[s] EXCEPT !.open = FALSE]]
    /\ UNCHANGED <<conn, served>>

Death ==
    /\ ProcessDeath
    /\ table' = [s \in Session |-> [table[s] EXCEPT !.open = FALSE]]
    /\ conn' = [c \in Conn |-> Closed]
    /\ UNCHANGED served

Clock == Tick /\ UNCHANGED sessionVars

SNext ==
    \/ Start \/ Restore \/ Stop \/ Death \/ Clock
    \/ \E c \in Conn :
          \/ \E s \in Session : OpenSession(c, s)
          \/ RejectConnection(c) \/ Hello(c) \/ FatalFrame(c) \/ OnClose(c)
          \/ \E e \in 1..MaxEpoch, n \in 1..MaxFrame : ValidateEnvelope(c, e, n)
          \/ ServeOther(c)
          \/ \E p \in Participant, i \in Incarnation, st \in PublishState :
                ServePublish(c, p, i, st)

SSpec == SInit /\ [][SNext]_allVars

-----------------------------------------------------------------------------
(* Properties.                                                             *)

\* A record that grants, or may again grant, authority.
Unspent(p) == peers[p].state \notin SpentState \cup {"absent"}

\* Type correctness of the session layer; the session bound holds and no two
\* connections share a session.
SessionsTypeOK ==
    /\ table \in [Session -> Binding]
    /\ conn \in [Conn -> ConnState]
    /\ Cardinality(Open) <= SessionsMax
    /\ \A c, d \in Conn : c # d /\ conn[c].session = conn[d].session => conn[c].session = None
    /\ served \in [Session -> Seq(Nat)]

\* Every frame is served at most once and in the order of its sequence number,
\* whatever a peer repeats or reorders and however connections and stops
\* interleave (check_session_locked).
FramesServedInOrder ==
    \A s \in Session : \A j, k \in 1..Len(served[s]) :
        j < k => served[s][j] < served[s][k]

\* No liveness record is the work of a session of an earlier boot: a frame
\* validated before a stop is not executed in the boot after it, because
\* shutdown joins its thread first.
SessionsOfThisBoot ==
    \A p \in Participant : peers[p].session # None =>
        /\ table[peers[p].session].epoch = epoch
        /\ peers[p].epoch = epoch

\* While the service runs, a participant that is not spent is bound to an open
\* session: no order of publications, takeovers by other sessions, disconnects
\* and reconnects leaves one behind (publish_participant, close_session, stop).
LiveMeansSessionOpen ==
    phase = "serving" => \A p \in Participant : Unspent(p) => peers[p].session \in Open
=============================================================================
